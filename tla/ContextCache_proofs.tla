------------------------- MODULE ContextCache_proofs ------------------------
(***************************************************************************)
(* Theorems about ContextCache, for any sets of users, queries, replicas   *)
(* and calls, and any faults.                                              *)
(***************************************************************************)
EXTENDS ContextCache, TLAPS

USE NonEmptyAssumption, CallsAssumption DEF Calls, Keys

-----------------------------------------------------------------------------
(* The inductive invariant. *)

\* A turn is in the table, under its user only, from the commit of its save on;
\* a clean save has returned.
TurnsCommitted ==
    \A v \in Saves :
        /\ \A u \in Users : v \in rows[u] => u = user[v] /\ pc[v] \notin {"idle", "insert"}
        /\ pc[v] \in {"connect", "ping", "scan", "delete"} \/ v \in clean => v \in rows[user[v]]
        /\ v \in clean => pc[v] = "done"

\* What a search is about to store, and what it answers, is committed.
ViewsCommitted ==
    /\ \A s \in Searches : pc[s] \in {"store", "done"} => view[s] \subseteq rows[user[s]]
    /\ \A k \in Keys : cache[k] # NoEntry => cache[k] \subseteq rows[k[1]]

\* A search about to store a view without a committed turn raced with its save.
OldViewsRace ==
    \A s \in Searches, v \in Saves :
        (pc[s] = "store" /\ v \in rows[user[s]] /\ v \notin view[s]) => s \in racers[v]

\* An entry without a committed turn was stored by a racer of its save, or its
\* save has yet to delete it, or ended without having scanned to the end, or
\* scanned for a pattern that does not match the keys of the user.
Invalidating(v, k) ==
    \/ ~MatchesItself(user[v])
    \/ pc[v] \in {"connect", "ping", "scan"}
    \/ pc[v] = "delete" /\ k \in todo[v]
    \/ pc[v] \in Ended /\ v \notin clean

StaleCovered ==
    \A k \in Keys, v \in Saves :
        (v \in rows[k[1]] /\ cache[k] # NoEntry /\ v \notin cache[k]) =>
            source[k] \in racers[v] \/ Invalidating(v, k)

\* A search remembers only saves of its user that had returned; one of them that
\* is clean is in its answer, or somebody raced with it, or the pattern of the
\* user does not match the keys of the user.
FloorsReturned ==
    \A s \in Searches :
        /\ pc[s] = "idle" => floor[s] = {}
        /\ \A v \in floor[s] : pc[v] = "done" /\ user[v] = user[s]
        /\ pc[s] \in {"store", "done"} =>
             \A v \in floor[s] \intersect clean :
                 v \in view[s] \/ racers[v] # {} \/ ~MatchesItself(user[v])

IInv ==
    /\ TypeOK
    /\ TurnsCommitted /\ ViewsCommitted
    /\ OldViewsRace /\ StaleCovered /\ FloorsReturned

-----------------------------------------------------------------------------
(* Type correctness. *)

\* The program counters of searches and of saves.
PcOK ==
    /\ pc \in [Calls -> SearchPcs \union SavePcs]
    /\ \A s \in Searches : pc[s] \in SearchPcs
    /\ \A v \in Saves : pc[v] \in SavePcs

LEMMA GotoType ==
    ASSUME PcOK, NEW c \in Calls, NEW label,
           c \in Searches => label \in SearchPcs,
           c \in Saves => label \in SavePcs,
           Goto(c, label)
    PROVE  PcOK' /\ pc'[c] = label /\ \A d \in Calls \ {c} : pc'[d] = pc[d]
BY DEF PcOK, Goto

LEMMA InitType == Init => TypeOK
<1> SUFFICES ASSUME Init PROVE TypeOK
  OBVIOUS
<1>1. /\ (CHOOSE u \in Users : TRUE) \in Users
      /\ (CHOOSE q \in Queries : TRUE) \in Queries
      /\ (CHOOSE p \in Replicas : TRUE) \in Replicas
      /\ (CHOOSE s \in Searches : TRUE) \in Searches
  OBVIOUS
<1>2. /\ user \in [Calls -> Users]
      /\ query \in [Calls -> Queries]
      /\ replica \in [Calls -> Replicas]
      /\ source \in [Keys -> Searches]
  BY <1>1 DEF Init
<1>3. /\ pc \in [Calls -> SearchPcs \union SavePcs]
      /\ \A s \in Searches : pc[s] \in SearchPcs
      /\ \A v \in Saves : pc[v] \in SavePcs
  BY DEF Init, SearchPcs, SavePcs
<1>4. /\ rows \in [Users -> SUBSET Saves]
      /\ cache \in [Keys -> {NoEntry} \union SUBSET Saves]
      /\ client \in [Replicas -> {"unset", "open", "failed"}]
      /\ cached \in [Calls -> BOOLEAN]
      /\ view \in [Searches -> SUBSET Saves]
      /\ todo \in [Saves -> SUBSET Keys]
      /\ floor \in [Searches -> SUBSET Saves]
      /\ racers \in [Saves -> SUBSET Searches]
      /\ clean \in SUBSET Saves
  BY DEF Init
<1>5. QED
  BY <1>2, <1>3, <1>4 DEF TypeOK

LEMMA TypeStep == TypeOK /\ [Next]_vars => TypeOK'
<1> SUFFICES ASSUME TypeOK, [Next]_vars PROVE TypeOK'
  OBVIOUS
<1>0. PcOK
  BY DEF TypeOK, PcOK
<1>1. CASE UNCHANGED vars
  BY <1>1 DEF vars, callVars, history, TypeOK
<1>2. ASSUME NEW s \in Searches, BeginSearch(s)
      PROVE  TypeOK'
  <2>1. PcOK'
    BY <1>0, <1>2, GotoType DEF BeginSearch, Begin, SearchPcs
  <2>2. floor' \in [Searches -> SUBSET Saves]
    BY <1>2 DEF BeginSearch, TypeOK
  <2>3. /\ user' \in [Calls -> Users]
        /\ query' \in [Calls -> Queries]
        /\ replica' \in [Calls -> Replicas]
    BY <1>2 DEF BeginSearch, Begin, TypeOK
  <2>4. QED
    BY <1>2, <2>1, <2>2, <2>3 DEF BeginSearch, Begin, TypeOK, PcOK
<1>3. ASSUME NEW v \in Saves, BeginSave(v)
      PROVE  TypeOK'
  <2>1. PcOK'
    BY <1>0, <1>3, GotoType DEF BeginSave, Begin, SavePcs
  <2>2. QED
    BY <1>3, <2>1 DEF BeginSave, Begin, TypeOK, PcOK
<1>4. ASSUME NEW c \in Calls, Connect(c)
      PROVE  TypeOK'
  <2>1. PcOK'
    BY <1>0, <1>4, GotoType DEF Connect, AfterConnect, SavePcs, SearchPcs
  <2>2. QED
    BY <1>4, <2>1 DEF Connect, TypeOK, PcOK, history
<1>5. ASSUME NEW c \in Calls, Ping(c)
      PROVE  TypeOK'
  <2>1. PcOK'
    BY <1>0, <1>5, GotoType DEF Ping, AfterConnect, SavePcs, SearchPcs
  <2>2. QED
    BY <1>5, <2>1, ZenonT(60) DEF Ping, TypeOK, PcOK, history
<1>6. ASSUME NEW s \in Searches, Lookup(s)
      PROVE  TypeOK'
  <2>1. PcOK'
    BY <1>0, <1>6, GotoType DEF Lookup, SearchPcs
  <2>2. KeyOf(s) \in Keys
    BY DEF TypeOK, KeyOf, Key
  <2>3. QED
    BY <1>6, <2>1, <2>2 DEF Lookup, TypeOK, PcOK, history
<1>7. ASSUME NEW s \in Searches, Select(s)
      PROVE  TypeOK'
  <2>1. PcOK'
    BY <1>0, <1>7, GotoType DEF Select, SearchPcs
  <2>2. QED
    BY <1>7, <2>1 DEF Select, TypeOK, PcOK, history
<1>8. ASSUME NEW s \in Searches, Store(s)
      PROVE  TypeOK'
  <2>1. PcOK'
    BY <1>0, <1>8, GotoType DEF Store, SearchPcs
  <2>2. KeyOf(s) \in Keys
    BY DEF TypeOK, KeyOf, Key
  <2>3. cache' \in [Keys -> {NoEntry} \union SUBSET Saves]
    BY <1>8, <2>2 DEF Store, TypeOK
  <2>4. source' \in [Keys -> Searches]
    BY <1>8, <2>2 DEF Store, TypeOK
  <2>5. QED
    BY <1>8, <2>1, <2>3, <2>4 DEF Store, TypeOK, PcOK
<1>9. ASSUME NEW v \in Saves, Insert(v)
      PROVE  TypeOK'
  <2>1. PcOK'
    BY <1>0, <1>9, GotoType DEF Insert, SavePcs
  <2>2. rows' \in [Users -> SUBSET Saves]
    BY <1>9 DEF Insert, TypeOK
  <2>3. racers' \in [Saves -> SUBSET Searches]
    BY <1>9 DEF Insert, TypeOK
  <2>4. QED
    BY <1>9, <2>1, <2>2, <2>3 DEF Insert, TypeOK, PcOK
<1>10. ASSUME NEW v \in Saves, BeginScan(v) \/ EndScan(v) \/ ScanFails(v)
       PROVE  TypeOK'
  <2>1. PcOK'
    BY <1>0, <1>10, GotoType DEF BeginScan, EndScan, ScanFails, SavePcs
  <2>2. todo' \in [Saves -> SUBSET Keys]
    BY <1>10, SMTT(30) DEF BeginScan, EndScan, ScanFails, SetKeysOf, TypeOK
  <2>3. clean' \in SUBSET Saves
    BY <1>10 DEF BeginScan, EndScan, ScanFails, TypeOK, history
  <2>4. QED
    BY <1>10, <2>1, <2>2, <2>3 DEF BeginScan, EndScan, ScanFails, TypeOK, PcOK, history
<1>11. ASSUME NEW k \in Keys, Unset(k),
              UNCHANGED <<rows, client, callVars, view, history>>
       PROVE  TypeOK'
  BY <1>11 DEF Unset, TypeOK, callVars, history
<1>12. ASSUME NEW v \in Saves, DeleteKey(v)
       PROVE  TypeOK'
  BY <1>11, <1>12 DEF DeleteKey, SetKeysOf
<1>13. ASSUME NEW k \in Keys, Expire(k)
       PROVE  TypeOK'
  BY <1>11, <1>13 DEF Expire
<1>14. ASSUME NEW p \in Replicas, Restart(p)
       PROVE  TypeOK'
  <2>1. PcOK'
    BY <1>0, <1>14 DEF Restart, PcOK, SearchPcs, SavePcs
  <2>2. QED
    BY <1>14, <2>1 DEF Restart, TypeOK, PcOK, history
<1>15. QED
  BY <1>1, <1>2, <1>3, <1>4, <1>5, <1>6, <1>7, <1>8, <1>9, <1>10, <1>12, <1>13, <1>14
  DEF Next, Search, Save

\* Type correctness, for every value of the constants.
THEOREM TypeCorrect == Spec => []TypeOK
BY InitType, TypeStep, PTL DEF Spec

-----------------------------------------------------------------------------
(* The invariant, action by action. *)

LEMMA InitInv == Init => IInv
<1> SUFFICES ASSUME Init PROVE IInv
  OBVIOUS
<1>1. TurnsCommitted /\ ViewsCommitted /\ OldViewsRace /\ StaleCovered /\ FloorsReturned
  BY DEF Init, TurnsCommitted, ViewsCommitted, OldViewsRace, StaleCovered, FloorsReturned
<1>2. QED
  BY <1>1, InitType DEF IInv

LEMMA BeginSearchInv ==
    ASSUME IInv, TypeOK', NEW s \in Searches, BeginSearch(s)
    PROVE  IInv'
<1> USE DEF IInv
<1>1. /\ pc[s] = "idle" /\ pc'[s] = "connect"
      /\ \A c \in Calls \ {s} : pc'[c] = pc[c] /\ user'[c] = user[c]
      /\ floor'[s] = {v \in Saves : pc[v] = "done" /\ user[v] = user'[s]}
      /\ \A t \in Searches \ {s} : floor'[t] = floor[t]
      /\ UNCHANGED <<rows, cache, view, todo, source, racers, clean>>
  BY DEF BeginSearch, Begin, Goto, TypeOK
<1>2. TurnsCommitted'
  BY <1>1 DEF TurnsCommitted
<1>3. ViewsCommitted'
  BY <1>1 DEF ViewsCommitted
<1>4. OldViewsRace'
  BY <1>1 DEF OldViewsRace
<1>5. StaleCovered'
  BY <1>1 DEF StaleCovered, Invalidating, Ended
<1>6. FloorsReturned'
  <2>1. /\ \A t \in Searches : floor'[t] \subseteq Saves
        /\ \A t \in Searches : pc'[t] = "idle" => floor'[t] = {}
        /\ \A t \in Searches : \A v \in floor'[t] : pc'[v] = "done" /\ user'[v] = user'[t]
    <3>1. ASSUME NEW t \in Searches \ {s}
          PROVE  /\ floor'[t] \subseteq Saves /\ (pc'[t] = "idle" => floor'[t] = {})
                 /\ \A v \in floor'[t] : pc'[v] = "done" /\ user'[v] = user'[t]
      BY <1>1, <3>1 DEF FloorsReturned, TypeOK
    <3>2. QED
      BY <1>1, <3>1
  <2>2. ASSUME NEW t \in Searches, pc'[t] \in {"store", "done"}, NEW v \in floor'[t] \intersect clean
        PROVE  v \in view[t] \/ racers[v] # {} \/ ~MatchesItself(user'[v])
    BY <1>1, <2>1, <2>2 DEF FloorsReturned
  <2>3. QED
    BY <1>1, <2>1, <2>2 DEF FloorsReturned
<1>7. QED
  BY <1>2, <1>3, <1>4, <1>5, <1>6

LEMMA BeginSaveInv ==
    ASSUME IInv, TypeOK', NEW v \in Saves, BeginSave(v)
    PROVE  IInv'
<1> USE DEF IInv
<1>1. /\ pc[v] = "idle" /\ pc'[v] = "insert"
      /\ \A c \in Calls \ {v} : pc'[c] = pc[c] /\ user'[c] = user[c]
      /\ UNCHANGED <<rows, cache, view, todo, source, racers, clean, floor>>
  BY DEF BeginSave, Begin, Goto, TypeOK
<1>2. TurnsCommitted'
  BY <1>1 DEF TurnsCommitted
<1>3. ViewsCommitted'
  BY <1>1 DEF ViewsCommitted
<1>4. OldViewsRace'
  BY <1>1 DEF OldViewsRace
<1>5. StaleCovered'
  BY <1>1 DEF StaleCovered, TurnsCommitted, Invalidating, Ended
<1>6. FloorsReturned'
  <2>1. \A t \in Searches : floor[t] \subseteq Saves \ {v}
    BY <1>1 DEF FloorsReturned, TypeOK
  <2>2. QED
    BY <1>1, <2>1 DEF FloorsReturned
<1>7. QED
  BY <1>2, <1>3, <1>4, <1>5, <1>6

\* Connecting moves a call on and changes nothing the invariant is about.
LEMMA ConnectInv ==
    ASSUME IInv, TypeOK', NEW c \in Calls, Connect(c) \/ Ping(c)
    PROVE  IInv'
<1> USE DEF IInv
<1>1. /\ pc[c] \in {"connect", "ping"}
      /\ c \in Searches => pc'[c] \in {"ping", "lookup", "select"}
      /\ c \in Saves => pc'[c] \in {"ping", "scan", "done"}
      /\ \A d \in Calls \ {c} : pc'[d] = pc[d]
      /\ UNCHANGED <<rows, cache, user, view, todo, source, racers, clean, floor>>
  <2>1. CASE Connect(c)
    BY <2>1 DEF Connect, AfterConnect, Goto, TypeOK, history
  <2>2. CASE Ping(c)
    <3>1. PICK ok \in BOOLEAN : Goto(c, AfterConnect(c, ok))
      BY <2>2 DEF Ping
    <3>2. pc'[c] = AfterConnect(c, ok) /\ \A d \in Calls \ {c} : pc'[d] = pc[d]
      BY <3>1 DEF Goto, TypeOK
    <3>3. QED
      BY <2>2, <3>2 DEF Ping, AfterConnect, TypeOK, history
  <2>3. QED
    BY <2>1, <2>2
<1>2. TurnsCommitted'
  BY <1>1 DEF TurnsCommitted
<1>3. ViewsCommitted'
  BY <1>1 DEF ViewsCommitted
<1>4. OldViewsRace'
  BY <1>1 DEF OldViewsRace
<1>5. StaleCovered'
  BY <1>1 DEF StaleCovered, TurnsCommitted, Invalidating, Ended
<1>6. FloorsReturned'
  BY <1>1 DEF FloorsReturned, TypeOK
<1>7. QED
  BY <1>2, <1>3, <1>4, <1>5, <1>6

\* A hit answers with an entry, which is committed and covered.
LEMMA LookupInv ==
    ASSUME IInv, TypeOK', NEW s \in Searches, Lookup(s)
    PROVE  IInv'
<1> USE DEF IInv
<1>1. /\ pc[s] = "lookup"
      /\ \A d \in Calls \ {s} : pc'[d] = pc[d]
      /\ \A t \in Searches \ {s} : view'[t] = view[t]
      /\ UNCHANGED <<rows, cache, user, todo, source, racers, clean, floor>>
      /\ \/ pc'[s] = "done" /\ view'[s] = cache[KeyOf(s)] /\ cache[KeyOf(s)] # NoEntry
         \/ pc'[s] = "select"
  BY DEF Lookup, Goto, TypeOK, history
<1>2. KeyOf(s) \in Keys /\ KeyOf(s)[1] = user[s]
  BY DEF TypeOK, KeyOf, Key
<1>3. TurnsCommitted'
  BY <1>1 DEF TurnsCommitted
<1>4. ViewsCommitted'
  BY <1>1, <1>2 DEF ViewsCommitted
<1>5. OldViewsRace'
  BY <1>1 DEF OldViewsRace
<1>6. StaleCovered'
  BY <1>1 DEF StaleCovered, Invalidating, Ended
<1>7. FloorsReturned'
  <2>1. ASSUME NEW v \in floor[s] \intersect clean, view'[s] = cache[KeyOf(s)],
               cache[KeyOf(s)] # NoEntry
        PROVE  v \in view'[s] \/ racers[v] # {} \/ ~MatchesItself(user[v])
    <3>1. v \in Saves /\ pc[v] = "done" /\ user[v] = user[s] /\ v \in rows[user[s]]
      BY <2>1 DEF FloorsReturned, TurnsCommitted, TypeOK
    <3>2. MatchesItself(user[v]) => ~Invalidating(v, KeyOf(s))
      BY <2>1, <3>1 DEF Invalidating
    <3>3. QED
      BY <1>2, <2>1, <3>1, <3>2 DEF StaleCovered
  <2>2. QED
    BY <1>1, <2>1 DEF FloorsReturned, TypeOK
<1>8. QED
  BY <1>3, <1>4, <1>5, <1>6, <1>7

\* A SELECT answers with every committed turn of the user.
LEMMA SelectInv ==
    ASSUME IInv, TypeOK', NEW s \in Searches, Select(s)
    PROVE  IInv'
<1> USE DEF IInv
<1>1. /\ pc[s] = "select"
      /\ \A d \in Calls \ {s} : pc'[d] = pc[d]
      /\ \A t \in Searches \ {s} : view'[t] = view[t]
      /\ UNCHANGED <<rows, cache, user, todo, source, racers, clean, floor>>
      /\ \/ pc'[s] \in {"store", "done"} /\ view'[s] = rows[user[s]]
         \/ pc'[s] = "raised"
  BY DEF Select, Goto, TypeOK, history
<1>2. TurnsCommitted'
  BY <1>1 DEF TurnsCommitted
<1>3. ViewsCommitted'
  BY <1>1 DEF ViewsCommitted
<1>4. OldViewsRace'
  BY <1>1 DEF OldViewsRace
<1>5. StaleCovered'
  BY <1>1 DEF StaleCovered, Invalidating, Ended
<1>6. FloorsReturned'
  <2>1. ASSUME NEW v \in floor[s] \intersect clean
        PROVE  v \in rows[user[s]]
    BY DEF FloorsReturned, TurnsCommitted, TypeOK
  <2>2. QED
    BY <1>1, <2>1, SMTT(30) DEF FloorsReturned, TypeOK
<1>7. QED
  BY <1>2, <1>3, <1>4, <1>5, <1>6

\* The entry a search stores lacks only turns of saves it raced with.
LEMMA StoreInv ==
    ASSUME IInv, TypeOK', NEW s \in Searches, Store(s)
    PROVE  IInv'
<1> USE DEF IInv
<1>1. KeyOf(s) \in Keys /\ KeyOf(s)[1] = user[s]
  BY DEF TypeOK, KeyOf, Key
<1>2. /\ pc[s] = "store" /\ pc'[s] = "done"
      /\ \A d \in Calls \ {s} : pc'[d] = pc[d]
      /\ UNCHANGED <<rows, user, view, todo, racers, clean, floor>>
      /\ \A k \in Keys \ {KeyOf(s)} : cache'[k] = cache[k] /\ source'[k] = source[k]
      /\ \/ cache'[KeyOf(s)] = view[s] /\ source'[KeyOf(s)] = s
         \/ cache' = cache /\ source' = source
  BY <1>1 DEF Store, Goto, TypeOK
<1>3. TurnsCommitted'
  BY <1>2 DEF TurnsCommitted
<1>4. ViewsCommitted'
  BY <1>1, <1>2 DEF ViewsCommitted
<1>5. OldViewsRace'
  BY <1>2 DEF OldViewsRace
<1>6. StaleCovered'
  <2>1. ASSUME NEW k \in Keys, NEW v \in Saves,
               v \in rows[k[1]], cache'[k] # NoEntry, v \notin cache'[k]
        PROVE  source'[k] \in racers[v] \/ Invalidating(v, k)
    <3>1. CASE k = KeyOf(s) /\ cache'[k] = view[s] /\ source'[k] = s
      BY <1>1, <1>2, <2>1, <3>1 DEF OldViewsRace
    <3>2. CASE cache'[k] = cache[k] /\ source'[k] = source[k]
      BY <2>1, <3>2 DEF StaleCovered
    <3>3. QED
      BY <1>2, <3>1, <3>2
  <2>2. \A v \in Saves, k \in Keys : Invalidating(v, k) => Invalidating(v, k)'
    BY <1>2 DEF Invalidating, Ended
  <2>3. QED
    BY <1>2, <2>1, <2>2 DEF StaleCovered
<1>7. FloorsReturned'
  BY <1>2 DEF FloorsReturned, TypeOK
<1>8. QED
  BY <1>3, <1>4, <1>5, <1>6, <1>7

\* A commit makes racers of the searches that are about to store.
LEMMA InsertInv ==
    ASSUME IInv, TypeOK', NEW v \in Saves, Insert(v)
    PROVE  IInv'
<1> USE DEF IInv
<1>1. CASE rows' = rows /\ racers' = racers /\ Goto(v, "raised")
  <2>1. /\ pc[v] = "insert" /\ pc'[v] = "raised"
        /\ \A d \in Calls \ {v} : pc'[d] = pc[d]
        /\ UNCHANGED <<rows, cache, user, view, todo, source, racers, clean, floor>>
    BY <1>1 DEF Insert, Goto, TypeOK
  <2>2. TurnsCommitted'
    BY <2>1 DEF TurnsCommitted
  <2>3. ViewsCommitted' /\ OldViewsRace'
    BY <2>1 DEF ViewsCommitted, OldViewsRace
  <2>4. StaleCovered'
    BY <2>1 DEF StaleCovered, TurnsCommitted, Invalidating, Ended
  <2>5. FloorsReturned'
    BY <2>1, SMTT(30) DEF FloorsReturned, TypeOK
  <2>6. QED
    BY <2>2, <2>3, <2>4, <2>5
<1>2. CASE /\ rows' = [rows EXCEPT ![user[v]] = @ \union {v}]
           /\ racers' = [racers EXCEPT ![v] = {s \in Searches : pc[s] = "store"}]
           /\ Goto(v, "connect")
  <2>1. /\ pc[v] = "insert" /\ pc'[v] = "connect" /\ user[v] \in Users
        /\ \A w \in Saves \ {v} : pc'[w] = pc[w] /\ racers'[w] = racers[w]
        /\ \A s \in Searches : pc'[s] = pc[s]
        /\ racers'[v] = {s \in Searches : pc[s] = "store"}
        /\ UNCHANGED <<cache, user, view, todo, source, clean, floor>>
    BY <1>2 DEF Insert, Goto, TypeOK
  <2>2. /\ rows'[user[v]] = rows[user[v]] \union {v}
        /\ \A u \in Users \ {user[v]} : rows'[u] = rows[u]
    BY <1>2, <2>1 DEF TypeOK
  <2>3. v \notin clean /\ \A s \in Searches : v \notin floor[s]
    BY <2>1 DEF TurnsCommitted, FloorsReturned
  <2>4. /\ \A u \in Users : rows[u] \subseteq rows'[u] /\ rows'[u] \subseteq rows[u] \union {v}
        /\ \A s \in Searches : user[s] \in Users
        /\ \A w \in Saves : user[w] \in Users
        /\ \A k \in Keys : k[1] \in Users
    BY <2>2 DEF TypeOK
  <2>5. TurnsCommitted'
    BY <2>1, <2>2, <2>4 DEF TurnsCommitted
  <2>6. ViewsCommitted'
    BY <2>1, <2>4 DEF ViewsCommitted
  <2>7. OldViewsRace'
    BY <2>1, <2>4 DEF OldViewsRace
  <2>8. StaleCovered'
    BY <2>1, <2>4 DEF StaleCovered, Invalidating, Ended
  <2>9. FloorsReturned'
    <3>1. \A s \in Searches : floor[s] \subseteq Saves \ {v}
      BY <2>3 DEF TypeOK
    <3>2. QED
      BY <2>1, <3>1 DEF FloorsReturned
  <2>10. QED
    BY <2>5, <2>6, <2>7, <2>8, <2>9
<1>3. QED
  BY <1>1, <1>2 DEF Insert

\* The scan of a save and its end: a failing one leaves the save unclean, a
\* complete one has no entry left to visit.
LEMMA ScanInv ==
    ASSUME IInv, TypeOK', NEW v \in Saves, BeginScan(v) \/ EndScan(v) \/ ScanFails(v)
    PROVE  IInv'
<1> USE DEF IInv
<1>1. /\ \A d \in Calls \ {v} : pc'[d] = pc[d]
      /\ \A w \in Saves \ {v} : todo'[w] = todo[w]
      /\ UNCHANGED <<rows, cache, user, view, source, racers, floor>>
      /\ \/ /\ pc[v] = "scan" /\ pc'[v] = "delete" /\ clean' = clean
            /\ todo'[v] = SetKeysOf(user[v])
         \/ pc[v] = "delete" /\ pc'[v] = "done" /\ todo[v] = {} /\ clean' = clean \union {v}
         \/ pc[v] \in {"scan", "delete"} /\ pc'[v] = "done" /\ clean' = clean
  BY DEF BeginScan, EndScan, ScanFails, Goto, TypeOK, history
<1>2. v \in rows[user[v]] /\ v \notin clean /\ \A s \in Searches : v \notin floor[s]
  BY <1>1 DEF TurnsCommitted, FloorsReturned
<1>3. TurnsCommitted'
  BY <1>1, <1>2 DEF TurnsCommitted
<1>4. ViewsCommitted' /\ OldViewsRace'
  BY <1>1 DEF ViewsCommitted, OldViewsRace
<1>5. StaleCovered'
  <2>1. ASSUME NEW k \in Keys, NEW w \in Saves,
               w \in rows[k[1]], cache[k] # NoEntry, w \notin cache[k]
        PROVE  source[k] \in racers[w] \/ Invalidating(w, k)'
    <3>1. source[k] \in racers[w] \/ Invalidating(w, k)
      BY <2>1 DEF StaleCovered
    <3>2. CASE w # v
      BY <1>1, <3>1, <3>2 DEF Invalidating, Ended
    <3>3. CASE w = v
      <4>1. k[1] = user[v]
        BY <2>1, <3>3 DEF TurnsCommitted
      <4>2. MatchesItself(user[v]) => k \in SetKeysOf(user[v])
        BY <2>1, <4>1 DEF SetKeysOf, MatchesItself
      <4>3. QED
        BY <1>1, <1>2, <3>1, <3>3, <4>2 DEF Invalidating, Ended
    <3>4. QED
      BY <3>2, <3>3
  <2>2. QED
    BY <1>1, <2>1 DEF StaleCovered
<1>6. FloorsReturned'
  <2>1. /\ \A s \in Searches : floor[s] \subseteq Saves \ {v} /\ pc'[s] = pc[s]
        /\ clean' \subseteq clean \union {v}
    BY <1>1, <1>2 DEF TypeOK
  <2>2. QED
    BY <1>1, <2>1 DEF FloorsReturned
<1>7. QED
  BY <1>3, <1>4, <1>5, <1>6

\* An entry that goes away takes its staleness with it.
LEMMA UnsetInv ==
    ASSUME IInv, TypeOK', NEW k \in Keys, Unset(k),
           UNCHANGED <<rows, client, callVars, view, history>>
    PROVE  IInv'
<1> USE DEF IInv
<1>1. /\ UNCHANGED <<rows, user, pc, view, source, racers, clean, floor>>
      /\ cache'[k] = NoEntry
      /\ \A j \in Keys \ {k} : cache'[j] = cache[j]
      /\ \A v \in Saves : todo'[v] = todo[v] \ {k}
  BY DEF Unset, TypeOK, callVars, history
<1>2. TurnsCommitted'
  BY <1>1 DEF TurnsCommitted
<1>3. ViewsCommitted' /\ OldViewsRace'
  BY <1>1 DEF ViewsCommitted, OldViewsRace
<1>4. StaleCovered'
  BY <1>1 DEF StaleCovered, Invalidating
<1>5. FloorsReturned'
  BY <1>1 DEF FloorsReturned
<1>6. QED
  BY <1>2, <1>3, <1>4, <1>5

\* A restart ends calls, and a save it ends is not clean.
LEMMA RestartInv ==
    ASSUME IInv, TypeOK', NEW p \in Replicas, Restart(p)
    PROVE  IInv'
<1> USE DEF IInv
<1>1. /\ UNCHANGED <<rows, cache, user, view, todo, source, racers, clean, floor>>
      /\ \A c \in Calls : \/ pc'[c] = pc[c]
                          \/ pc[c] \notin {"idle", "done"} /\ pc'[c] = "raised"
  BY DEF Restart, Ended, TypeOK, history
<1>2. TurnsCommitted'
  BY <1>1 DEF TurnsCommitted
<1>3. ViewsCommitted' /\ OldViewsRace'
  BY <1>1 DEF ViewsCommitted, OldViewsRace
<1>4. StaleCovered'
  BY <1>1 DEF StaleCovered, TurnsCommitted, Invalidating, Ended
<1>5. FloorsReturned'
  BY <1>1, ZenonT(60) DEF FloorsReturned, TypeOK
<1>6. QED
  BY <1>2, <1>3, <1>4, <1>5

\* Every step keeps the invariant.
LEMMA InvStep == IInv /\ [Next]_vars => IInv'
<1> SUFFICES ASSUME IInv, [Next]_vars PROVE IInv'
  OBVIOUS
<1>1. TypeOK'
  BY TypeStep DEF IInv
<1>2. CASE UNCHANGED vars
  <2>1. UNCHANGED <<rows, cache, pc, user, view, todo, source, racers, clean, floor>>
    BY <1>2 DEF vars, callVars, history
  <2>2. TurnsCommitted' /\ ViewsCommitted' /\ OldViewsRace' /\ FloorsReturned'
    BY <2>1 DEF IInv, TurnsCommitted, ViewsCommitted, OldViewsRace, FloorsReturned
  <2>3. StaleCovered'
    BY <2>1 DEF IInv, StaleCovered, Invalidating
  <2>4. QED
    BY <1>1, <2>2, <2>3 DEF IInv
<1>3. ASSUME NEW s \in Searches, BeginSearch(s) \/ Search(s)
      PROVE  IInv'
  BY <1>1, <1>3, BeginSearchInv, ConnectInv, LookupInv, SelectInv, StoreInv DEF Search
<1>4. ASSUME NEW v \in Saves, BeginSave(v) \/ Save(v)
      PROVE  IInv'
  <2>1. CASE DeleteKey(v)
    BY <1>1, <2>1, UnsetInv DEF DeleteKey, SetKeysOf
  <2>2. CASE ~DeleteKey(v)
    BY <1>1, <1>4, <2>2, BeginSaveInv, InsertInv, ConnectInv, ScanInv DEF Save
  <2>3. QED
    BY <2>1, <2>2
<1>5. ASSUME NEW k \in Keys, Expire(k)
      PROVE  IInv'
  BY <1>1, <1>5, UnsetInv DEF Expire
<1>6. ASSUME NEW p \in Replicas, Restart(p)
      PROVE  IInv'
  BY <1>1, <1>6, RestartInv
<1>7. QED
  BY <1>2, <1>3, <1>4, <1>5, <1>6 DEF Next

\* The inductive invariant holds in every reachable state.
LEMMA Invariant == Spec => []IInv
BY InitInv, InvStep, PTL DEF Spec

\* No answer and no entry holds another user's turn or an uncommitted one.
THEOREM AnswersAreOwnAndCommitted == Spec => []OwnCommittedRows
<1>1. IInv => OwnCommittedRows
  BY DEF IInv, ViewsCommitted, OwnCommittedRows
<1>2. QED
  BY <1>1, Invariant, PTL

\* After a complete invalidation only a racing search leaves a stale entry,
\* whatever the other replicas, Redis, PostgreSQL and restarts do.
THEOREM StaleEntriesAreRaced == Spec => []StaleOnlyByRace
<1>1. ASSUME IInv
      PROVE  StaleOnlyByRace
  <2>1. SUFFICES ASSUME NEW k \in Keys, NEW v \in clean, MatchesItself(user[v]),
                        user[v] = k[1], cache[k] # NoEntry, v \notin cache[k]
                 PROVE  source[k] \in racers[v]
    BY DEF StaleOnlyByRace, Invalidated
  <2>2. v \in Saves /\ v \in rows[k[1]] /\ pc[v] = "done"
    BY <1>1, <2>1 DEF IInv, TypeOK, TurnsCommitted
  <2>3. ~Invalidating(v, k)
    BY <2>1, <2>2 DEF Invalidating
  <2>4. QED
    BY <1>1, <2>1, <2>2, <2>3 DEF IInv, StaleCovered
<1>2. QED
  BY <1>1, Invariant, PTL

\* So a search that misses the turn of a clean save owes it to a race.
THEOREM StaleAnswersAreRaced == Spec => []StaleAnswerWasRaced
<1>1. IInv => StaleAnswerWasRaced
  BY DEF IInv, FloorsReturned, StaleAnswerWasRaced, Invalidated
<1>2. QED
  BY <1>1, Invariant, PTL

-----------------------------------------------------------------------------
(* What a user sees is one history. *)

\* The sets of turns of a user that there are: the table, the entries, and the
\* views searches are about to store or answer.
Seen(u, turns) ==
    \/ turns = rows[u]
    \/ \E k \in Keys : k[1] = u /\ cache[k] # NoEntry /\ turns = cache[k]
    \/ \E s \in Searches : user[s] = u /\ pc[s] \in {"store", "done"} /\ turns = view[s]

\* Any two of them are comparable: the one is the other at a later time.
OneHistory ==
    \A u \in Users : \A a, b \in SUBSET Saves :
        Seen(u, a) /\ Seen(u, b) => a \subseteq b \/ b \subseteq a

LEMMA SeenIsCommitted ==
    ASSUME IInv, NEW u \in Users, NEW a, Seen(u, a)
    PROVE  a \subseteq rows[u]
BY DEF IInv, ViewsCommitted, Seen

\* A table only grows, and what it held is still seen as an entry or a view only
\* if it was.
GoesFrom(u, a) == rows[u] \subseteq rows'[u] /\ (Seen(u, a) \/ a = rows'[u])

LEMMA SeenStep ==
    ASSUME IInv, [Next]_vars, NEW u \in Users, NEW a, Seen(u, a)'
    PROVE  GoesFrom(u, a)
<1>type. /\ rows \in [Users -> SUBSET Saves]
         /\ cache \in [Keys -> {NoEntry} \union SUBSET Saves]
         /\ pc \in [Calls -> SearchPcs \union SavePcs]
         /\ user \in [Calls -> Users] /\ query \in [Calls -> Queries]
         /\ view \in [Searches -> SUBSET Saves]
  BY DEF IInv, TypeOK
<1>key. ASSUME NEW s \in Searches PROVE KeyOf(s) \in Keys /\ KeyOf(s)[1] = user[s]
  BY <1>type DEF KeyOf, Key
<1>same. ASSUME rows[u] \subseteq rows'[u],
                \A k \in Keys : k[1] = u /\ cache'[k] # NoEntry => Seen(u, cache'[k]),
                \A s \in Searches : user'[s] = u /\ pc'[s] \in {"store", "done"} => Seen(u, view'[s])
         PROVE  GoesFrom(u, a)
  BY <1>same DEF Seen, GoesFrom
<1>cache. ASSUME cache' = cache
          PROVE  \A k \in Keys : k[1] = u /\ cache'[k] # NoEntry => Seen(u, cache'[k])
  BY <1>cache DEF Seen
<1>view. ASSUME view' = view,
                \A s \in Searches : /\ pc'[s] \in {"store", "done"} => pc[s] \in {"store", "done"}
                                    /\ pc'[s] \in {"store", "done"} => user'[s] = user[s]
         PROVE  \A s \in Searches : user'[s] = u /\ pc'[s] \in {"store", "done"} => Seen(u, view'[s])
  BY <1>view DEF Seen
<1>1. CASE UNCHANGED vars
  BY <1>1, <1>same, <1>cache, <1>view DEF vars, callVars
<1>2. ASSUME NEW c \in Calls, NEW first \in {"connect", "insert"}, Begin(c, first)
      PROVE  GoesFrom(u, a)
  <2>1. /\ UNCHANGED <<rows, cache, view>>
        /\ pc'[c] \notin {"store", "done"}
        /\ \A d \in Calls \ {c} : pc'[d] = pc[d] /\ user'[d] = user[d]
    BY <1>2, <1>type DEF Begin, Goto
  <2>2. QED
    BY <2>1, <1>same, <1>cache, <1>view
<1>3. ASSUME NEW c \in Calls, Connect(c) \/ Ping(c)
      PROVE  GoesFrom(u, a)
  <2>1. /\ UNCHANGED <<rows, cache, user, view>>
        /\ c \in Searches => pc'[c] \notin {"store", "done"}
        /\ \A d \in Calls \ {c} : pc'[d] = pc[d]
    BY <1>3, <1>type DEF Connect, Ping, AfterConnect, Goto, history
  <2>2. QED
    BY <2>1, <1>same, <1>cache, <1>view
<1>4. ASSUME NEW s \in Searches, Lookup(s) \/ Select(s)
      PROVE  GoesFrom(u, a)
  <2>1. /\ UNCHANGED <<rows, cache, user>>
        /\ \A t \in Searches \ {s} : pc'[t] = pc[t] /\ view'[t] = view[t]
    BY <1>4, <1>type DEF Lookup, Select, Goto, history
  <2>2. pc'[s] \in {"store", "done"} /\ user[s] = u => Seen(u, view'[s])
    <3>1. CASE Lookup(s)
      BY <3>1, <1>type, <1>key DEF Lookup, Goto, Seen
    <3>2. CASE Select(s)
      BY <3>2, <1>type DEF Select, Goto, Seen
    <3>3. QED
      BY <1>4, <3>1, <3>2
  <2>3. \A t \in Searches : user'[t] = u /\ pc'[t] \in {"store", "done"} => Seen(u, view'[t])
    BY <2>1, <2>2 DEF Seen
  <2>4. QED
    BY <2>1, <2>3, <1>same, <1>cache
<1>5. ASSUME NEW s \in Searches, Store(s)
      PROVE  GoesFrom(u, a)
  <2>1. /\ UNCHANGED <<rows, user, view>> /\ pc[s] = "store"
        /\ \A t \in Searches \ {s} : pc'[t] = pc[t]
        /\ \A k \in Keys : cache'[k] = cache[k] \/ (k = KeyOf(s) /\ cache'[k] = view[s])
    BY <1>5, <1>type, <1>key DEF Store, Goto
  <2>2. \A k \in Keys : k[1] = u /\ cache'[k] # NoEntry => Seen(u, cache'[k])
    BY <2>1, <1>key DEF Seen
  <2>3. QED
    BY <2>1, <2>2, <1>same, <1>view
<1>6. ASSUME NEW v \in Saves, Insert(v) \/ BeginScan(v) \/ EndScan(v) \/ ScanFails(v)
      PROVE  GoesFrom(u, a)
  <2>1. /\ UNCHANGED <<cache, user, view>> /\ rows[u] \subseteq rows'[u]
        /\ \A s \in Searches : pc'[s] = pc[s]
    BY <1>6, <1>type DEF Insert, BeginScan, EndScan, ScanFails, Goto, history
  <2>2. QED
    BY <2>1, <1>same, <1>cache, <1>view
<1>7. ASSUME NEW k \in Keys, Unset(k), UNCHANGED <<rows, callVars, view>>
      PROVE  GoesFrom(u, a)
  <2>1. /\ UNCHANGED <<rows, pc, user, view>>
        /\ \A j \in Keys : cache'[j] = cache[j] \/ cache'[j] = NoEntry
    BY <1>7, <1>type DEF Unset, callVars
  <2>2. \A j \in Keys : j[1] = u /\ cache'[j] # NoEntry => Seen(u, cache'[j])
    BY <2>1 DEF Seen
  <2>3. QED
    BY <2>1, <2>2, <1>same, <1>view
<1>8. ASSUME NEW p \in Replicas, Restart(p)
      PROVE  GoesFrom(u, a)
  <2>1. /\ UNCHANGED <<rows, cache, user, view>>
        /\ \A s \in Searches : pc'[s] = pc[s] \/ pc'[s] = "raised"
    BY <1>8, <1>type DEF Restart, Ended, history
  <2>2. QED
    BY <2>1, <1>same, <1>cache, <1>view
<1>9. QED
  BY <1>1, <1>2, <1>3, <1>4, <1>5, <1>6, <1>7, <1>8
  DEF Next, BeginSearch, BeginSave, Search, Save, DeleteKey, SetKeysOf, Expire

\* Two answers to one user never contradict each other, on any replica, from the
\* table or from the cache, however stale: each is what the table held at one time,
\* so that one of them goes on where the other ends (search, save).
THEOREM AnswersAreOneHistory == Spec => []OneHistory
<1>1. Init => OneHistory
  BY DEF Init, OneHistory, Seen
<1>2. IInv /\ OneHistory /\ [Next]_vars => OneHistory'
  <2>1. SUFFICES ASSUME IInv, OneHistory, [Next]_vars, NEW u \in Users,
                        NEW a \in SUBSET Saves, NEW b \in SUBSET Saves, Seen(u, a)', Seen(u, b)'
                 PROVE  a \subseteq b \/ b \subseteq a
    BY DEF OneHistory
  <2>2. GoesFrom(u, a) /\ GoesFrom(u, b)
    BY <2>1, SeenStep
  <2>3. /\ Seen(u, a) => a \subseteq rows[u]
        /\ Seen(u, b) => b \subseteq rows[u]
    BY <2>1, SeenIsCommitted
  <2>4. QED
    BY <2>1, <2>2, <2>3 DEF OneHistory, GoesFrom
<1>3. QED
  BY <1>1, <1>2, Invariant, PTL DEF Spec

-----------------------------------------------------------------------------
(* Calls end and entries expire. *)

SearchLive == {"connect", "ping", "lookup", "select", "store"}
SaveLive == {"insert", "connect", "ping", "scan", "delete"}

\* The steps are possible when their guards say so.
ReadyIsEnabled ==
    /\ \A s \in Searches : pc[s] \in SearchLive => ENABLED <<Search(s)>>_vars
    /\ \A v \in Saves : pc[v] \in SaveLive \ {"delete"} => ENABLED <<Save(v)>>_vars
    /\ \A v \in Saves : pc[v] = "delete" /\ todo[v] = {} => ENABLED <<EndScan(v)>>_vars
    /\ \A k \in Keys : cache[k] # NoEntry => ENABLED <<Expire(k)>>_vars

\* A scan has to visit keys that are set.
TodoIsSet == \A v \in Saves : \A k \in todo[v] : cache[k] # NoEntry

LEMMA TodoStep ==
    ASSUME IInv, TodoIsSet, [Next]_vars
    PROVE  TodoIsSet'
<1>type. /\ cache \in [Keys -> {NoEntry} \union SUBSET Saves]
         /\ todo \in [Saves -> SUBSET Keys] /\ view \in [Searches -> SUBSET Saves]
  BY DEF IInv, TypeOK
<1>1. CASE UNCHANGED <<cache, todo>>
  BY <1>1 DEF TodoIsSet
<1>2. ASSUME NEW k \in Keys, Unset(k) PROVE TodoIsSet'
  BY <1>2, <1>type DEF Unset, TodoIsSet
<1>3. ASSUME NEW v \in Saves, BeginScan(v) PROVE TodoIsSet'
  BY <1>3, <1>type DEF BeginScan, SetKeysOf, TodoIsSet
<1>4. ASSUME NEW s \in Searches, Store(s) PROVE TodoIsSet'
  <2>1. \A k \in Keys : cache'[k] = cache[k] \/ cache'[k] = view[s]
    BY <1>4, <1>type DEF Store
  <2>2. view[s] # NoEntry /\ todo' = todo
    BY <1>4, <1>type DEF Store
  <2>3. QED
    BY <1>type, <2>1, <2>2 DEF TodoIsSet
<1>5. \/ UNCHANGED <<cache, todo>>
      \/ \E k \in Keys : Unset(k)
      \/ \E v \in Saves : BeginScan(v)
      \/ \E s \in Searches : Store(s)
  BY DEF Next, BeginSearch, BeginSave, Begin, Search, Save, Connect, Ping, Lookup, Select, Insert,
     DeleteKey, SetKeysOf, EndScan, ScanFails, Expire, Restart, vars
<1>6. QED
  BY <1>1, <1>2, <1>3, <1>4, <1>5

Sound == IInv /\ TodoIsSet

LEMMA SoundAlways == Spec => []Sound
<1>1. Init => TodoIsSet
  BY DEF Init, TodoIsSet
<1>2. IInv /\ TodoIsSet /\ [Next]_vars => TodoIsSet'
  BY TodoStep
<1>3. QED
  BY <1>1, <1>2, Invariant, PTL DEF Spec, Sound

\* A call that began stays where it is but for its own steps, unless its replica dies.
LEMMA CallKeeps ==
    ASSUME Sound, [Next]_vars, NEW c \in Calls, pc[c] # "idle"
    PROVE  \/ c \in Searches /\ <<Search(c)>>_vars
           \/ c \in Saves /\ <<Save(c)>>_vars
           \/ pc'[c] = pc[c]
           \/ pc'[c] = "raised"
<1>type. pc \in [Calls -> SearchPcs \union SavePcs]
  BY DEF Sound, IInv, TypeOK
<1>1. CASE UNCHANGED vars
  BY <1>1 DEF vars, callVars
<1>2. ASSUME NEW d \in Calls, NEW first, Begin(d, first) PROVE pc'[c] = pc[c]
  BY <1>2, <1>type DEF Begin, Goto
<1>3. ASSUME NEW s \in Searches, Search(s), s # c PROVE pc'[c] = pc[c]
  BY <1>3, <1>type DEF Search, Connect, Ping, Lookup, Select, Store, Goto
<1>4. ASSUME NEW v \in Saves, Save(v), v # c PROVE pc'[c] = pc[c]
  BY <1>4, <1>type DEF Save, Insert, Connect, Ping, BeginScan, DeleteKey, EndScan, ScanFails, Goto, callVars
<1>5. ASSUME NEW k \in Keys, Expire(k) PROVE pc'[c] = pc[c]
  BY <1>5 DEF Expire, callVars
<1>6. ASSUME NEW p \in Replicas, Restart(p) PROVE pc'[c] = pc[c] \/ pc'[c] = "raised"
  BY <1>6, <1>type DEF Restart
<1>7. QED
  BY <1>1, <1>2, <1>3, <1>4, <1>5, <1>6 DEF Next, BeginSearch, BeginSave

LEMMA SearchMoves ==
    ASSUME Sound, NEW s \in Searches, Search(s)
    PROVE  \/ pc[s] = "connect" /\ pc'[s] \in {"ping", "lookup", "select"}
           \/ pc[s] = "ping" /\ pc'[s] \in {"lookup", "select"}
           \/ pc[s] = "lookup" /\ pc'[s] \in {"select", "done"}
           \/ pc[s] = "select" /\ pc'[s] \in {"store", "done", "raised"}
           \/ pc[s] = "store" /\ pc'[s] = "done"
<1>type. pc \in [Calls -> SearchPcs \union SavePcs]
  BY DEF Sound, IInv, TypeOK
<1>1. CASE Connect(s)
  BY <1>1, <1>type DEF Connect, AfterConnect, Goto
<1>2. CASE Ping(s)
  BY <1>2, <1>type DEF Ping, AfterConnect, Goto
<1>3. CASE Lookup(s) \/ Select(s) \/ Store(s)
  BY <1>3, <1>type DEF Lookup, Select, Store, Goto
<1>4. QED
  BY <1>1, <1>2, <1>3 DEF Search

SearchEnds(s) == pc[s] \in SearchLive ~> pc[s] \in Ended

LEMMA FairSearchEnds ==
    ASSUME NEW s \in Searches
    PROVE  []Sound /\ [][Next]_vars /\ []ReadyIsEnabled /\ FairSearch(s) => SearchEnds(s)
<1> DEFINE Connects == pc[s] = "connect"
           Pings == pc[s] = "ping"
           Looks == pc[s] = "lookup"
           Selects == pc[s] = "select"
           Stores == pc[s] = "store"
           Over == pc[s] \in Ended
           Live == Connects \/ Pings \/ Looks \/ Selects \/ Stores
<1>1. Sound /\ [Next]_vars => /\ Connects => Connects' \/ <<Search(s)>>_vars \/ Over'
                              /\ Pings => Pings' \/ <<Search(s)>>_vars \/ Over'
                              /\ Looks => Looks' \/ <<Search(s)>>_vars \/ Over'
                              /\ Selects => Selects' \/ <<Search(s)>>_vars \/ Over'
                              /\ Stores => Stores' \/ <<Search(s)>>_vars \/ Over'
  BY CallKeeps DEF Ended
<1>2. Sound /\ <<Search(s)>>_vars => /\ Connects => (Pings \/ Looks \/ Selects)'
                                     /\ Pings => (Looks \/ Selects)'
                                     /\ Looks => (Selects \/ Over)'
                                     /\ Selects => (Stores \/ Over)'
                                     /\ Stores => Over'
  BY SearchMoves DEF Ended
<1>3. ReadyIsEnabled /\ Live => ENABLED <<Search(s)>>_vars
  BY DEF ReadyIsEnabled, SearchLive
<1>4. (pc[s] \in SearchLive <=> Live) /\ (pc[s] \in Ended <=> Over)
  BY DEF SearchLive
<1>5. Live <=> Connects \/ Pings \/ Looks \/ Selects \/ Stores
  OBVIOUS
<1> HIDE DEF Connects, Pings, Looks, Selects, Stores, Over, Live
<1>6. QED
  BY <1>1, <1>2, <1>3, <1>4, <1>5, PTL DEF FairSearch, SearchEnds

\* A search comes back, with an answer or an error, whatever Redis and PostgreSQL do
\* and however often another call connects, latches or restarts (search).
THEOREM SearchesEnd ==
    Spec /\ []Fairness /\ []ReadyIsEnabled => \A s \in Searches : SearchEnds(s)
<1> SUFFICES ASSUME NEW s \in Searches
             PROVE  Spec /\ []Fairness /\ []ReadyIsEnabled => SearchEnds(s)
  OBVIOUS
<1>1. Fairness => FairSearch(s)
  BY DEF Fairness
<1>2. []Sound /\ [][Next]_vars /\ []ReadyIsEnabled /\ FairSearch(s) => SearchEnds(s)
  BY FairSearchEnds
<1>3. QED
  BY <1>1, <1>2, SoundAlways, PTL DEF Spec

LEMMA SaveMoves ==
    ASSUME Sound, NEW v \in Saves, Save(v)
    PROVE  \/ pc[v] = "insert" /\ pc'[v] \in {"connect", "raised"}
           \/ pc[v] = "connect" /\ pc'[v] \in {"ping", "scan", "done"}
           \/ pc[v] = "ping" /\ pc'[v] \in {"scan", "done"}
           \/ pc[v] = "scan" /\ pc'[v] \in {"delete", "done"}
           \/ pc[v] = "delete" /\ pc'[v] \in {"delete", "done"}
<1>type. pc \in [Calls -> SearchPcs \union SavePcs]
  BY DEF Sound, IInv, TypeOK
<1>1. CASE Connect(v)
  BY <1>1, <1>type DEF Connect, AfterConnect, Goto
<1>2. CASE Ping(v)
  BY <1>2, <1>type DEF Ping, AfterConnect, Goto
<1>3. CASE DeleteKey(v)
  BY <1>3 DEF DeleteKey, callVars
<1>4. CASE Insert(v) \/ BeginScan(v) \/ EndScan(v) \/ ScanFails(v)
  BY <1>4, <1>type DEF Insert, BeginScan, EndScan, ScanFails, Goto
<1>5. QED
  BY <1>1, <1>2, <1>3, <1>4 DEF Save

\* A scan that has begun has less and less to visit.
Visits(v) == \E k \in todo[v] : todo'[v] = todo[v] \ {k}

LEMMA TodoShrinks ==
    ASSUME Sound, [Next]_vars, NEW v \in Saves, pc[v] = "delete"
    PROVE  todo'[v] = todo[v] \/ <<Visits(v)>>_vars
<1>type. /\ pc \in [Calls -> SearchPcs \union SavePcs] /\ todo \in [Saves -> SUBSET Keys]
         /\ cache \in [Keys -> {NoEntry} \union SUBSET Saves]
  BY DEF Sound, IInv, TypeOK
<1>1. ASSUME NEW k \in Keys, Unset(k) PROVE todo'[v] = todo[v] \/ <<Visits(v)>>_vars
  <2>1. todo'[v] = todo[v] \ {k}
    BY <1>1, <1>type DEF Unset
  <2>2. CASE k \in todo[v]
    <3>1. todo' # todo
      BY <2>1, <2>2
    <3>2. QED
      BY <2>1, <2>2, <3>1 DEF Visits, vars
  <2>3. QED
    BY <2>1, <2>2
<1>2. ASSUME NEW w \in Saves, BeginScan(w) PROVE todo'[v] = todo[v]
  BY <1>2, <1>type DEF BeginScan
<1>3. todo' = todo \/ (\E k \in Keys : Unset(k)) \/ \E w \in Saves : BeginScan(w)
  BY DEF Next, BeginSearch, BeginSave, Begin, Search, Save, Connect, Ping, Lookup, Select, Store, Insert,
     DeleteKey, SetKeysOf, EndScan, ScanFails, Expire, Restart, vars
<1>4. QED
  BY <1>1, <1>2, <1>3

Visiting(v, k) == pc[v] = "delete" /\ k \in todo[v]
VisitsNow(v, k) == Visiting(v, k) => <>(pc[v] \in Ended) \/ <><<Visits(v)>>_vars

\* A key a scan has to visit is visited, or expires before.
LEMMA KeyIsVisited ==
    ASSUME NEW v \in Saves, NEW k \in Keys
    PROVE  []Sound /\ [][Next]_vars /\ []ReadyIsEnabled /\ FairEntry(k) => VisitsNow(v, k)
<1> DEFINE Over == pc[v] \in Ended
<1>1. Sound /\ [Next]_vars /\ Visiting(v, k) => Visiting(v, k)' \/ Over' \/ <<Visits(v)>>_vars
  <2> SUFFICES ASSUME Sound, [Next]_vars, Visiting(v, k), ~<<Visits(v)>>_vars, ~Over'
               PROVE  Visiting(v, k)'
    OBVIOUS
  <2>1. k \in todo'[v]
    BY TodoShrinks DEF Visiting
  <2>2. pc'[v] = "delete"
    <3>1. CASE <<Save(v)>>_vars
      BY <3>1, SaveMoves DEF Visiting, Ended
    <3>2. CASE ~<<Save(v)>>_vars
      BY <3>2, CallKeeps DEF Visiting, Ended
    <3>3. QED
      BY <3>1, <3>2
  <2>3. QED
    BY <2>1, <2>2 DEF Visiting
<1>2. Sound /\ Visiting(v, k) /\ <<Expire(k)>>_vars => <<Visits(v)>>_vars
  BY DEF Sound, IInv, TypeOK, Visiting, Expire, Unset, Visits
<1>3. Sound /\ ReadyIsEnabled /\ Visiting(v, k) => ENABLED <<Expire(k)>>_vars
  BY DEF Sound, TodoIsSet, Visiting, ReadyIsEnabled
<1>4. pc[v] \in Ended <=> Over
  OBVIOUS
<1> HIDE DEF Over
<1>5. QED
  BY <1>1, <1>2, <1>3, <1>4, PTL DEF FairEntry, VisitsNow

SaveEnds(v) ==
    [](pc[v] \in SaveLive => <>(pc[v] \in Ended) \/ []<><<Visits(v)>>_vars)

LEMMA FairSaveEnds ==
    ASSUME NEW v \in Saves
    PROVE  []Sound /\ [][Next]_vars /\ []ReadyIsEnabled /\ []Fairness => SaveEnds(v)
<1> DEFINE Given == []Sound /\ [][Next]_vars /\ []ReadyIsEnabled /\ []Fairness
           Inserts == pc[v] = "insert"
           Connects == pc[v] = "connect"
           Pings == pc[v] = "ping"
           Scans == pc[v] = "scan"
           Deletes == pc[v] = "delete"
           Through == todo[v] = {}
           Over == pc[v] \in Ended
           AnyKey == \E k \in Keys : Visiting(v, k)
<1>1. Given => (AnyKey => <>Over \/ <><<Visits(v)>>_vars)
  <2>1. ASSUME NEW k \in Keys PROVE Given => VisitsNow(v, k)
    <3>1. Fairness => FairEntry(k)
      BY DEF Fairness
    <3>2. []Sound /\ [][Next]_vars /\ []ReadyIsEnabled /\ FairEntry(k) => VisitsNow(v, k)
      BY KeyIsVisited
    <3>3. QED
      BY <3>1, <3>2, PTL
  <2> HIDE DEF Given
  <2>2. Given => \A k \in Keys : VisitsNow(v, k)
    BY <2>1
  <2>3. QED
    BY <2>2 DEF VisitsNow
<1>2. Sound /\ [Next]_vars => /\ Inserts => Inserts' \/ <<Save(v)>>_vars \/ Over'
                              /\ Connects => Connects' \/ <<Save(v)>>_vars \/ Over'
                              /\ Pings => Pings' \/ <<Save(v)>>_vars \/ Over'
                              /\ Scans => Scans' \/ <<Save(v)>>_vars \/ Over'
                              /\ Deletes => Deletes' \/ <<Save(v)>>_vars \/ Over'
  BY CallKeeps DEF Ended
<1>3. Sound /\ <<Save(v)>>_vars => /\ Inserts => (Connects \/ Over)'
                                   /\ Connects => (Pings \/ Scans \/ Over)'
                                   /\ Pings => (Scans \/ Over)'
                                   /\ Scans => (Deletes \/ Over)'
                                   /\ Deletes => (Deletes \/ Over)'
  BY SaveMoves DEF Ended
<1>4. Sound /\ [Next]_vars /\ Deletes /\ Through => Through'
  BY TodoShrinks DEF Visits
<1>5. /\ ReadyIsEnabled /\ (Inserts \/ Connects \/ Pings \/ Scans) => ENABLED <<Save(v)>>_vars
      /\ ReadyIsEnabled /\ Deletes /\ Through => ENABLED <<EndScan(v)>>_vars
  BY DEF ReadyIsEnabled, SaveLive
<1>6. Sound /\ <<EndScan(v)>>_vars => Over'
  BY DEF Sound, IInv, TypeOK, EndScan, Goto, Ended
<1>7. Sound /\ Deletes => Through \/ AnyKey
  BY DEF Sound, IInv, TypeOK, Visiting
<1>8. pc[v] \in SaveLive <=> Inserts \/ Connects \/ Pings \/ Scans \/ Deletes
  BY DEF SaveLive
<1>9. Fairness => FairSave(v)
  BY DEF Fairness
<1>10. pc[v] \in Ended <=> Over
  OBVIOUS
<1> HIDE DEF Inserts, Connects, Pings, Scans, Deletes, Through, Over, AnyKey
<1>11. QED
  BY <1>1, <1>2, <1>3, <1>4, <1>5, <1>6, <1>7, <1>8, <1>9, <1>10, PTL DEF FairSave, SaveEnds

\* A save returns: it commits or raises, and its scan visits one key after the other
\* until none of those it found is left, however many entries searches store in the
\* meantime; with finitely many keys it comes to the end (save).
THEOREM SavesEnd == Spec /\ []Fairness /\ []ReadyIsEnabled => \A v \in Saves : SaveEnds(v)
<1> SUFFICES ASSUME NEW v \in Saves
             PROVE  Spec /\ []Fairness /\ []ReadyIsEnabled => SaveEnds(v)
  OBVIOUS
<1>1. []Sound /\ [][Next]_vars /\ []ReadyIsEnabled /\ []Fairness => SaveEnds(v)
  BY FairSaveEnds
<1>2. QED
  BY <1>1, SoundAlways, PTL DEF Spec

\* Nothing is under way that could make an entry of the user stale: no save is about
\* to commit, and what a search is about to store is the table.  Searches may go on.
Quiet(u) ==
    /\ \A v \in Saves : user[v] = u => pc[v] # "insert"
    /\ \A s \in Searches : user[s] = u /\ pc[s] = "store" => view[s] = rows[u]
Fresh(k) == cache[k] \in {NoEntry, rows[k[1]]}

LEMMA FreshStays ==
    ASSUME Sound, NEW k \in Keys, Quiet(k[1]), Fresh(k), [Next]_vars
    PROVE  Fresh(k)'
<1>type. /\ rows \in [Users -> SUBSET Saves] /\ k[1] \in Users
         /\ cache \in [Keys -> {NoEntry} \union SUBSET Saves]
         /\ user \in [Calls -> Users] /\ query \in [Calls -> Queries]
         /\ view \in [Searches -> SUBSET Saves]
  BY DEF Sound, IInv, TypeOK
<1>same. ASSUME rows'[k[1]] = rows[k[1]], cache'[k] = cache[k] \/ cache'[k] \in {NoEntry, rows[k[1]]}
         PROVE  Fresh(k)'
  BY <1>same DEF Fresh
<1>1. ASSUME NEW v \in Saves, Insert(v) PROVE Fresh(k)'
  <2>1. user[v] # k[1]
    BY <1>1 DEF Insert, Quiet
  <2>2. QED
    BY <1>1, <1>type, <1>same, <2>1 DEF Insert
<1>2. ASSUME NEW s \in Searches, Store(s) PROVE Fresh(k)'
  <2>1. KeyOf(s) \in Keys /\ KeyOf(s)[1] = user[s]
    BY <1>type DEF KeyOf, Key
  <2>2. user[s] = k[1] => view[s] = rows[k[1]]
    BY <1>2 DEF Store, Quiet
  <2>3. rows' = rows /\ (cache'[k] = cache[k] \/ (k = KeyOf(s) /\ cache'[k] = view[s]))
    BY <1>2, <1>type, <2>1 DEF Store
  <2>4. QED
    BY <1>same, <2>1, <2>2, <2>3
<1>3. ASSUME NEW j \in Keys, Unset(j), rows' = rows PROVE Fresh(k)'
  BY <1>3, <1>type, <1>same DEF Unset
<1>4. CASE UNCHANGED <<rows, cache>>
  BY <1>4, <1>same
<1>5. \/ UNCHANGED <<rows, cache>>
      \/ \E v \in Saves : Insert(v)
      \/ \E s \in Searches : Store(s)
      \/ \E j \in Keys : Unset(j) /\ rows' = rows
  BY DEF Next, BeginSearch, BeginSave, Begin, Search, Save, Connect, Ping, Lookup, Select, BeginScan,
     DeleteKey, SetKeysOf, EndScan, ScanFails, Expire, Restart, vars
<1>6. QED
  BY <1>1, <1>2, <1>3, <1>4, <1>5

EntryHeals(k) == [](([]Quiet(k[1])) => <>[]Fresh(k))

\* A stale entry lives no longer than its TTL, whatever raced or failed to leave it
\* behind: once no save commits any more and no search is left that read the table
\* before, the entry agrees with the table for good, while searches go on storing.
THEOREM EntriesHeal == Spec /\ []Fairness /\ []ReadyIsEnabled => \A k \in Keys : EntryHeals(k)
<1> SUFFICES ASSUME NEW k \in Keys
             PROVE  Spec /\ []Fairness /\ []ReadyIsEnabled => EntryHeals(k)
  OBVIOUS
<1> DEFINE Set == ~(cache[k] = NoEntry)
           Q == Quiet(k[1])
<1>1. Sound /\ Q /\ Fresh(k) /\ [Next]_vars => Fresh(k)'
  BY FreshStays
<1>2. ReadyIsEnabled /\ Set => ENABLED <<Expire(k)>>_vars
  BY DEF ReadyIsEnabled
<1>3. Sound /\ <<Expire(k)>>_vars => Fresh(k)'
  BY DEF Sound, IInv, TypeOK, Expire, Unset, Fresh
<1>4. ~Set => Fresh(k)
  BY DEF Fresh
<1>5. Fairness => FairEntry(k)
  BY DEF Fairness
<1>6. Quiet(k[1]) <=> Q
  OBVIOUS
<1> HIDE DEF Set, Q
<1>7. QED
  BY <1>1, <1>2, <1>3, <1>4, <1>5, <1>6, SoundAlways, PTL DEF FairEntry, EntryHeals, Spec

=============================================================================

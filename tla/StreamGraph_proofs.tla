------------------------- MODULE StreamGraph_proofs -------------------------
(***************************************************************************)
(* Lemmas about the token generator of StreamGraph, for the proofs of the  *)
(* transports that drive it: any step of a generator, its owner's or its   *)
(* own, keeps the types, the order of the two saves and what was saved.    *)
(***************************************************************************)
EXTENDS StreamGraph, TLAPS

USE DEF Roles, Raised, Saving, Running, Phases

\* A generator, or what it left behind, goes on or is left.
Continue(r) ==
    \/ Resume(r) \/ Drop(r) \/ Cancel(r)
    \/ Generate(r)
    \/ \E role \in Roles : DetachedSave(r, role)

StreamStep(r) == Start(r) \/ Continue(r)

\* The types are kept.
LEMMA StreamTypeStep ==
    ASSUME StreamTypeOK, NEW r \in Requests, StreamStep(r)
    PROVE  StreamTypeOK'
<1> USE MaxTokensAssumption DEF StreamTypeOK
<1>1. CASE Start(r)
  BY <1>1 DEF Start
<1>2. CASE Resume(r) \/ Drop(r)
  BY <1>2 DEF Resume, Drop
<1>3. CASE Cancel(r)
  BY <1>3 DEF Cancel, RoleOf
<1>4. CASE SearchDone(r) \/ StreamEnd(r) \/ GraphRaises(r)
  BY <1>4 DEF SearchDone, StreamEnd, GraphRaises
<1>5. CASE Token(r)
  BY <1>5 DEF Token
<1>6. CASE SaveTurn(r)
  BY <1>6 DEF SaveTurn, RoleOf
<1>7. CASE SaveFails(r)
  BY <1>7 DEF SaveFails
<1>8. CASE \E role \in Roles : DetachedSave(r, role)
  <2>1. PICK role \in Roles : DetachedSave(r, role)
    BY <1>8
  <2>2. /\ gen' = gen
        /\ tokens' = tokens
        /\ unsaved' = unsaved
    BY <2>1 DEF DetachedSave
  <2>3. detached' \in [Requests -> [Roles -> Nat]]
    <3>1. detached[r][role] - 1 \in Nat
      BY <2>1 DEF DetachedSave
    <3>2. \A q \in Requests : detached'[q] \in [Roles -> Nat]
      BY <2>1, <3>1 DEF DetachedSave
    <3>3. DOMAIN detached' = Requests /\ detached' = [q \in Requests |-> detached'[q]]
      BY <2>1 DEF DetachedSave
    <3>4. QED
      BY <3>2, <3>3
  <2>4. turns' \in [Requests -> [Roles -> Nat]]
    BY <2>1, SMTT(30) DEF DetachedSave
  <2>5. QED
    BY <2>2, <2>3, <2>4
<1>9. QED
  BY <1>1, <1>2, <1>3, <1>4, <1>5, <1>6, <1>7, <1>8 DEF StreamStep, Continue, Generate

\* A generator that saves its ai turn counts as an ai turn to come.
AiToCome(r) == IF gen[r] = "saveAi" THEN 1 ELSE 0
AiCovered == \A r \in Requests : turns[r]["ai"] + detached[r]["ai"] + AiToCome(r) <= turns[r]["human"]

\* The ai turns there are and will be stay covered by human turns.
LEMMA AiCoveredStep ==
    ASSUME StreamTypeOK, AiCovered, NEW r \in Requests, StreamStep(r)
    PROVE  AiCovered'
<1> USE DEF StreamTypeOK, AiCovered, AiToCome
<1>1. CASE Start(r) \/ Resume(r) \/ Drop(r)
  BY <1>1 DEF Start, Resume, Drop
<1>2. CASE Cancel(r)
  BY <1>2 DEF Cancel, RoleOf
<1>3. CASE SearchDone(r) \/ Token(r) \/ StreamEnd(r) \/ GraphRaises(r) \/ SaveFails(r)
  BY <1>3 DEF SearchDone, Token, StreamEnd, GraphRaises, SaveFails
<1>4. CASE SaveTurn(r)
  BY <1>4 DEF SaveTurn, RoleOf
<1>5. ASSUME NEW role \in Roles, DetachedSave(r, role)
      PROVE  AiCovered'
  <2>1. /\ gen' = gen
        /\ \A q \in Requests \ {r} : detached'[q] = detached[q] /\ turns'[q] = turns[q]
        /\ detached'[r][role] = detached[r][role] - 1
        /\ turns'[r][role] = turns[r][role] + 1 \/ turns'[r][role] = turns[r][role]
        /\ \A other \in Roles \ {role} :
              detached'[r][other] = detached[r][other] /\ turns'[r][other] = turns[r][other]
    BY <1>5 DEF DetachedSave
  <2>2. CASE role = "ai"
    BY <2>1, <2>2
  <2>3. CASE role = "human"
    BY <2>1, <2>3
  <2>4. QED
    BY <2>2, <2>3
<1>6. QED
  BY <1>1, <1>2, <1>3, <1>4, <1>5 DEF StreamStep, Continue, Generate

\* A generator that ends without a failed save has committed both turns.
BothSaved(r) == turns[r]["human"] > 0 /\ turns[r]["ai"] > 0
SavedInOrder ==
    \A r \in Requests :
        /\ gen[r] = "saveAi" => turns[r]["human"] > 0
        /\ gen[r] = "stopped" /\ ~unsaved[r] => BothSaved(r)

\* No turn is ever lost.
LEMMA SavedInOrderStep ==
    ASSUME StreamTypeOK, SavedInOrder, NEW r \in Requests, StreamStep(r)
    PROVE  /\ SavedInOrder'
           /\ \A q \in Requests : BothSaved(q) => BothSaved(q)'
<1> DEFINE Goal == /\ SavedInOrder'
                   /\ \A q \in Requests : BothSaved(q) => BothSaved(q)'
<1> USE DEF StreamTypeOK, SavedInOrder, BothSaved
<1>1. CASE Start(r)
  <2>1. UNCHANGED turns /\ gen'[r] = "search"
    BY <1>1 DEF Start
  <2>2. \A q \in Requests \ {r} : gen'[q] = gen[q] /\ unsaved'[q] = unsaved[q]
    BY <1>1 DEF Start
  <2>3. QED
    BY <1>1, <2>1, <2>2
<1>2. CASE Resume(r) \/ Drop(r)
  BY <1>2 DEF Resume, Drop
<1>3. CASE Cancel(r)
  BY <1>3 DEF Cancel, RoleOf
<1>4. CASE SearchDone(r) \/ Token(r) \/ StreamEnd(r) \/ GraphRaises(r) \/ SaveFails(r)
  BY <1>4 DEF SearchDone, Token, StreamEnd, GraphRaises, SaveFails
<1>5. CASE SaveTurn(r)
  BY <1>5 DEF SaveTurn, RoleOf
<1>6. ASSUME NEW role \in Roles, DetachedSave(r, role)
      PROVE  Goal
  <2>1. UNCHANGED <<gen, unsaved>>
    BY <1>6 DEF DetachedSave
  <2>2. ASSUME NEW q \in Requests, NEW any \in Roles, turns[q][any] > 0
        PROVE  turns'[q][any] > 0
    <3>1. CASE turns' = [turns EXCEPT ![r][role] = @ + 1]
      BY <2>2, <3>1
    <3>2. CASE turns' = turns
      BY <2>2, <3>2
    <3>3. QED
      BY <1>6, <3>1, <3>2 DEF DetachedSave
  <2>3. \A q \in Requests : BothSaved(q) => BothSaved(q)'
    BY <2>2
  <2>4. SavedInOrder'
    BY <2>1, <2>2, <2>3
  <2>5. QED
    BY <2>3, <2>4
<1>7. QED
  BY <1>1, <1>2, <1>3, <1>4, <1>5, <1>6 DEF StreamStep, Continue, Generate

\* A generator forgets a failed save only when another one replaces it.
LEMMA FailureIsKept ==
    ASSUME StreamTypeOK, NEW r \in Requests, Continue(r)
    PROVE  \A q \in Requests : unsaved[q] => unsaved'[q]
BY DEF StreamTypeOK, Continue, Resume, Drop, Cancel, Generate, SearchDone, Token, StreamEnd,
   GraphRaises, SaveTurn, SaveFails, DetachedSave

=============================================================================

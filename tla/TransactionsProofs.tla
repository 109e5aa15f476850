------------------------- MODULE TransactionsProofs -------------------------
(***************************************************************************)
(* Proofs about Transactions, for any submissions, accounts, thresholds    *)
(* and PATCHes.                                                            *)
(***************************************************************************)
EXTENDS Transactions, FiniteSetTheorems, TLAPS

-----------------------------------------------------------------------------
\* Transactions: every variable has its type in every reachable state.
THEOREM TypeCorrect == Spec => []TypeOK
<1> USE ConstantsAssumption DEF Op, TypeOK, memory, ghosts, Goto, Failure
<1>1. Init => TypeOK
  BY DEF Init, InitWithout, NoEntity
<1>2. TypeOK /\ [Next]_vars => TypeOK'
  <2> SUFFICES ASSUME TypeOK, [Next]_vars PROVE TypeOK'
    OBVIOUS
  <2>1. ASSUME NEW t \in Tx, TxStep(t) PROVE TypeOK'
    <3>1. CASE Store(t) BY <3>1 DEF Store
    <3>2. CASE StoreFails(t) BY <3>2 DEF StoreFails
    <3>3. CASE Discard(t) BY <3>3 DEF Discard
    <3>4. CASE GetRules(t) BY <3>4 DEF GetRules
    <3>5. CASE CountHistory(t) BY <3>5 DEF CountHistory
    <3>6. CASE EvaluationFails(t) BY <3>6 DEF EvaluationFails
    <3>7. CASE PublishAndAnswer(t) BY <3>7 DEF PublishAndAnswer
    <3>8. QED
      BY <2>1, <3>1, <3>2, <3>3, <3>4, <3>5, <3>6, <3>7 DEF TxStep
  <2>2. ASSUME NEW t \in Tx, Flush(t) PROVE TypeOK'
    BY <2>2 DEF Flush
  <2>3. ASSUME NEW t \in Tx, LoseEvent(t) PROVE TypeOK'
    BY <2>3 DEF LoseEvent
  <2>4. ASSUME NEW t \in Tx, Die(t) PROVE TypeOK'
    BY <2>4 DEF Die
  <2>5. ASSUME NEW p \in Patch, PatchFind(p) PROVE TypeOK'
    BY <2>5 DEF PatchFind
  <2>6. ASSUME NEW p \in Patch, PatchStep(p) PROVE TypeOK'
    <3> USE DEF Release, NoEntity
    <3>1. CASE PatchReload(p) BY <3>1 DEF PatchReload
    <3>2. CASE PatchUpdate(p) BY <3>2 DEF PatchUpdate
    <3>3. CASE PatchFails(p) BY <3>3 DEF PatchFails
    <3>4. QED
      BY <2>6, <3>1, <3>2, <3>3 DEF PatchStep
  <2>7. CASE UNCHANGED vars
    BY <2>7 DEF vars
  <2>8. QED
    BY <2>1, <2>2, <2>3, <2>4, <2>5, <2>6, <2>7 DEF Next
<1>3. QED
  BY <1>1, <1>2, PTL DEF Spec

-----------------------------------------------------------------------------
\* LastSeesAll needs that last is what it says, that a transaction that is
\* stored has left its initial state, that the flags agree with everVoided; the
\* counts need that the table, and with it every history, is finite.
LastIsStored ==
    \A c \in Account : IF last[c] = NoTx THEN RecentRows(c) = {}
                      ELSE last[c] \in RecentRows(c)

Inv ==
    /\ TypeOK
    /\ LastSeesAll
    /\ LastIsStored
    /\ \A t \in stored : pc[t] # "idle"
    /\ \A t \in Tx : "voided" \in flags[t] => t \in everVoided
    /\ IsFiniteSet(stored)
    /\ \A t \in Tx : seen[t] \subseteq stored
    /\ FiredIsJustified

\* Nothing of the invariant is lost by a step that leaves the table and the
\* evaluations alone.
LEMMA Quiet ==
    ASSUME Inv, TypeOK',
           UNCHANGED <<stored, seen, fired, last>>,
           everVoided \subseteq everVoided', failed \subseteq failed',
           \A t \in Tx : Evaluated(t)' => Evaluated(t),
           \A t \in Tx : pc'[t] = "idle" => pc[t] = "idle",
           \A t \in Tx : "voided" \in flags'[t] => t \in everVoided'
    PROVE  Inv'
<1> USE DEF Inv, TypeOK
<1>1. \A c : RecentRows(c)' = RecentRows(c)
  BY DEF RecentRows
<1>2. LastSeesAll'
  BY <1>1 DEF LastSeesAll
<1>3. LastIsStored'
  BY <1>1 DEF LastIsStored
<1>4. FiredIsJustified'
  BY <1>1 DEF FiredIsJustified
<1>5. QED
  BY <1>2, <1>3, <1>4

\* A submission that ends without a row was never the last of an account.
LEMMA IdleEnds ==
    ASSUME Inv, TypeOK', NEW t \in Tx, t \notin stored,
           pc' = [pc EXCEPT ![t] = "done"],
           UNCHANGED <<stored, flags, seen, fired, last, everVoided, failed>>
    PROVE  Inv'
<1> USE DEF Inv, TypeOK
<1>1. \A c : RecentRows(c)' = RecentRows(c)
  BY DEF RecentRows
<1>2. \A c \in Account : last[c] # NoTx => last[c] \in Tx \ {t}
  BY DEF LastIsStored, RecentRows
<1>3. \A x \in Tx \ {t} : Evaluated(x)' <=> Evaluated(x)
  BY ConstantsAssumption DEF Evaluated, Op
<1>4. LastSeesAll'
  BY <1>1, <1>2, <1>3 DEF LastSeesAll
<1>5. LastIsStored'
  BY <1>1 DEF LastIsStored
<1>6. FiredIsJustified'
  BY <1>1 DEF FiredIsJustified
<1>7. \A x \in stored' : pc'[x] # "idle"
  BY ConstantsAssumption DEF Op
<1>8. QED
  BY <1>4, <1>5, <1>6, <1>7

\* The rows of an account are finitely many, and a history is a part of them.
\* Counts are numbers, to the operator as well.
LEMMA AtThreshold ==
    ASSUME NEW S, Cardinality(S) \in Nat
    PROVE  Reached(S) <=> Cardinality(S) >= Threshold
<1>1. Threshold \in Int /\ Cardinality(S) \in Int
  BY ConstantsAssumption
<1>2. Threshold # NaN /\ Cardinality(S) # NaN
  BY <1>1, OperatorsAssumption, Zenon
<1>3. QED
  BY <1>1, <1>2 DEF Reached, greaterThanOrEqual, IsNumber, AtMost

LEMMA RowsFinite ==
    ASSUME Inv, NEW c, NEW S \in SUBSET RecentRows(c)
    PROVE  /\ IsFiniteSet(S) /\ Cardinality(S) \in Nat
           /\ Cardinality(S) <= Cardinality(RecentRows(c))
           /\ IsFiniteSet(RecentRows(c)) /\ Cardinality(RecentRows(c)) \in Nat
<1>1. RecentRows(c) \in SUBSET stored /\ IsFiniteSet(stored)
  BY DEF RecentRows, Inv
<1>2. IsFiniteSet(RecentRows(c))
  BY <1>1, FS_Subset
<1>3. QED
  BY <1>2, FS_Subset, FS_CardinalityType

\* A further row never lowers a count.
LEMMA OneMore ==
    ASSUME NEW S, IsFiniteSet(S), NEW x
    PROVE  /\ Cardinality(S \cup {x}) \in Nat
           /\ Cardinality(S \cup {x}) >= Cardinality(S)
<1>1. IsFiniteSet(S \cup {x}) /\ Cardinality(S) \in Nat /\ Cardinality(S \cup {x}) \in Nat
  BY FS_AddElement, FS_CardinalityType
<1>2. Cardinality(S \cup {x}) >= Cardinality(S)
  BY <1>1, FS_Subset
<1>3. QED
  BY <1>1, <1>2

\* create(): the transaction becomes the last of its account, not yet evaluated.
LEMMA StoreKeeps ==
    ASSUME Inv, TypeOK', NEW t \in Tx, Store(t)
    PROVE  Inv'
<1> USE ConstantsAssumption DEF Inv, TypeOK, Op, Goto, Store
<1>1. /\ pc'[t] = "rules" /\ \A x \in Tx \ {t} : pc'[x] = pc[x]
      /\ ~Evaluated(t)' /\ \A x \in Tx \ {t} : Evaluated(x)' <=> Evaluated(x)
  BY DEF Evaluated
<1>2. t \notin stored
  OBVIOUS
<1>3. \A c : RecentRows(c)' = IF c = AccountOf[t] /\ t \in Recent
                            THEN RecentRows(c) \cup {t} ELSE RecentRows(c)
  BY DEF RecentRows
<1>4. \A c \in Account : last'[c] = IF c = AccountOf[t] /\ t \in Recent THEN t ELSE last[c]
  OBVIOUS
<1>5. LastIsStored'
  BY <1>3, <1>4 DEF LastIsStored
<1>6. \A c \in Account : last[c] = t => FALSE
  BY <1>2 DEF LastIsStored, RecentRows
<1>7. everVoided \subseteq everVoided' /\ UNCHANGED <<seen, fired>>
  OBVIOUS
<1>8. LastSeesAll'
  <2> SUFFICES ASSUME NEW c \in Account, last'[c] # NoTx, Evaluated(last[c])'
               PROVE  /\ RecentRows(c)' \ everVoided' \subseteq seen[last'[c]]
                      /\ Cardinality(seen[last'[c]]) >= Threshold => last'[c] \in fired
    BY <1>7 DEF LastSeesAll
  <2>1. last'[c] # t
    BY <1>1
  <2>2. last'[c] = last[c] /\ RecentRows(c)' = RecentRows(c)
    BY <2>1, <1>3, <1>4
  <2>3. Evaluated(last[c])
    BY <2>1, <2>2, <1>1
  <2>4. QED
    BY <2>2, <2>3, <1>7 DEF LastSeesAll
<1>9. IsFiniteSet(stored')
  BY FS_AddElement
<1>10. FiredIsJustified'
  <2> SUFFICES ASSUME NEW x \in fired
               PROVE  Cardinality(RecentRows(AccountOf[x])') >= Threshold
    BY <1>7 DEF FiredIsJustified
  <2>1. Cardinality(RecentRows(AccountOf[x])) >= Threshold
    BY DEF FiredIsJustified
  <2>2. IsFiniteSet(RecentRows(AccountOf[x])) /\ Cardinality(RecentRows(AccountOf[x])) \in Nat
    BY RowsFinite
  <2>3. CASE RecentRows(AccountOf[x])' = RecentRows(AccountOf[x])
    BY <2>1, <2>3
  <2>4. CASE RecentRows(AccountOf[x])' = RecentRows(AccountOf[x]) \cup {t}
    <3>1. /\ Cardinality(RecentRows(AccountOf[x]) \cup {t}) \in Nat
          /\ Cardinality(RecentRows(AccountOf[x]) \cup {t}) >= Cardinality(RecentRows(AccountOf[x]))
      BY <2>2, OneMore
    <3>2. QED
      BY <2>1, <2>2, <2>4, <3>1
  <2>5. QED
    BY <1>3, <2>3, <2>4
<1>11. \A x \in stored' : pc'[x] # "idle"
  BY <1>1
<1>12. \A x \in Tx : "voided" \in flags'[x] => x \in everVoided'
  OBVIOUS
<1>13. \A x \in Tx : seen'[x] \subseteq stored'
  BY <1>7
<1>14. QED
  BY <1>5, <1>8, <1>9, <1>10, <1>11, <1>12, <1>13

\* The history query of t sees every recent row of its account that is not
\* voided at that moment, t's own row included.
LEMMA CountKeeps ==
    ASSUME Inv, TypeOK', NEW t \in Tx, CountHistory(t)
    PROVE  Inv'
<1> USE ConstantsAssumption DEF Inv, TypeOK, Op, Goto, CountHistory
<1> DEFINE rows == {x \in stored : /\ AccountOf[x] = AccountOf[t]
                                  /\ x \in Recent /\ "voided" \notin flags[x]}
<1>1. /\ seen'[t] = rows /\ \A x \in Tx \ {t} : seen'[x] = seen[x]
      /\ \A x \in Tx \ {t} : pc'[x] = pc[x]
      /\ pc'[t] = "publish"
      /\ UNCHANGED <<stored, flags, last, failed, everVoided>>
  BY DEF ghosts
<1>2. \A c : RecentRows(c)' = RecentRows(c)
  BY <1>1 DEF RecentRows
<1>3. rows \in SUBSET RecentRows(AccountOf[t])
  BY DEF RecentRows
<1>4. fired' = IF Cardinality(rows) >= Threshold THEN fired \cup {t} ELSE fired
  <2>1. Cardinality(rows) \in Nat
    BY <1>3, RowsFinite
  <2>2. Reached(rows) <=> Cardinality(rows) >= Threshold
    BY <2>1, AtThreshold
  <2>3. fired' = IF Reached(rows) THEN fired \cup {t} ELSE fired
    OBVIOUS
  <2>4. QED
    BY <2>2, <2>3
<1>5. LastSeesAll'
  <2> SUFFICES ASSUME NEW c \in Account, last[c] # NoTx, Evaluated(last[c])'
               PROVE  /\ RecentRows(c) \ everVoided \subseteq seen'[last[c]]
                      /\ Cardinality(seen'[last[c]]) >= Threshold => last[c] \in fired'
    BY <1>1, <1>2 DEF LastSeesAll
  <2>1. CASE last[c] = t
    <3>1. c = AccountOf[t]
      BY <2>1 DEF LastIsStored, RecentRows
    <3>2. RecentRows(c) \ everVoided \subseteq rows
      BY <3>1 DEF RecentRows
    <3>3. QED
      BY <1>1, <1>4, <2>1, <3>2
  <2>2. CASE last[c] # t
    <3>1. last[c] \in Tx /\ Evaluated(last[c])
      BY <1>1, <2>2 DEF Evaluated
    <3>2. QED
      BY <1>1, <1>4, <2>2, <3>1 DEF LastSeesAll
  <2>3. QED
    BY <2>1, <2>2
<1>6. LastIsStored'
  BY <1>1, <1>2 DEF LastIsStored
<1>7. FiredIsJustified'
  <2> SUFFICES ASSUME NEW x \in fired'
               PROVE  Cardinality(RecentRows(AccountOf[x])) >= Threshold
    BY <1>2 DEF FiredIsJustified
  <2>1. CASE x \in fired
    BY <2>1 DEF FiredIsJustified
  <2>2. CASE x \notin fired
    <3>1. x = t /\ Cardinality(rows) >= Threshold
      BY <1>4, <2>2
    <3>2. Cardinality(rows) \in Nat /\ Cardinality(RecentRows(AccountOf[t])) \in Nat
          /\ Cardinality(rows) <= Cardinality(RecentRows(AccountOf[t]))
      BY <1>3, RowsFinite
    <3>3. QED
      BY <3>1, <3>2
  <2>3. QED
    BY <2>1, <2>2
<1>8. QED
  BY <1>1, <1>5, <1>6, <1>7

\* The inductive invariant holds in every reachable state.
LEMMA Invariant == Spec => []Inv
<1>1. Init => Inv
  <2> SUFFICES ASSUME Init PROVE Inv
    OBVIOUS
  <2>1. TypeOK
    BY ConstantsAssumption DEF Init, InitWithout, TypeOK, NoEntity, Op
  <2>2. IsFiniteSet(stored)
    BY FS_EmptySet DEF Init, InitWithout
  <2>3. QED
    BY <2>1, <2>2
    DEF Init, InitWithout, Inv, LastSeesAll, LastIsStored, FiredIsJustified, RecentRows
<1>2. Inv /\ TypeOK' /\ [Next]_vars => Inv'
  <2> SUFFICES ASSUME Inv, TypeOK', [Next]_vars PROVE Inv'
    OBVIOUS
  <2>0. /\ pc \in [Op -> {"idle", "rules", "history", "publish", "reload", "update", "done"}]
        /\ Tx \subseteq Op /\ Patch \subseteq Op /\ Tx \cap Patch = {}
        /\ flags \in [Tx -> SUBSET Flag]
        /\ \A t \in Tx : "voided" \in flags[t] => t \in everVoided
    BY ConstantsAssumption DEF Inv, TypeOK, Op
  <2> USE <2>0, Quiet DEF memory, ghosts, Goto, Failure, Evaluated
  <2>1. ASSUME NEW t \in Tx, TxStep(t) PROVE Inv'
    <3>1. CASE Store(t) BY <3>1, StoreKeeps
    <3>2. CASE StoreFails(t)
      <4>1. t \notin stored
        BY <3>2 DEF StoreFails, Inv
      <4>2. QED
        BY <3>2, <4>1, IdleEnds DEF StoreFails
    <3>3. CASE Discard(t)
      <4>1. t \notin stored
        BY <3>3 DEF Discard, Inv
      <4>2. QED
        BY <3>3, <4>1, IdleEnds DEF Discard
    <3>4. CASE GetRules(t) BY <3>4 DEF GetRules
    <3>5. CASE CountHistory(t) BY <3>5, CountKeeps
    <3>6. CASE EvaluationFails(t) BY <3>6 DEF EvaluationFails
    <3>7. CASE PublishAndAnswer(t) BY <3>7 DEF PublishAndAnswer
    <3>8. QED
      BY <2>1, <3>1, <3>2, <3>3, <3>4, <3>5, <3>6, <3>7 DEF TxStep
  <2>2. ASSUME NEW t \in Tx, Flush(t) PROVE Inv'
    BY <2>2 DEF Flush
  <2>3. ASSUME NEW t \in Tx, LoseEvent(t) PROVE Inv'
    BY <2>3 DEF LoseEvent
  <2>4. ASSUME NEW t \in Tx, Die(t) PROVE Inv'
    BY <2>4 DEF Die
  <2>5. ASSUME NEW p \in Patch, PatchFind(p) PROVE Inv'
    BY <2>5 DEF PatchFind
  <2>6. ASSUME NEW p \in Patch, PatchStep(p) PROVE Inv'
    <3>1. CASE PatchReload(p) BY <3>1 DEF PatchReload
    <3>2. CASE PatchUpdate(p) BY <3>2 DEF PatchUpdate, Release
    <3>3. CASE PatchFails(p) BY <3>3 DEF PatchFails, Release
    <3>4. QED
      BY <2>6, <3>1, <3>2, <3>3 DEF PatchStep
  <2>7. CASE UNCHANGED vars
    BY <2>7 DEF vars
  <2>8. QED
    BY <2>1, <2>2, <2>3, <2>4, <2>5, <2>6, <2>7 DEF Next
<1>3. QED
  BY <1>1, <1>2, TypeCorrect, PTL DEF Spec

\* TransactionsService: the last transaction an account stored has counted all
\* rows that were never voided.
THEOREM LastTransactionSeesAll == Spec => []LastSeesAll
<1>1. Inv => LastSeesAll
  BY DEF Inv
<1>2. QED
  BY <1>1, Invariant, PTL

\* TransactionsService with a velocity rule: a burst that reaches the threshold
\* fires the rule at least once, however its requests are interleaved.
THEOREM BurstDetected == Spec => []BurstIsDetected
<1>1. Inv => BurstIsDetected
  <2> SUFFICES ASSUME Inv, NEW c \in Account,
                      Cardinality(RecentRows(c)) >= Threshold,
                      RecentRows(c) \cap everVoided = {},
                      \A t \in RecentRows(c) : Evaluated(t)
               PROVE  RecentRows(c) \cap fired # {}
    BY DEF BurstIsDetected
  <2>1. RecentRows(c) # {}
    BY FS_EmptySet, ConstantsAssumption
  <2>2. last[c] # NoTx /\ last[c] \in RecentRows(c)
    BY <2>1 DEF Inv, LastIsStored
  <2>3. /\ RecentRows(c) \in SUBSET seen[last[c]]
        /\ Cardinality(seen[last[c]]) >= Threshold => last[c] \in fired
    BY <2>2 DEF Inv, LastSeesAll
  <2>4. IsFiniteSet(seen[last[c]])
    <3>1. last[c] \in Tx
      BY <2>2 DEF Inv, TypeOK, RecentRows
    <3>2. seen[last[c]] \in SUBSET stored /\ IsFiniteSet(stored)
      BY <3>1 DEF Inv
    <3>3. QED
      BY <3>2, FS_Subset
  <2>5. /\ Cardinality(RecentRows(c)) <= Cardinality(seen[last[c]])
        /\ Cardinality(RecentRows(c)) \in Nat /\ Cardinality(seen[last[c]]) \in Nat
    BY <2>3, <2>4, FS_Subset, FS_CardinalityType
  <2>6. QED
    BY <2>2, <2>3, <2>5, ConstantsAssumption
<1>2. QED
  BY <1>1, Invariant, PTL

\* TransactionHistoryFact: the velocity rule fires on no account below its
\* threshold.
THEOREM FiredJustified == Spec => []FiredIsJustified
<1>1. Inv => FiredIsJustified
  BY DEF Inv
<1>2. QED
  BY <1>1, Invariant, PTL

-----------------------------------------------------------------------------
\* FlagsChangeAsAsked needs that a transaction no two PATCHes overlapped on is held by
\* at most one, and that this one differs from the row in flags its body names only.
Held(p) == pc[p] \in {"reload", "update"}
Differs(p, f) == (f \in copy[p].flags) # (f \in flags[copy[p].tx])

OneHolder ==
    \A p, q \in Patch : p # q /\ Held(p) /\ Held(q) /\ copy[p].tx = copy[q].tx =>
        copy[p].tx \in overlapped
HeldIsStored == \A p \in Patch : Held(p) => copy[p].tx \in stored
DiffersAsNamed ==
    \A p \in Patch : Held(p) /\ copy[p].tx \notin overlapped =>
        \A f \in Flag : Differs(p, f) => f \in copy[p].named

PatchInv == OneHolder /\ HeldIsStored /\ DiffersAsNamed

\* A step that moves no PATCH and leaves the flags of stored rows alone.
LEMMA PatchesApart ==
    ASSUME TypeOK, PatchInv, UNCHANGED <<copy, overlapped>>, stored \subseteq stored',
           \A p \in Patch : Held(p)' => Held(p),
           \A t \in stored : flags'[t] = flags[t]
    PROVE  PatchInv'
BY DEF PatchInv, OneHolder, HeldIsStored, DiffersAsNamed, Differs

\* The step of a submission leaves PATCHes alone, and the rows that are stored.
LEMMA SubmissionsApart ==
    ASSUME Inv, NEW t \in Tx, TxStep(t) \/ Flush(t) \/ LoseEvent(t) \/ Die(t)
    PROVE  /\ UNCHANGED <<copy, overlapped>> /\ stored \subseteq stored'
           /\ \A p \in Patch : pc'[p] = pc[p]
           /\ \A x \in stored : flags'[x] = flags[x]
<1> USE DEF memory, ghosts
<1>1. \A p \in Patch : p \in Op /\ p # t
  BY ConstantsAssumption DEF Op
<1>2. /\ UNCHANGED <<copy, overlapped>> /\ stored \subseteq stored'
      /\ UNCHANGED pc \/ \E l \in {"rules", "history", "publish", "done"} : Goto(t, l)
  BY DEF TxStep, Store, StoreFails, Discard, GetRules, CountHistory, EvaluationFails,
         PublishAndAnswer, Flush, LoseEvent, Die
<1>3. \A p \in Patch : pc'[p] = pc[p]
  BY <1>1, <1>2 DEF Goto, Inv, TypeOK
<1>4. \A x \in stored : flags'[x] = flags[x]
  <2>1. CASE Store(t)
    BY <2>1 DEF Store, Inv, TypeOK
  <2>2. CASE ~Store(t)
    BY <2>2 DEF TxStep, StoreFails, Discard, GetRules, CountHistory, EvaluationFails,
                PublishAndAnswer, Flush, LoseEvent, Die
  <2>3. QED
    BY <2>1, <2>2
<1>5. QED
  BY <1>2, <1>3, <1>4

\* A PATCH that has ended holds nothing.
LEMMA Released ==
    ASSUME TypeOK, NEW p \in Patch, Release(p)
    PROVE  /\ ~Held(p)' /\ pc'[p] = "done"
           /\ \A q \in Patch \ {p} : pc'[q] = pc[q] /\ copy'[q] = copy[q]
BY DEF Release, Goto, TypeOK, Held, Op

LEMMA PatchInvariant == Spec => [](Inv /\ PatchInv)
<1>1. Init => PatchInv
  BY DEF Init, InitWithout, Op, PatchInv, OneHolder, HeldIsStored, DiffersAsNamed, Held
<1>2. Inv /\ PatchInv /\ [Next]_vars => PatchInv'
  <2> SUFFICES ASSUME Inv, PatchInv, [Next]_vars PROVE PatchInv'
    OBVIOUS
  <2> USE DEF memory, ghosts, Inv
  <2>1. ASSUME NEW t \in Tx, TxStep(t) \/ Flush(t) \/ LoseEvent(t) \/ Die(t) PROVE PatchInv'
    BY <2>1, SubmissionsApart, PatchesApart DEF Held
  <2>2. ASSUME NEW p \in Patch, PatchFind(p) PROVE PatchInv'
    <3>1. PICK t \in stored, on \in SUBSET Flag, off \in SUBSET Flag :
            /\ copy' = [copy EXCEPT ![p] = [tx |-> t, named |-> on \cup off,
                                            flags |-> (flags[t] \cup on) \ off]]
            /\ overlapped' = IF OpenOn(t) = {} THEN overlapped ELSE overlapped \cup {t}
      BY <2>2 DEF PatchFind
    <3>2. /\ \A q \in Patch \ {p} : pc'[q] = pc[q] /\ copy'[q] = copy[q]
          /\ UNCHANGED <<stored, flags>>
      BY <2>2, <3>1 DEF PatchFind, Goto, TypeOK, Op
    <3>3. copy'[p] = [tx |-> t, named |-> on \cup off, flags |-> (flags[t] \cup on) \ off]
      BY <3>1 DEF TypeOK
    <3>4. \A q \in Patch \ {p} : Held(q) /\ copy[q].tx = t => t \in overlapped'
      BY <3>1 DEF OpenOn, Held
    <3>5. overlapped \subseteq overlapped'
      BY <3>1
    <3>6. OneHolder' /\ HeldIsStored'
      BY <3>2, <3>3, <3>4, <3>5 DEF PatchInv, OneHolder, HeldIsStored, Held
    <3>7. DiffersAsNamed'
      BY <3>2, <3>3, <3>5 DEF PatchInv, DiffersAsNamed, Differs, Held
    <3>8. QED
      BY <3>6, <3>7 DEF PatchInv
  <2>3. ASSUME NEW p \in Patch, PatchReload(p) PROVE PatchInv'
    <3>1. \A q \in Patch : Held(q)' => Held(q)
      BY <2>3 DEF PatchReload, Goto, TypeOK, Held, Op
    <3>2. QED
      BY <2>3, <3>1, PatchesApart DEF PatchReload
  <2>4. ASSUME NEW p \in Patch, PatchUpdate(p) PROVE PatchInv'
    <3>1. /\ ~Held(p)' /\ \A q \in Patch \ {p} : pc'[q] = pc[q] /\ copy'[q] = copy[q]
          /\ UNCHANGED <<stored, overlapped>> /\ Held(p)
      BY <2>4, Released DEF PatchUpdate, Held
    <3>2. \A x \in Tx : x # copy[p].tx => flags'[x] = flags[x]
      BY <2>4 DEF PatchUpdate, TypeOK
    <3>3. \A q \in Patch \ {p} : Held(q) /\ copy[q].tx = copy[p].tx => copy[q].tx \in overlapped
      BY <3>1 DEF PatchInv, OneHolder
    <3>4. OneHolder' /\ HeldIsStored'
      BY <3>1 DEF PatchInv, OneHolder, HeldIsStored, Held
    <3>5. \A q \in Patch \ {p} : Held(q) => copy[q].tx \in Tx
      BY DEF Held, TypeOK
    <3>6. DiffersAsNamed'
      BY <3>1, <3>2, <3>3, <3>5 DEF PatchInv, DiffersAsNamed, Differs, Held
    <3>7. QED
      BY <3>4, <3>6 DEF PatchInv
  <2>5. ASSUME NEW p \in Patch, PatchFails(p) PROVE PatchInv'
    <3>1. /\ ~Held(p)' /\ \A q \in Patch \ {p} : pc'[q] = pc[q] /\ copy'[q] = copy[q]
          /\ UNCHANGED <<stored, flags, overlapped>>
      BY <2>5, Released DEF PatchFails
    <3>2. QED
      BY <3>1 DEF PatchInv, OneHolder, HeldIsStored, DiffersAsNamed, Differs, Held
  <2>6. CASE UNCHANGED vars
    BY <2>6, PatchesApart DEF vars, Held
  <2>7. QED
    BY <2>1, <2>2, <2>3, <2>4, <2>5, <2>6 DEF Next, PatchStep
<1>3. QED
  BY <1>1, <1>2, Invariant, PTL DEF Spec

\* TransactionsService.update: a PATCH or PUT changes a flag only if its body names
\* it, unless PATCHes of the transaction overlapped.
THEOREM FlagsAsAsked == Spec => FlagsChangeAsAsked
<1> DEFINE AsAsked(t, f) ==
              \/ t \in overlapped
              \/ \E p \in Patch : /\ pc[p] = "update" /\ pc'[p] = "done"
                                  /\ copy[p].tx = t /\ f \in copy[p].named
<1>1. Inv /\ PatchInv /\ [Next]_vars =>
        \A t \in stored, f \in Flag : (f \in flags[t]) # (f \in flags'[t]) => AsAsked(t, f)
  <2> SUFFICES ASSUME Inv, PatchInv, [Next]_vars, NEW t \in stored, NEW f \in Flag,
                      (f \in flags[t]) # (f \in flags'[t])
               PROVE  AsAsked(t, f)
    OBVIOUS
  <2>1. ASSUME NEW x \in Tx, TxStep(x) \/ Flush(x) \/ LoseEvent(x) \/ Die(x) PROVE FALSE
    BY <2>1, SubmissionsApart
  <2>2. ASSUME NEW p \in Patch, PatchUpdate(p) PROVE AsAsked(t, f)
    <3>1. /\ t = copy[p].tx
          /\ f \in dirty[p] /\ Differs(p, f)
      BY <2>2 DEF PatchUpdate, Inv, TypeOK, Differs
    <3>2. pc[p] = "update" /\ pc'[p] = "done" /\ Held(p)
      BY <2>2, Released DEF PatchUpdate, Inv, Held
    <3>3. QED
      BY <3>1, <3>2 DEF PatchInv, DiffersAsNamed
  <2>3. ASSUME NEW p \in Patch, PatchFind(p) \/ PatchReload(p) \/ PatchFails(p) PROVE FALSE
    BY <2>3 DEF PatchFind, PatchReload, PatchFails
  <2>4. CASE UNCHANGED vars
    BY <2>4 DEF vars
  <2>5. QED
    BY <2>1, <2>2, <2>3, <2>4 DEF Next, PatchStep
<1>2. Inv /\ PatchInv /\ [Next]_vars =>
        [\A t \in stored, f \in Flag : (f \in flags[t]) # (f \in flags'[t]) => AsAsked(t, f)]_vars
  BY <1>1
<1>3. QED
  BY <1>2, PatchInvariant, PTL DEF Spec, FlagsChangeAsAsked

-----------------------------------------------------------------------------
(* The operators *)

\* Only Booleans are split in two.
LEMMA Negated == \A p, q \in BOOLEAN : (p <=> ~q) => p # q
OBVIOUS

\* On two numbers one side of a comparison holds, on anything else none.
LEMMA Comparisons ==
    ASSUME NEW f \in Value, NEW c \in Value
    PROVE  LET split == IF IsNumber(f) /\ IsNumber(c) /\ f[2] # NaN /\ c[2] # NaN
                        THEN BOOLEAN ELSE {FALSE}
           IN  /\ {lessThan(f, c), greaterThanOrEqual(f, c)} = split
               /\ {greaterThan(f, c), lessThanOrEqual(f, c)} = split
<1> USE DEF lessThan, greaterThanOrEqual, greaterThan, lessThanOrEqual, Below, AtMost
<1>1. ASSUME NEW v \in Value, IsNumber(v), v[2] # NaN PROVE v[2] \in Int
  <2>1. v \in Limit
    <3>1. \A k, n : <<k, n>>[1] = k
      OBVIOUS
    <3>2. /\ "string" # "number" /\ "boolean" # "number" /\ "null" # "number"
          /\ "array" # "number" /\ "object" # "number"
      OBVIOUS
    <3>3. v \in Plain \/ \E k \in {"array", "object"} : \E n : v = <<k, n>>
      <4> DEFINE Arrays == {<<"array", s>> : s \in {{}} \cup {{x, y} : x, y \in Plain}}
                 Objects == {<<"object", [min |-> m, max |-> n]>> : m, n \in Limit}
      <4>1. \A a \in Arrays : \E n : a = <<"array", n>>
        OBVIOUS
      <4>2. \A o \in Objects : \E n : o = <<"object", n>>
        OBVIOUS
      <4>3. v \in Plain \/ v \in Arrays \/ v \in Objects
        BY DEF Value
      <4> HIDE DEF Arrays, Objects
      <4> QED
        BY <4>1, <4>2, <4>3, Zenon
    <3>4. v \in Plain
      BY <1>1, <3>1, <3>2, <3>3, Zenon DEF IsNumber
    <3>5. v \in Limit \/ \E k \in {"string", "boolean", "null"} : \E n : v = <<k, n>>
      BY <3>4, Zenon DEF Plain
    <3> QED
      BY <1>1, <3>1, <3>2, <3>5, Zenon DEF IsNumber
  <2>2. \A n : <<"number", n>>[2] = n
    OBVIOUS
  <2>3. <<"undefined", "">>[1] # "number"
    OBVIOUS
  <2>4. v[2] \in Number
    BY <1>1, <2>1, <2>2, <2>3, Zenon DEF Limit, IsNumber
  <2> QED
    BY <2>4, OperatorsAssumption
<1>2. CASE IsNumber(f) /\ IsNumber(c) /\ f[2] # NaN /\ c[2] # NaN
  <2>1. f[2] \in Int /\ c[2] \in Int
    BY <1>1, <1>2
  <2>2. CASE f[2] < c[2]
    <3>1. lessThan(f, c) /\ ~greaterThanOrEqual(f, c) /\ ~greaterThan(f, c) /\ lessThanOrEqual(f, c)
      BY <1>2, <2>1, <2>2
    <3> QED
      BY <1>2, <3>1
  <2>3. CASE f[2] = c[2]
    <3>1. ~lessThan(f, c) /\ greaterThanOrEqual(f, c) /\ ~greaterThan(f, c) /\ lessThanOrEqual(f, c)
      BY <1>2, <2>1, <2>3
    <3> QED
      BY <1>2, <3>1
  <2>4. CASE c[2] < f[2]
    <3>1. ~lessThan(f, c) /\ greaterThanOrEqual(f, c) /\ greaterThan(f, c) /\ ~lessThanOrEqual(f, c)
      BY <1>2, <2>1, <2>4
    <3> QED
      BY <1>2, <3>1
  <2>5. \A x, y \in Int : x < y \/ x = y \/ y < x
    OBVIOUS
  <2>6. f[2] < c[2] \/ f[2] = c[2] \/ c[2] < f[2]
    BY <2>1, <2>5, Zenon
  <2> QED
    BY <2>2, <2>3, <2>4, <2>6, Zenon
<1>3. CASE ~(IsNumber(f) /\ IsNumber(c) /\ f[2] # NaN /\ c[2] # NaN)
  <2>1. /\ ~lessThan(f, c) /\ ~greaterThanOrEqual(f, c)
        /\ ~greaterThan(f, c) /\ ~lessThanOrEqual(f, c)
    BY <1>3
  <2> QED
    BY <1>3, <2>1
<1> QED
  BY <1>2, <1>3

\* Each operator of EngineService is the complement of the one it is named after, on
\* values of every kind.
LEMMA Negations == NegationsSplit
<1> SUFFICES ASSUME NEW f \in Value, NEW c \in Value
             PROVE  /\ inCountry(f, c) # notInCountry(f, c)
                    /\ isHighRiskCountry(f, c) => inCountry(f, c)
                    /\ f[1] = "boolean" => inList(f, c) # notInList(f, c)
                    /\ containsValue(f, c) # notContainsValue(f, c)
                    /\ amountBetween(f, c) =>
                          greaterThanOrEqual(f, c[2].min) /\ lessThanOrEqual(f, c[2].max)
  BY Comparisons, Zenon DEF NegationsSplit
<1>1. inCountry(f, c) # notInCountry(f, c)
  <2>1. inCountry(f, c) <=> ~notInCountry(f, c)
    BY Zenon DEF inCountry, notInCountry
  <2>2. inCountry(f, c) \in BOOLEAN /\ notInCountry(f, c) \in BOOLEAN
    BY Zenon DEF inCountry, notInCountry
  <2> QED
    BY <2>1, <2>2, Negated
<1>2. isHighRiskCountry(f, c) => inCountry(f, c)
  BY DEF isHighRiskCountry, inCountry
<1>3. inList(f, c) # notInList(f, c)
  BY DEF inList, notInList
<1>4. containsValue(f, c) # notContainsValue(f, c)
  BY DEF containsValue, notContainsValue
<1>5. amountBetween(f, c) =>
          greaterThanOrEqual(f, c[2].min) /\ lessThanOrEqual(f, c[2].max)
  BY DEF amountBetween, greaterThanOrEqual, lessThanOrEqual
<1> QED
  BY <1>1, <1>2, <1>3, <1>4, <1>5

\* The operators of EngineService: of two rules that differ by a "not" exactly one
\* matches, and what is no number is on no side of a threshold.
THEOREM OperatorsSplitAll == Spec => []OperatorsSplit
<1>1. OperatorsSplit
  BY Negations DEF OperatorsSplit
<1> QED
  BY <1>1, PTL
=============================================================================

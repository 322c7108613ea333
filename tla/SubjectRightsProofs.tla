------------------------- MODULE SubjectRightsProofs -------------------------
(***************************************************************************)
(* Proofs about the requests of one subject side by side, for every data   *)
(* map, every set of resolvers, purposes and stamps, and every number of   *)
(* sessions, requests and faults.                                          *)
(***************************************************************************)
EXTENDS SubjectRights, NaturalBounds, SequenceTheorems

-----------------------------------------------------------------------------
(* Steps.                                                                  *)

\* A step of a session.
SessionStep(s) ==
    \/ Ask(s) \/ RecordConsentOrRestriction(s) \/ Rectify(s) \/ Erase(s) \/ CommitRows(s)
    \/ ExportRecords(s) \/ Fail(s)

LEMMA NextIs == Next => (\E s \in Sessions : SessionStep(s)) \/ UNCHANGED vars
BY DEF Next, SessionStep, Rest

\* A request that is served has the form of its kind.
LEMMA Kinds ==
    ASSUME TypeOK, NEW s \in Sessions, request[s] # NoRequest
    PROVE  /\ request[s] \in offered
           /\ request[s].kind = "consent" => request[s] \in Consents
           /\ request[s].kind = "restriction" => request[s] \in Restrictions
           /\ request[s].kind = "rectify" => request[s] \in Rectifications
           /\ request[s].kind = "erase" => request[s] \in Erasures
           /\ request[s].kind = "export" => request[s] \in Exports
<1>1. request[s] \in offered
  BY DEF TypeOK
<1>2. request[s] \in Consents \cup Restrictions \cup Erasures \cup Rectifications \cup Exports
  BY <1>1, OffersAssumption DEF TypeOK
<1>3. /\ \A r \in Consents : r.kind = "consent"
      /\ \A r \in Restrictions : r.kind = "restriction"
      /\ \A r \in Rectifications : r.kind = "rectify"
      /\ \A r \in Erasures : r.kind = "erase"
      /\ \A r \in Exports : r.kind = "export"
  BY DEF Consents, Restrictions, Rectifications, Erasures, Exports
<1> HIDE DEF Consents, Restrictions, Rectifications, Erasures, Exports
<1> QED
  BY <1>1, <1>2, <1>3

-----------------------------------------------------------------------------
(* Types.                                                                  *)

LEMMA TypeInit == Init => TypeOK
<1> SUFFICES ASSUME Init PROVE TypeOK
  OBVIOUS
<1>1. MaxRequests \in Nat /\ MaxFaults \in Nat
  BY RequestsAssumption
<1> QED
  BY <1>1 DEF Init, RequestsInit, LedgersInit, RectificationInit, ExportInit, TypeOK, Places,
              Values, Gone, Surrogate, Cells

\* What every request leaves as it is.
Fixed == UNCHANGED <<offered, strategyOf>>

\* The state of the sessions, which Requests has.
Sessional ==
    /\ request \in [Sessions -> offered \cup {NoRequest}]
    /\ place \in [Sessions -> Places]
    /\ number \in [Sessions -> 0..MaxRequests] /\ asked \in 0..MaxRequests
    /\ committed \in Seq([number : 0..MaxRequests, what : offered])
    /\ faults \in 0..MaxFaults

\* Of the moves of Requests, each keeps the sessions well typed.
LEMMA SessionsTyped ==
    ASSUME TypeOK, UNCHANGED offered, NEW s \in Sessions,
           \/ \E what \in offered : Begin(s, what)
           \/ \E to \in Places : GoTo(s, to)
           \/ Release(s) /\ UNCHANGED <<committed, faults>>
           \/ Commits(s) /\ request[s] # NoRequest
           \/ Returns(s)
           \/ Fails(s)
    PROVE  Sessional'
<1> USE RequestsAssumption DEF TypeOK, Sessional, Places
<1>1. ASSUME NEW what \in offered, Begin(s, what) PROVE Sessional'
  BY <1>1 DEF Begin
<1>2. ASSUME NEW to \in Places, GoTo(s, to) PROVE Sessional'
  BY <1>2 DEF GoTo
<1>3. CASE Release(s) /\ UNCHANGED <<committed, faults>>
  BY <1>3 DEF Release
<1>4. CASE Commits(s) /\ request[s] # NoRequest
  <2> DEFINE Done == [number : 0..MaxRequests, what : offered]
             e == [number |-> number[s], what |-> request[s]]
  <2>1. e \in Done /\ committed \in Seq(Done)
    BY <1>4
  <2> HIDE DEF Done, e
  <2>2. Append(committed, e) \in Seq(Done)
    BY <2>1
  <2>3. committed' \in Seq(Done)
    BY <1>4, <2>2 DEF Commits, e
  <2> QED
    BY <1>4, <2>3 DEF Commits, Release, Done
<1>5. CASE Returns(s)
  BY <1>3, <1>5 DEF Returns
<1>6. CASE Fails(s)
  <2>1. faults' \in 0..MaxFaults
    BY <1>6 DEF Fails
  <2> QED
    BY <1>6, <2>1 DEF Fails, Release
<1> QED
  BY <1>1, <1>2, <1>3, <1>4, <1>5, <1>6

\* The rest of the state.
LEMMA RowsTyped ==
    ASSUME TypeOK, NEW s \in Sessions, Lock(s)
    PROVE  held' \in [Sessions -> SUBSET Tables]
<1>1. Wanted(s) \subseteq stored
  BY DEF Wanted
<1> QED
  BY <1>1 DEF Lock, TypeOK

LEMMA UnlockTyped ==
    ASSUME TypeOK, NEW s \in Sessions, Unlock(s)
    PROVE  /\ strategyOf' = strategyOf /\ held' \in [Sessions -> SUBSET Tables]
           /\ done' \in [Sessions -> SUBSET Cells]
BY DEF Unlock, TypeOK, Cells

\* Values of cells are values that an export may read.
LEMMA ValueTyped ==
    ASSUME NEW cell \in Cells
    PROVE  /\ cells \in [Cells -> 0..Surrogate] => Value(cell) \in Values
           /\ cells' \in [Cells -> 0..Surrogate] => Value(cell)' \in Values
<1>1. 0..Surrogate \subseteq Values /\ Gone \in Values
  BY RequestsAssumption DEF Surrogate, Gone, Values
<1>2. Value(cell) \in {cells[cell], Gone} /\ Value(cell)' \in {cells'[cell], Gone}
  BY DEF Value, Gone
<1> QED
  BY <1>1, <1>2

LEMMA RecordTyped ==
    ASSUME TypeOK, NEW s \in Sessions, RecordConsentOrRestriction(s)
    PROVE  TypeOK'
<1> USE DEF RecordConsentOrRestriction
<1>1. Sessional' /\ UNCHANGED <<rowVars, exportVars, offered>>
  <2>1. CASE Record(s)
    BY <2>1, SessionsTyped DEF Record, Audited, Places
  <2>2. CASE CommitRecord(s)
    BY <2>2, SessionsTyped DEF CommitRecord, Recording
  <2> QED
    BY <2>1, <2>2
<1>2. consents' \subseteq Consents /\ restrictions' \subseteq Restrictions
  <2>1. CASE Record(s)
    BY <2>1 DEF Record, ledgerVars, TypeOK
  <2>2. CASE CommitRecord(s)
    BY <2>2, Kinds DEF CommitRecord, Recording, TypeOK
  <2> QED
    BY <2>1, <2>2
<1> QED
  BY <1>1, <1>2 DEF Sessional, TypeOK, rowVars, exportVars, Cells, Values, Gone, Surrogate

LEMMA RectifyTyped ==
    ASSUME TypeOK, NEW s \in Sessions, Rectify(s)
    PROVE  TypeOK'
<1>1. CASE RejectRectification(s)
  <2>1. Sessional' /\ UNCHANGED rowVars
    BY <1>1, SessionsTyped DEF RejectRectification, Rectify
  <2> QED
    BY <2>1 DEF Rectify, Sessional, TypeOK, rowVars, ledgerVars, exportVars, Cells, Values, Gone, Surrogate
<1>2. CASE RequestRectification(s) \/ CompleteRectification(s)
  <2>1. Sessional' /\ UNCHANGED rowVars
    BY <1>2, SessionsTyped DEF RequestRectification, CompleteRectification, Audited, Places, Rectify
  <2> QED
    BY <2>1 DEF Rectify, Sessional, TypeOK, rowVars, ledgerVars, exportVars, Cells, Values, Gone, Surrogate
<1>3. ASSUME NEW cell \in Cells, RectificationStep(s, cell) PROVE TypeOK'
  <2>1. Sessional'
    BY <1>3, SessionsTyped DEF RectificationStep, Audited, Places, Rectify
  <2>2. held' \in [Sessions -> SUBSET Tables]
    BY <1>3, RowsTyped DEF RectificationStep
  <2>3. done' \in [Sessions -> SUBSET Cells]
    BY <1>3 DEF RectificationStep, TypeOK
  <2>4. UNCHANGED <<strategyOf, stored, cells, owed, ledgerVars, exportVars, offered>>
    BY <1>3 DEF RectificationStep, Rectify
  <2> QED
    BY <2>1, <2>2, <2>3, <2>4
       DEF Sessional, TypeOK, ledgerVars, exportVars, Cells, Values, Gone, Surrogate
<1>4. CASE StepRaised(s)
  <2>1. Sessional'
    BY <1>4, SessionsTyped DEF StepRaised, Rectify
  <2>2. Unlock(s) /\ UNCHANGED <<stored, cells, owed, ledgerVars, exportVars, offered>>
    BY <1>4 DEF StepRaised, RollsBack, Rectify
  <2> QED
    BY <2>1, <2>2, UnlockTyped
       DEF Sessional, TypeOK, ledgerVars, exportVars, Cells, Values, Gone, Surrogate
<1> QED
  BY <1>1, <1>2, <1>3, <1>4 DEF Rectify

LEMMA EraseTyped ==
    ASSUME TypeOK, NEW s \in Sessions, Erase(s)
    PROVE  TypeOK'
<1>1. CASE LockAnchorRow(s)
  <2>1. Sessional' /\ held' \in [Sessions -> SUBSET Tables]
    BY <1>1, SessionsTyped, RowsTyped DEF LockAnchorRow, Quietly, Places, Erase
  <2>2. UNCHANGED <<strategyOf, done, stored, cells, owed, ledgerVars, exportVars, offered>>
    BY <1>1 DEF LockAnchorRow, Erase
  <2> QED
    BY <2>1, <2>2 DEF Sessional, TypeOK, ledgerVars, exportVars, Cells, Values, Gone, Surrogate
<1>2. CASE ErasureStep(s)
  <2>1. Sessional' /\ held' \in [Sessions -> SUBSET Tables]
    BY <1>2, SessionsTyped, RowsTyped DEF ErasureStep, Quietly, Places, Erase
  <2>2. done' \in [Sessions -> SUBSET Cells]
    BY <1>2 DEF ErasureStep, TypeOK
  <2>3. UNCHANGED <<strategyOf, stored, cells, owed, ledgerVars, exportVars, offered>>
    BY <1>2 DEF ErasureStep, Erase
  <2> QED
    BY <2>1, <2>2, <2>3
       DEF Sessional, TypeOK, ledgerVars, exportVars, Cells, Values, Gone, Surrogate
<1>3. CASE ErasureRaised(s)
  <2>1. Sessional'
    BY <1>3, SessionsTyped DEF ErasureRaised, Erase
  <2>2. Unlock(s) /\ UNCHANGED <<stored, cells, owed, ledgerVars, exportVars, offered>>
    BY <1>3 DEF ErasureRaised, RollsBack, Erase
  <2> QED
    BY <2>1, <2>2, UnlockTyped
       DEF Sessional, TypeOK, ledgerVars, exportVars, Cells, Values, Gone, Surrogate
<1> QED
  BY <1>1, <1>2, <1>3 DEF Erase

LEMMA CommitTyped ==
    ASSUME TypeOK, NEW s \in Sessions, CommitRows(s)
    PROVE  TypeOK'
<1>1. /\ Sessional' /\ Unlock(s)
      /\ UNCHANGED <<ledgerVars, records, read, delivered, incomplete, offered>>
  BY SessionsTyped DEF CommitRows, CommitRectification, CommitErasure, Serves
<1>2. stored' \subseteq Tables /\ cells' \in [Cells -> 0..Surrogate]
  <2>1. Surrogate \in 0..Surrogate /\ 0..MaxRequests \subseteq 0..Surrogate
    BY RequestsAssumption DEF Surrogate
  <2>2. CASE CommitRectification(s)
    <3>1. number[s] \in 0..Surrogate
      BY <2>1 DEF TypeOK
    <3> HIDE DEF Surrogate
    <3> QED
      BY <2>2, <3>1 DEF CommitRectification, TypeOK
  <2>3. CASE CommitErasure(s)
    <3> HIDE DEF Surrogate
    <3> QED
      BY <2>1, <2>3 DEF CommitErasure, TypeOK
  <2> QED
    BY <2>2, <2>3 DEF CommitRows
<1>3. seen' \in [Sessions -> SUBSET (Cells \X Values)]
  <2>1. {<<cell, Value(cell)'>> : cell \in Cells} \subseteq Cells \X Values
    BY <1>2, ValueTyped
  <2> QED
    BY <2>1 DEF CommitRows, Watch, TypeOK
<1>4. owed' \subseteq (0..MaxRequests) \X Refs
  <2>1. CASE CommitRectification(s)
    <3>1. request[s].refs \subseteq Refs /\ number[s] \in 0..MaxRequests
      BY <2>1, Kinds DEF CommitRectification, Serves, Rectifications, TypeOK
    <3> QED
      BY <2>1, <3>1 DEF CommitRectification, _outbox_entries, TypeOK
  <2>2. CASE CommitErasure(s)
    BY <2>2 DEF CommitErasure, TypeOK
  <2> QED
    BY <2>1, <2>2 DEF CommitRows
<1> QED
  BY <1>1, <1>2, <1>3, <1>4, UnlockTyped
     DEF Sessional, TypeOK, ledgerVars, Cells, Values, Gone, Surrogate

LEMMA DiscardTyped ==
    ASSUME TypeOK, NEW s \in Sessions, Discard(s)
    PROVE  /\ records' \in [Sessions -> SUBSET (Cells \X Values)]
           /\ read' \in [Sessions -> SUBSET Tables]
           /\ delivered' \in [Sessions -> SUBSET Refs]
           /\ incomplete' \in [Sessions -> SUBSET {kindOf[r] : r \in Refs}]
           /\ seen' \in [Sessions -> SUBSET (Cells \X Values)]
BY DEF Discard, TypeOK

LEMMA ExportTyped ==
    ASSUME TypeOK, NEW s \in Sessions, ExportRecords(s)
    PROVE  TypeOK'
<1>0. UNCHANGED <<ledgerVars, rowVars, offered>>
  BY DEF ExportRecords
<1> USE DEF Sessional, ledgerVars, rowVars, exportVars, Cells, Values, Gone, Surrogate
<1>1. CASE RejectExport(s)
  <2>1. Sessional' /\ UNCHANGED exportVars
    BY <1>0, <1>1, SessionsTyped DEF RejectExport
  <2> QED
    BY <1>0, <2>1 DEF TypeOK
<1>2. CASE RequestExport(s)
  <2>1. Sessional' /\ UNCHANGED <<records, read, delivered, incomplete>>
    BY <1>0, <1>2, SessionsTyped DEF RequestExport, Audited, Places
  <2>2. {<<cell, Value(cell)>> : cell \in Cells} \subseteq Cells \X Values
    BY ValueTyped DEF TypeOK
  <2>3. seen' \in [Sessions -> SUBSET (Cells \X Values)]
    BY <1>2, <2>2 DEF RequestExport, TypeOK
  <2> QED
    BY <1>0, <2>1, <2>3 DEF TypeOK
<1>3. ASSUME NEW t \in Tables, ReadTable(s, t) PROVE TypeOK'
  <2>1. Sessional' /\ UNCHANGED <<delivered, incomplete, seen>>
    BY <1>0, <1>3, SessionsTyped DEF ReadTable, Quietly, Places
  <2>2. {<<cell, Value(cell)>> : cell \in {c \in Cells : c[1] = t /\ t \in stored}} \subseteq Cells \X Values
    BY ValueTyped DEF TypeOK
  <2>3. /\ records' \in [Sessions -> SUBSET (Cells \X Values)]
        /\ read' \in [Sessions -> SUBSET Tables]
    BY <1>3, <2>2 DEF ReadTable, TypeOK
  <2> QED
    BY <1>0, <2>1, <2>3 DEF TypeOK
<1>4. CASE CollectExternal(s)
  <2>1. Sessional' /\ UNCHANGED <<records, read, seen>>
    BY <1>0, <1>4, SessionsTyped DEF CollectExternal, Quietly, Places
  <2>2. request[s].refs \subseteq Refs
    BY <1>4, Kinds DEF CollectExternal, Serves, Exports
  <2>3. /\ delivered' \in [Sessions -> SUBSET Refs]
        /\ incomplete' \in [Sessions -> SUBSET {kindOf[r] : r \in Refs}]
    BY <1>4, <2>2 DEF CollectExternal, Incomplete, TypeOK
  <2> QED
    BY <1>0, <2>1, <2>3 DEF TypeOK
<1>5. CASE CompleteExport(s)
  <2>1. Sessional' /\ UNCHANGED exportVars
    BY <1>0, <1>5, SessionsTyped DEF CompleteExport, Audited, Places
  <2> QED
    BY <1>0, <2>1 DEF TypeOK
<1>6. CASE ReturnBundle(s)
  <2>1. Sessional' /\ Discard(s)
    BY <1>0, <1>6, SessionsTyped DEF ReturnBundle
  <2> QED
    BY <1>0, <2>1, DiscardTyped DEF TypeOK
<1> QED
  BY <1>1, <1>2, <1>3, <1>4, <1>5, <1>6 DEF ExportRecords

LEMMA TypeStep == TypeOK /\ [Next]_vars => TypeOK'
<1> SUFFICES ASSUME TypeOK, [Next]_vars PROVE TypeOK'
  OBVIOUS
<1>1. ASSUME NEW s \in Sessions, Ask(s) PROVE TypeOK'
  <2>1. Sessional' /\ UNCHANGED <<ledgerVars, rowVars, exportVars, offered>>
    BY <1>1, SessionsTyped DEF Ask
  <2> QED
    BY <2>1 DEF Sessional, TypeOK, ledgerVars, rowVars, exportVars, Cells, Values, Gone, Surrogate
<1>2. ASSUME NEW s \in Sessions, Fail(s) PROVE TypeOK'
  <2>1. Sessional'
    BY <1>2, SessionsTyped DEF Fail
  <2>2. Unlock(s) /\ Discard(s) /\ UNCHANGED <<stored, cells, owed, ledgerVars, offered>>
    BY <1>2 DEF Fail, RollsBack
  <2> QED
    BY <2>1, <2>2, UnlockTyped, DiscardTyped
       DEF Sessional, TypeOK, ledgerVars, Cells, Values, Gone, Surrogate
<1>3. CASE UNCHANGED vars
  BY <1>3 DEF vars, requestVars, ledgerVars, rowVars, exportVars, TypeOK, Cells, Values, Gone, Surrogate
<1> QED
  BY <1>1, <1>2, <1>3, NextIs, RecordTyped, RectifyTyped, EraseTyped, CommitTyped, ExportTyped
     DEF SessionStep

\* The state is well typed in every reachable state.
THEOREM TypeCorrect == Spec => []TypeOK
BY TypeInit, TypeStep, PTL DEF Spec

-----------------------------------------------------------------------------
(* The ledgers.                                                            *)

\* Only finitely many records have been committed.
FiniteLedgers == IsFiniteSet(consents) /\ IsFiniteSet(restrictions)

LEMMA FiniteLedgersStep == FiniteLedgers /\ [Next]_vars => FiniteLedgers'
<1> SUFFICES ASSUME FiniteLedgers, [Next]_vars PROVE FiniteLedgers'
  OBVIOUS
<1>1. ASSUME NEW s \in Sessions, CommitRecord(s) PROVE FiniteLedgers'
  BY <1>1, FS_AddElement DEF CommitRecord, FiniteLedgers
<1>2. ASSUME NEW s \in Sessions, SessionStep(s), ~CommitRecord(s) PROVE UNCHANGED ledgerVars
  BY <1>2 DEF SessionStep, Ask, RecordConsentOrRestriction, Record, Rectify, Erase, CommitRows,
              ExportRecords, Fail, ledgerVars
<1>3. CASE UNCHANGED ledgerVars
  BY <1>3 DEF ledgerVars, FiniteLedgers
<1> QED
  BY <1>1, <1>2, <1>3, NextIs DEF vars

\* Of finitely many records, some come last.
LEMMA LastRecords ==
    ASSUME NEW R, IsFiniteSet(R), R # {}, \A r \in R : r.recorded_at \in Nat
    PROVE  \E n \in Nat : /\ \E r \in R : r.recorded_at = n
                          /\ \A r \in R : r.recorded_at <= n
<1> DEFINE S == {r.recorded_at : r \in R}
           f == [r \in R |-> r.recorded_at]
<1>1. IsFiniteSet(S) /\ S # {} /\ S \in SUBSET Nat
  <2>1. f \in Surjection(R, S)
    BY DEF Surjection
  <2> HIDE DEF f
  <2>2. IsFiniteSet(S)
    BY <2>1, FS_Surjection
  <2> QED
    BY <2>2
<1> HIDE DEF S
<1>2. PICK n \in S : \A m \in S : m <= n
  BY <1>1, GreatestNat
<1> QED
  BY <1>1, <1>2 DEF S

\* The first row is one that no other precedes.
LEMMA LatestGranted ==
    ASSUME NEW R \in SUBSET Consents, IsFiniteSet(R), R # {}
    PROVE  LET r == CHOOSE r \in R : \A q \in R : GrantedBefore(r, q)
           IN  r \in R /\ \A q \in R : GrantedBefore(r, q)
<1>1. \A r \in R : r.recorded_at \in Nat /\ r.granted \in BOOLEAN
  BY LedgersAssumption DEF Consents
<1>2. PICK n \in Nat : /\ \E r \in R : r.recorded_at = n
                       /\ \A r \in R : r.recorded_at <= n
  BY <1>1, LastRecords
<1>3. \E r \in R : \A q \in R : GrantedBefore(r, q)
  <2>1. CASE \E r \in R : r.recorded_at = n /\ ~r.granted
    BY <1>1, <1>2, <2>1 DEF GrantedBefore
  <2>2. CASE \A r \in R : r.recorded_at = n => r.granted
    BY <1>1, <1>2, <2>2 DEF GrantedBefore
  <2> QED
    BY <2>1, <2>2
<1> QED
  BY <1>3

LEMMA LatestRestricted ==
    ASSUME NEW R \in SUBSET Restrictions, IsFiniteSet(R), R # {}
    PROVE  LET r == CHOOSE r \in R : \A q \in R : RestrictedBefore(r, q)
           IN  r \in R /\ \A q \in R : RestrictedBefore(r, q)
<1>1. \A r \in R : r.recorded_at \in Nat /\ r.restricted \in BOOLEAN
  BY LedgersAssumption DEF Restrictions
<1>2. PICK n \in Nat : /\ \E r \in R : r.recorded_at = n
                       /\ \A r \in R : r.recorded_at <= n
  BY <1>1, LastRecords
<1>3. \E r \in R : \A q \in R : RestrictedBefore(r, q)
  <2>1. CASE \E r \in R : r.recorded_at = n /\ r.restricted
    BY <1>1, <1>2, <2>1 DEF RestrictedBefore
  <2>2. CASE \A r \in R : r.recorded_at = n => ~r.restricted
    BY <1>1, <1>2, <2>2 DEF RestrictedBefore
  <2> QED
    BY <2>1, <2>2
<1> QED
  BY <1>3

\* What the ledgers derive from records in any order.
LEMMA ConsentIs ==
    ASSUME TypeOK, FiniteLedgers, NEW p, NEW at
    PROVE  status_as_of(p, at) <=>
             \E g \in consents :
                /\ g.purpose = p /\ g.granted /\ g.recorded_at <= at
                /\ \A w \in consents : /\ w.purpose = p /\ ~w.granted /\ w.recorded_at <= at
                                       => w.recorded_at < g.recorded_at
<1> DEFINE R == {r \in consents : r.purpose = p /\ r.recorded_at <= at}
           r == CHOOSE r \in R : \A q \in R : GrantedBefore(r, q)
<1>1. \A q \in consents : q.recorded_at \in Nat /\ q.granted \in BOOLEAN
  BY LedgersAssumption DEF TypeOK, Consents
<1>2. status_as_of(p, at) <=> R # {} /\ r.granted
  BY DEF status_as_of, _latest_granted
<1>3. R # {} => r \in R /\ \A q \in R : GrantedBefore(r, q)
  <2>1. R \in SUBSET Consents /\ R \in SUBSET consents
    BY DEF TypeOK
  <2> HIDE DEF R
  <2>2. IsFiniteSet(R)
    BY <2>1, FS_Subset DEF FiniteLedgers
  <2> QED
    BY <2>1, <2>2, LatestGranted
<1> HIDE DEF r
<1>4. ASSUME R # {}, r.granted
      PROVE  \A w \in R : ~w.granted => w.recorded_at < r.recorded_at
  BY <1>1, <1>3, <1>4 DEF GrantedBefore
<1>5. ASSUME NEW g \in R, g.granted, \A w \in R : ~w.granted => w.recorded_at < g.recorded_at
      PROVE  r.granted
  BY <1>1, <1>3, <1>5 DEF GrantedBefore
<1> QED
  BY <1>2, <1>3, <1>4, <1>5

LEMMA RestrictionIs ==
    ASSUME TypeOK, FiniteLedgers, NEW scope
    PROVE  _latest_scope_restricted(scope) <=>
             \E r \in restrictions :
                /\ r.restricted /\ r.purpose = scope
                /\ \A lift \in restrictions : lift.purpose = r.purpose /\ ~lift.restricted
                                                => lift.recorded_at <= r.recorded_at
<1> DEFINE R == {r \in restrictions : r.purpose = scope}
           r == CHOOSE r \in R : \A q \in R : RestrictedBefore(r, q)
<1>1. \A q \in restrictions : q.recorded_at \in Nat /\ q.restricted \in BOOLEAN
  BY LedgersAssumption DEF TypeOK, Restrictions
<1>2. _latest_scope_restricted(scope) <=> R # {} /\ r.restricted
  BY DEF _latest_scope_restricted
<1>3. R # {} => r \in R /\ \A q \in R : RestrictedBefore(r, q)
  <2>1. R \in SUBSET Restrictions /\ R \in SUBSET restrictions
    BY DEF TypeOK
  <2> HIDE DEF R
  <2>2. IsFiniteSet(R)
    BY <2>1, FS_Subset DEF FiniteLedgers
  <2> QED
    BY <2>1, <2>2, LatestRestricted
<1> HIDE DEF r
<1>4. ASSUME R # {}, r.restricted
      PROVE  \A lift \in R : ~lift.restricted => lift.recorded_at <= r.recorded_at
  BY <1>1, <1>3, <1>4 DEF RestrictedBefore
<1>5. ASSUME NEW g \in R, g.restricted, \A w \in R : ~w.restricted => w.recorded_at <= g.recorded_at
      PROVE  r.restricted
  BY <1>1, <1>3, <1>5 DEF RestrictedBefore
<1> QED
  BY <1>2, <1>3, <1>4, <1>5

\* The ledgers answer for the subject whatever the order in which records were stamped and
\* committed: a tie denies consent, and a tie restricts.
THEOREM LastWordCounts == Spec => []TheLastWordProtects
<1>1. Init => FiniteLedgers
  BY FS_EmptySet DEF Init, LedgersInit, FiniteLedgers
<1>2. TypeOK /\ FiniteLedgers => TheLastWordProtects
  <2> SUFFICES ASSUME TypeOK, FiniteLedgers PROVE TheLastWordProtects
    OBVIOUS
  <2>1. ASSUME NEW scope \in Purposes \cup {All}
        PROVE  restriction_status(scope) <=>
                 \E r \in restrictions :
                    /\ r.restricted /\ r.purpose \in {scope, All}
                    /\ \A lift \in restrictions : lift.purpose = r.purpose /\ ~lift.restricted
                                                    => lift.recorded_at <= r.recorded_at
    BY RestrictionIs DEF restriction_status
  <2> QED
    BY <2>1, ConsentIs DEF TheLastWordProtects
<1> QED
  BY <1>1, <1>2, FiniteLedgersStep, TypeCorrect, PTL DEF Spec

-----------------------------------------------------------------------------
(* Sessions and their events.                                              *)

\* A step of a session is about nobody else's request.
LEMMA OthersKeep ==
    ASSUME TypeOK, NEW s \in Sessions, SessionStep(s), NEW q \in Sessions \ {s}
    PROVE  /\ request'[q] = request[q] /\ place'[q] = place[q] /\ number'[q] = number[q]
           /\ held'[q] = held[q] /\ done'[q] = done[q]
           /\ records'[q] = records[q] /\ read'[q] = read[q]
           /\ delivered'[q] = delivered[q] /\ incomplete'[q] = incomplete[q]
<1> DEFINE Same == /\ request'[q] = request[q] /\ place'[q] = place[q] /\ number'[q] = number[q]
           SameRows == held'[q] = held[q] /\ done'[q] = done[q]
           SameBundle == /\ records'[q] = records[q] /\ read'[q] = read[q]
                         /\ delivered'[q] = delivered[q] /\ incomplete'[q] = incomplete[q]
<1> USE DEF TypeOK
<1>1. ASSUME NEW what \in offered, Begin(s, what) PROVE Same
  BY <1>1 DEF Begin
<1>2. ASSUME NEW to, GoTo(s, to) PROVE Same
  BY <1>2 DEF GoTo
<1>3. ASSUME Release(s) PROVE Same
  BY <1>3 DEF Release
<1>4. ASSUME Lock(s) PROVE held'[q] = held[q]
  BY <1>4 DEF Lock
<1>5. ASSUME Unlock(s) PROVE SameRows
  BY <1>5 DEF Unlock
<1>6. ASSUME Discard(s) PROVE SameBundle
  BY <1>6 DEF Discard
<1> HIDE DEF TypeOK
<1>7. CASE Ask(s)
  BY <1>1, <1>7 DEF Ask, rowVars, exportVars
<1>8. CASE RecordConsentOrRestriction(s)
  <2>1. Same
    BY <1>2, <1>3, <1>8 DEF RecordConsentOrRestriction, Record, CommitRecord, Audited, Commits
  <2> QED
    BY <1>8, <2>1 DEF RecordConsentOrRestriction, rowVars, exportVars
<1>9. CASE Rectify(s)
  <2>1. SameBundle
    BY <1>9 DEF Rectify, exportVars
  <2>2. CASE RejectRectification(s) \/ RequestRectification(s) \/ CompleteRectification(s)
    BY <1>2, <1>3, <2>1, <2>2
       DEF RejectRectification, RequestRectification, CompleteRectification, Returns, Audited, rowVars
  <2>3. ASSUME NEW cell \in Cells, RectificationStep(s, cell) PROVE Same /\ SameRows
    BY <1>2, <1>4, <2>3 DEF RectificationStep, Audited, TypeOK
  <2>4. CASE StepRaised(s)
    BY <1>3, <1>5, <2>1, <2>4 DEF StepRaised, RollsBack
  <2> QED
    BY <1>9, <2>1, <2>2, <2>3, <2>4 DEF Rectify
<1>10. CASE Erase(s)
  <2>1. SameBundle
    BY <1>10 DEF Erase, exportVars
  <2>2. CASE LockAnchorRow(s)
    BY <1>2, <1>4, <2>1, <2>2 DEF LockAnchorRow, Quietly
  <2>3. CASE ErasureStep(s)
    BY <1>2, <1>4, <2>1, <2>3 DEF ErasureStep, Quietly, TypeOK
  <2>4. CASE ErasureRaised(s)
    BY <1>3, <1>5, <2>1, <2>4 DEF ErasureRaised, RollsBack
  <2> QED
    BY <1>10, <2>2, <2>3, <2>4 DEF Erase
<1>11. CASE CommitRows(s)
  BY <1>3, <1>5, <1>11 DEF CommitRows, CommitRectification, CommitErasure, Commits
<1>12. CASE ExportRecords(s)
  <2>1. SameRows
    BY <1>12 DEF ExportRecords, rowVars
  <2>2. CASE RejectExport(s) \/ RequestExport(s) \/ CompleteExport(s)
    BY <1>2, <1>3, <2>1, <2>2
       DEF RejectExport, RequestExport, CompleteExport, Returns, Audited, exportVars
  <2>3. ASSUME NEW t \in Tables, ReadTable(s, t) PROVE Same /\ SameBundle
    BY <1>2, <2>3 DEF ReadTable, Quietly, TypeOK
  <2>4. CASE CollectExternal(s)
    BY <1>2, <2>1, <2>4 DEF CollectExternal, Quietly, TypeOK
  <2>5. CASE ReturnBundle(s)
    BY <1>3, <1>6, <2>1, <2>5 DEF ReturnBundle, Returns
  <2> QED
    BY <1>12, <2>1, <2>2, <2>3, <2>4, <2>5 DEF ExportRecords
<1>13. CASE Fail(s)
  BY <1>3, <1>5, <1>6, <1>13 DEF Fail, Fails, RollsBack
<1> QED
  BY <1>7, <1>8, <1>9, <1>10, <1>11, <1>12, <1>13 DEF SessionStep

\* A session that serves a request is not idle, requests that are under way or committed
\* have numbers of their own, and only numbers that were given are on the trail.
Fresh ==
    /\ \A s \in Sessions : /\ request[s] # NoRequest => place[s] # "idle"
                           /\ number[s] <= asked
    /\ \A s, q \in Sessions : s # q /\ place[s] # "idle" /\ place[q] # "idle" => number[s] # number[q]
    /\ \A i \in DOMAIN committed : /\ committed[i].number <= asked
                                   /\ \A s \in Sessions : place[s] # "idle" => committed[i].number # number[s]
    /\ \A e \in trail : e.request \in 0..asked

Failure == "rectification_step_failed"

\* What a step of a session does to its request.
Starts(s) ==
    /\ place[s] = "idle" /\ place'[s] = "begun"
    /\ asked' = asked + 1 /\ number'[s] = asked + 1
    /\ UNCHANGED <<committed, trail>>

GoesOn(s) ==
    /\ place[s] # "idle" /\ UNCHANGED <<asked, number>>
    /\ request'[s] # NoRequest => place'[s] # "idle"
    /\ trail \subseteq trail'
    /\ \A e \in trail' \ trail : /\ e.request = number[s]
                                 /\ e.type = Failure => place'[s] = "idle"
    /\ \/ UNCHANGED committed
       \/ /\ committed' = Append(committed, [number |-> number[s], what |-> request[s]])
          /\ place'[s] = "idle"

LEMMA Moves ==
    ASSUME TypeOK, Fresh, NEW s \in Sessions, SessionStep(s)
    PROVE  Starts(s) \/ GoesOn(s)
<1>1. ASSUME NEW what \in offered, Begin(s, what) PROVE Starts(s)
  BY <1>1 DEF Begin, Starts, TypeOK
<1>2. ASSUME NEW to \in Places \ {"idle"}, GoTo(s, to), place[s] # "idle",
             \/ UNCHANGED trail
             \/ \E type, target : type # Failure /\ AppendEvent(s, type, target)
      PROVE  GoesOn(s)
  BY <1>2 DEF GoTo, AppendEvent, Event, GoesOn, TypeOK
<1>3. ASSUME Release(s), place[s] # "idle",
             \/ UNCHANGED trail
             \/ \E type, target : AppendEvent(s, type, target),
             \/ UNCHANGED committed
             \/ committed' = Append(committed, [number |-> number[s], what |-> request[s]])
      PROVE  GoesOn(s)
  BY <1>3 DEF Release, AppendEvent, Event, GoesOn, TypeOK
<1>4. request[s] # NoRequest => place[s] # "idle"
  BY DEF Fresh
<1>5. CASE Ask(s)
  BY <1>1, <1>5 DEF Ask
<1>6. CASE RecordConsentOrRestriction(s)
  <2>1. CASE Record(s)
    <3>1. EventOf(request[s]) # Failure
      BY <2>1 DEF Record, Recording, EventOf, Failure
    <3> QED
      BY <1>2, <2>1, <3>1 DEF Record, Audited, Places
  <2>2. CASE CommitRecord(s)
    BY <1>3, <2>2 DEF CommitRecord, Commits
  <2> QED
    BY <1>6, <2>1, <2>2 DEF RecordConsentOrRestriction
<1>7. CASE Rectify(s)
  <2>1. CASE RejectRectification(s)
    BY <1>3, <2>1 DEF RejectRectification, Returns
  <2>2. CASE RequestRectification(s) \/ CompleteRectification(s)
    BY <1>2, <2>2 DEF RequestRectification, CompleteRectification, Audited, Places, Failure
  <2>3. ASSUME NEW cell \in Cells, RectificationStep(s, cell) PROVE GoesOn(s)
    BY <1>2, <2>3 DEF RectificationStep, Audited, Places, Failure
  <2>4. CASE StepRaised(s)
    BY <1>3, <2>4 DEF StepRaised
  <2> QED
    BY <1>7, <2>1, <2>2, <2>3, <2>4 DEF Rectify
<1>8. CASE Erase(s)
  <2>1. CASE LockAnchorRow(s) \/ ErasureStep(s)
    BY <1>2, <2>1 DEF LockAnchorRow, ErasureStep, Quietly, Places
  <2>2. CASE ErasureRaised(s)
    BY <1>3, <1>4, <2>2 DEF ErasureRaised, Serves
  <2> QED
    BY <1>8, <2>1, <2>2 DEF Erase
<1>9. CASE CommitRows(s)
  BY <1>3, <1>9 DEF CommitRows, CommitRectification, CommitErasure, Commits
<1>10. CASE ExportRecords(s)
  <2>1. CASE RejectExport(s) \/ ReturnBundle(s)
    BY <1>3, <2>1 DEF RejectExport, ReturnBundle, Returns
  <2>2. CASE RequestExport(s) \/ CompleteExport(s)
    BY <1>2, <2>2 DEF RequestExport, CompleteExport, Audited, Places, Failure
  <2>3. ASSUME NEW t \in Tables, ReadTable(s, t) PROVE GoesOn(s)
    BY <1>2, <2>3 DEF ReadTable, Quietly, Places
  <2>4. CASE CollectExternal(s)
    BY <1>2, <2>4 DEF CollectExternal, Quietly, Places
  <2> QED
    BY <1>10, <2>1, <2>2, <2>3, <2>4 DEF ExportRecords
<1>11. CASE Fail(s)
  BY <1>3, <1>11 DEF Fail, Fails
<1> QED
  BY <1>5, <1>6, <1>7, <1>8, <1>9, <1>10, <1>11 DEF SessionStep

LEMMA CommittedTyped ==
    ASSUME TypeOK
    PROVE  \A i \in DOMAIN committed : committed[i].number \in Nat /\ committed[i].what \in offered
<1> DEFINE Done == [number : 0..MaxRequests, what : offered]
<1>1. committed \in Seq(Done)
  BY DEF TypeOK
<1> HIDE DEF Done
<1>2. \A i \in DOMAIN committed : committed[i] \in Done
  BY <1>1
<1> QED
  BY <1>2 DEF Done

LEMMA FreshStep == TypeOK /\ Fresh /\ [Next]_vars => Fresh'
<1> SUFFICES ASSUME TypeOK, Fresh, [Next]_vars PROVE Fresh'
  OBVIOUS
<1>0. asked \in Nat /\ \A s \in Sessions : number[s] \in Nat
  BY RequestsAssumption DEF TypeOK
<1>1. ASSUME NEW s \in Sessions, SessionStep(s), Starts(s) PROVE Fresh'
  <2>1. \A q \in Sessions \ {s} : /\ request'[q] = request[q] /\ place'[q] = place[q]
                                  /\ number'[q] = number[q]
    BY <1>1, OthersKeep
  <2>2. \A i \in DOMAIN committed : committed[i].number \in Nat
    BY CommittedTyped
  <2>3. \A e \in trail : e.request \in 0..(asked + 1)
    BY <1>0 DEF Fresh
  <2> QED
    BY <1>0, <1>1, <2>1, <2>2, <2>3 DEF Starts, Fresh
<1>2. ASSUME NEW s \in Sessions, SessionStep(s), GoesOn(s) PROVE Fresh'
  <2>1. \A q \in Sessions \ {s} : /\ request'[q] = request[q] /\ place'[q] = place[q]
    BY <1>2, OthersKeep
  <2>2. \A i \in DOMAIN committed' :
           \/ i \in DOMAIN committed /\ committed'[i] = committed[i]
           \/ committed'[i].number = number[s] /\ place'[s] = "idle"
    <3>1. CASE UNCHANGED committed
      BY <3>1
    <3>2. CASE ~UNCHANGED committed
      <4> DEFINE e == [number |-> number[s], what |-> request[s]]
      <4>1. committed' = Append(committed, e) /\ place'[s] = "idle" /\ e.number = number[s]
        BY <1>2, <3>2 DEF GoesOn
      <4> HIDE DEF e
      <4> QED
        BY <4>1 DEF TypeOK
    <3> QED
      BY <3>1, <3>2
  <2>3. \A e \in trail' : e.request \in 0..asked
    BY <1>0, <1>2 DEF GoesOn, Fresh
  <2> QED
    BY <1>0, <1>2, <2>1, <2>2, <2>3 DEF GoesOn, Fresh
<1>3. CASE UNCHANGED vars
  BY <1>3 DEF vars, requestVars, Fresh
<1> QED
  BY <1>1, <1>2, <1>3, Moves, NextIs

-----------------------------------------------------------------------------
(* Evidence.                                                               *)

Noted(s, type, target) == [request |-> number[s], type |-> type, target |-> target] \in trail

\* What is on the trail of a request under way, and nothing that says it has failed.
OnRecord(s) ==
    /\ Recording(s) /\ place[s] = "recorded"
         => Noted(s, EventOf(request[s]), request[s].purpose)
    /\ place[s] \notin {"stepping", "committing", "erasing"} => done[s] = {}
    /\ Serves(s, "rectify") /\ place[s] # "begun"
         => /\ Noted(s, "rectification_requested", "")
            /\ \A cell \in done[s] : Noted(s, "rectification_step_succeeded", cell)
    /\ Serves(s, "rectify") /\ place[s] = "committing"
         => /\ _local_steps(s) \subseteq done[s]
            /\ Noted(s, "rectification_local_completed", "")
    /\ place[s] # "idle" => ~Noted(s, Failure, "")

AllOnRecord == \A s \in Sessions : OnRecord(s)

\* Requests do not disturb each other's evidence.
LEMMA OthersOnRecord ==
    ASSUME TypeOK, Fresh, NEW s \in Sessions, SessionStep(s), NEW q \in Sessions \ {s}, OnRecord(q),
           strategyOf' = strategyOf
    PROVE  OnRecord(q)'
<1>1. /\ request'[q] = request[q] /\ place'[q] = place[q] /\ number'[q] = number[q]
      /\ done'[q] = done[q]
  BY OthersKeep
<1>2. trail \subseteq trail'
  BY Moves DEF Starts, GoesOn
<1>3. \A type, target : Noted(q, type, target) => Noted(q, type, target)'
  BY <1>1, <1>2 DEF Noted
<1>4. place[q] # "idle" /\ ~Noted(q, Failure, "") => ~Noted(q, Failure, "")'
  <2> SUFFICES ASSUME place[q] # "idle", ~Noted(q, Failure, ""), Noted(q, Failure, "")' PROVE FALSE
    OBVIOUS
  <2> DEFINE e == [request |-> number[q], type |-> Failure, target |-> ""]
  <2>1. e \in trail' \ trail /\ e.request = number[q]
    BY <1>1 DEF Noted
  <2> HIDE DEF e
  <2>2. place[s] # "idle" /\ number[q] = number[s]
    BY <2>1, Moves DEF Starts, GoesOn
  <2> QED
    BY <2>2 DEF Fresh
<1>5. _local_steps(q)' = _local_steps(q)
  BY <1>1 DEF _local_steps, Cells
<1>6. \A kind : Serves(q, kind)' <=> Serves(q, kind)
  BY <1>1 DEF Serves
<1>7. (Recording(q)' <=> Recording(q)) /\ EventOf(request[q])' = EventOf(request[q])
  BY <1>1 DEF Recording, EventOf
<1> QED
  BY <1>1, <1>3, <1>4, <1>5, <1>6, <1>7 DEF OnRecord

\* A request that has ended has nothing left to show.
LEMMA EndedOnRecord ==
    ASSUME NEW s \in Sessions, request'[s] = NoRequest, place'[s] = "idle", done'[s] = {}
    PROVE  OnRecord(s)'
BY DEF OnRecord, Recording, Serves

\* Without an event and without a step, what was on record still is.
LEMMA GoesOnRecord ==
    ASSUME TypeOK, Fresh, NEW s \in Sessions, OnRecord(s), NEW to, GoTo(s, to),
           strategyOf' = strategyOf, place[s] # "idle",
           \/ UNCHANGED trail
           \/ \E type, target : type # Failure /\ AppendEvent(s, type, target)
    PROVE  /\ \A type, target : Noted(s, type, target) => Noted(s, type, target)'
           /\ ~Noted(s, Failure, "")'
           /\ \A kind : Serves(s, kind)' <=> Serves(s, kind)
           /\ Recording(s)' <=> Recording(s)
           /\ _local_steps(s)' = _local_steps(s)
           /\ request'[s] = request[s] /\ place'[s] = to /\ trail \subseteq trail'
<1>1. request' = request /\ number' = number /\ place'[s] = to
  BY DEF GoTo, TypeOK
<1>2. trail \subseteq trail' /\ \A e \in trail' \ trail : e.type # Failure
  BY DEF AppendEvent, Event
<1>3. ~Noted(s, Failure, "")'
  <2> DEFINE e == [request |-> number[s], type |-> Failure, target |-> ""]
  <2>1. e \notin trail /\ e.type = Failure
    BY DEF OnRecord, Noted
  <2> HIDE DEF e
  <2>2. e \notin trail'
    BY <1>2, <2>1
  <2> QED
    BY <1>1, <2>2 DEF Noted, e
<1> QED
  BY <1>1, <1>2, <1>3 DEF Noted, Serves, Recording, _local_steps, Cells

LEMMA OwnRecord ==
    ASSUME TypeOK, TypeOK', Fresh, NEW s \in Sessions, SessionStep(s), OnRecord(s), strategyOf' = strategyOf
    PROVE  OnRecord(s)'
<1>0. request[s] # NoRequest => place[s] # "idle"
  BY DEF Fresh
<1>1. ASSUME NEW what \in offered, Begin(s, what), done' = done PROVE OnRecord(s)'
  <2>1. place'[s] = "begun" /\ done'[s] = {}
    BY <1>1 DEF Begin, OnRecord, TypeOK
  <2>2. ~Noted(s, Failure, "")'
    <3>1. number'[s] = asked + 1 /\ trail' = trail /\ asked \in Nat
      BY <1>1, RequestsAssumption DEF Begin, TypeOK
    <3>2. \A e \in trail' : e.request # number'[s]
      BY <3>1 DEF Fresh
    <3> QED
      BY <3>2 DEF Noted
  <2> QED
    BY <2>1, <2>2 DEF OnRecord
<1>2. ASSUME Release(s), done'[s] = {} PROVE OnRecord(s)'
  BY <1>2, EndedOnRecord DEF Release, TypeOK
<1>3. ASSUME NEW to \in {"recorded", "stepping", "committing", "erasing", "reading", "completing",
                         "answered"},
             GoTo(s, to), place[s] # "idle", ~Serves(s, "rectify"), ~(Recording(s) /\ to = "recorded"),
             \/ UNCHANGED trail
             \/ \E type, target : type # Failure /\ AppendEvent(s, type, target),
             to # "erasing" => done'[s] = {}
      PROVE  OnRecord(s)'
  BY <1>3, GoesOnRecord DEF OnRecord
<1>4. CASE Ask(s)
  BY <1>1, <1>4 DEF Ask, rowVars
<1>5. CASE RecordConsentOrRestriction(s)
  <2>1. CASE Record(s)
    <3>1. EventOf(request[s]) # Failure /\ place[s] # "idle" /\ done'[s] = {} /\ ~Serves(s, "rectify")
      BY <1>5, <2>1
         DEF Record, Recording, EventOf, Failure, RecordConsentOrRestriction, rowVars, OnRecord, Serves
    <3>2. GoTo(s, "recorded") /\ AppendEvent(s, EventOf(request[s]), request[s].purpose)
      BY <2>1 DEF Record, Audited
    <3>3. Noted(s, EventOf(request[s]), request[s].purpose)'
      <4>1. request'[s] = request[s] /\ number'[s] = number[s]
        BY <3>2 DEF GoTo
      <4>2. EventOf(request[s])' = EventOf(request[s])
        BY <4>1 DEF EventOf
      <4>3. [request |-> number[s], type |-> EventOf(request[s]), target |-> request[s].purpose] \in trail'
        BY <3>2 DEF AppendEvent, Event
      <4> QED
        BY <4>1, <4>2, <4>3 DEF Noted
    <3>4. /\ place'[s] = "recorded" /\ ~Serves(s, "rectify")'
          /\ ~Noted(s, Failure, "")'
      BY <3>1, <3>2, GoesOnRecord
    <3> QED
      BY <3>1, <3>3, <3>4 DEF OnRecord
  <2>2. CASE CommitRecord(s)
    BY <1>2, <1>5, <2>2 DEF CommitRecord, Commits, RecordConsentOrRestriction, rowVars, OnRecord
  <2> QED
    BY <1>5, <2>1, <2>2 DEF RecordConsentOrRestriction
<1>6. CASE Rectify(s)
  <2>1. CASE RejectRectification(s)
    BY <1>2, <2>1 DEF RejectRectification, Returns, rowVars, OnRecord
  <2>2. CASE RequestRectification(s)
    <3>1. /\ GoTo(s, "stepping") /\ AppendEvent(s, "rectification_requested", "") /\ place[s] # "idle"
          /\ done'[s] = {}
      BY <2>2 DEF RequestRectification, Audited, rowVars, OnRecord
    <3>2. Noted(s, "rectification_requested", "")'
      BY <3>1 DEF Noted, AppendEvent, GoTo, Event
    <3>3. place'[s] = "stepping" /\ ~Noted(s, Failure, "")'
      BY <3>1, GoesOnRecord DEF Failure
    <3> QED
      BY <3>1, <3>2, <3>3 DEF OnRecord
  <2>3. ASSUME NEW cell \in Cells, RectificationStep(s, cell) PROVE OnRecord(s)'
    <3>1. /\ GoTo(s, "stepping") /\ AppendEvent(s, "rectification_step_succeeded", cell)
          /\ Serves(s, "rectify") /\ place[s] = "stepping" /\ done'[s] = done[s] \cup {cell}
      BY <2>3 DEF RectificationStep, Audited, TypeOK
    <3>2. Noted(s, "rectification_step_succeeded", cell)'
      BY <3>1 DEF Noted, AppendEvent, GoTo, Event
    <3>3. /\ place'[s] = "stepping" /\ ~Noted(s, Failure, "")'
          /\ \A type, target : Noted(s, type, target) => Noted(s, type, target)'
      BY <3>1, GoesOnRecord DEF Failure
    <3> QED
      BY <3>1, <3>2, <3>3 DEF OnRecord
  <2>4. CASE CompleteRectification(s)
    <3>1. /\ GoTo(s, "committing") /\ AppendEvent(s, "rectification_local_completed", "")
          /\ Serves(s, "rectify") /\ place[s] = "stepping" /\ done'[s] = done[s]
          /\ _local_steps(s) \subseteq done[s]
      BY <2>4 DEF CompleteRectification, Audited, rowVars
    <3>2. Noted(s, "rectification_local_completed", "")'
      BY <3>1 DEF Noted, AppendEvent, GoTo, Event
    <3>3. /\ place'[s] = "committing" /\ ~Noted(s, Failure, "")' /\ _local_steps(s)' = _local_steps(s)
          /\ \A type, target : Noted(s, type, target) => Noted(s, type, target)'
      BY <3>1, GoesOnRecord DEF Failure
    <3> QED
      BY <3>1, <3>2, <3>3 DEF OnRecord
  <2>5. CASE StepRaised(s)
    BY <1>2, <2>5 DEF StepRaised, RollsBack, Unlock, TypeOK
  <2> QED
    BY <1>6, <2>1, <2>2, <2>3, <2>4, <2>5 DEF Rectify
<1>7. CASE Erase(s)
  <2>1. CASE LockAnchorRow(s) \/ ErasureStep(s)
    BY <1>3, <2>1 DEF LockAnchorRow, ErasureStep, Quietly, Serves
  <2>2. CASE ErasureRaised(s)
    BY <1>2, <2>2 DEF ErasureRaised, RollsBack, Unlock, TypeOK
  <2> QED
    BY <1>7, <2>1, <2>2 DEF Erase
<1>8. CASE CommitRows(s)
  BY <1>2, <1>8 DEF CommitRows, CommitRectification, CommitErasure, Commits, Unlock, TypeOK
<1>9. CASE ExportRecords(s)
  <2>0. done' = done
    BY <1>9 DEF ExportRecords, rowVars
  <2>1. CASE RejectExport(s) \/ ReturnBundle(s)
    BY <1>2, <2>0, <2>1 DEF RejectExport, ReturnBundle, Returns, OnRecord
  <2>2. CASE RequestExport(s)
    BY <1>3, <2>0, <2>2 DEF RequestExport, Audited, Failure, Serves, OnRecord
  <2>3. ASSUME NEW t \in Tables, ReadTable(s, t) PROVE OnRecord(s)'
    BY <1>3, <2>0, <2>3 DEF ReadTable, Quietly, Serves, OnRecord
  <2>4. CASE CollectExternal(s)
    BY <1>3, <2>0, <2>4 DEF CollectExternal, Quietly, Serves, OnRecord
  <2>5. CASE CompleteExport(s)
    BY <1>3, <2>0, <2>5 DEF CompleteExport, Audited, Failure, Serves, OnRecord
  <2> QED
    BY <1>9, <2>1, <2>2, <2>3, <2>4, <2>5 DEF ExportRecords
<1>10. CASE Fail(s)
  BY <1>2, <1>10 DEF Fail, Fails, RollsBack, Unlock, TypeOK
<1> QED
  BY <1>4, <1>5, <1>6, <1>7, <1>8, <1>9, <1>10 DEF SessionStep

\* The plan of the data map stays.
LEMMA PlanStays ==
    ASSUME NEW s \in Sessions, SessionStep(s)
    PROVE  strategyOf' = strategyOf /\ offered' = offered
BY DEF SessionStep, Ask, RecordConsentOrRestriction, Rectify, Erase, CommitRows, ExportRecords, Fail,
       RejectRectification, RequestRectification, RectificationStep, CompleteRectification, StepRaised,
       LockAnchorRow, ErasureStep, ErasureRaised, CommitRectification, CommitErasure, RollsBack, Unlock,
       rowVars

LEMMA OnRecordStep == TypeOK /\ TypeOK' /\ Fresh /\ AllOnRecord /\ [Next]_vars => AllOnRecord'
<1> SUFFICES ASSUME TypeOK, TypeOK', Fresh, AllOnRecord, [Next]_vars PROVE AllOnRecord'
  OBVIOUS
<1>1. ASSUME NEW s \in Sessions, SessionStep(s) PROVE AllOnRecord'
  <2>1. \A q \in Sessions \ {s} : OnRecord(q)'
    BY <1>1, OthersOnRecord, PlanStays DEF AllOnRecord
  <2>2. OnRecord(s)'
    BY <1>1, OwnRecord, PlanStays DEF AllOnRecord
  <2> QED
    BY <2>1, <2>2 DEF AllOnRecord
<1>2. CASE UNCHANGED vars
  BY <1>2 DEF vars, requestVars, rowVars, AllOnRecord, OnRecord, Noted, Recording, Serves,
              _local_steps, Cells, EventOf
<1> QED
  BY <1>1, <1>2, NextIs

\* The evidence of one committed request.
Evidenced(i) ==
    LET what == committed[i].what
    IN  CASE what.kind \in {"consent", "restriction"} -> Written(i, EventOf(what), what.purpose)
          [] what.kind = "rectify" ->
               /\ Written(i, "rectification_requested", "")
               /\ \A cell \in Cells : cell[2] \in what.corrections
                    => Written(i, "rectification_step_succeeded", cell)
               /\ Written(i, "rectification_local_completed", "")
               /\ ~Written(i, "rectification_step_failed", "")
          [] OTHER -> TRUE

\* What can be committed.
LEMMA Committing ==
    ASSUME TypeOK, NEW s \in Sessions, SessionStep(s), committed' # committed
    PROVE  /\ committed' = Append(committed, [number |-> number[s], what |-> request[s]])
           /\ UNCHANGED <<trail, strategyOf>> /\ request[s] # NoRequest
           /\ \/ Recording(s) /\ place[s] = "recorded"
              \/ Serves(s, "rectify") /\ place[s] = "committing"
              \/ Serves(s, "erase")
           /\ CommitRows(s) \/ Recording(s)
<1>1. \A to : GoTo(s, to) => UNCHANGED committed
  BY DEF GoTo
<1>2. RecordConsentOrRestriction(s) \/ CommitRows(s)
  <2>1. \A t \in Tables : ReadTable(s, t) => UNCHANGED committed
    BY <1>1 DEF ReadTable, Quietly
  <2>2. ~ExportRecords(s)
    BY <1>1, <2>1 DEF ExportRecords, RejectExport, RequestExport, CollectExternal, CompleteExport,
                      ReturnBundle, Audited, Quietly, Returns
  <2>3. ~Rectify(s)
    BY <1>1 DEF Rectify, RejectRectification, RequestRectification, RectificationStep,
                CompleteRectification, StepRaised, Audited, Returns
  <2>4. ~Erase(s)
    BY <1>1 DEF Erase, LockAnchorRow, ErasureStep, ErasureRaised, Quietly
  <2>5. ~Ask(s) /\ ~Fail(s)
    BY DEF Ask, Begin, Fail, Fails
  <2> QED
    BY <2>2, <2>3, <2>4, <2>5 DEF SessionStep
<1>3. CASE RecordConsentOrRestriction(s)
  BY <1>1, <1>3, PlanStays
     DEF RecordConsentOrRestriction, Record, Audited, CommitRecord, Commits, Recording
<1>4. CASE CommitRows(s)
  BY <1>4, PlanStays DEF CommitRows, CommitRectification, CommitErasure, Commits, Serves
<1> QED
  BY <1>2, <1>3, <1>4

LEMMA EvidenceStep ==
    TypeOK /\ Fresh /\ AllOnRecord /\ CommitsAreEvidenced /\ [Next]_vars => CommitsAreEvidenced'
<1> SUFFICES ASSUME TypeOK, Fresh, AllOnRecord, CommitsAreEvidenced, [Next]_vars
             PROVE  CommitsAreEvidenced'
  OBVIOUS
<1>0. CommitsAreEvidenced <=> \A i \in DOMAIN committed : Evidenced(i)
  BY DEF CommitsAreEvidenced, Evidenced
<1>1. ASSUME NEW s \in Sessions, SessionStep(s),
             NEW i \in DOMAIN committed, i \in DOMAIN committed', committed'[i] = committed[i]
      PROVE  Evidenced(i)'
  <2>1. trail \subseteq trail' /\ strategyOf' = strategyOf
    BY <1>1, Moves, PlanStays DEF Starts, GoesOn
  <2>2. \A type, target : Written(i, type, target) => Written(i, type, target)'
    BY <1>1, <2>1 DEF Written
  <2>3. ~Written(i, Failure, "") => ~Written(i, Failure, "")'
    <3> DEFINE e == [request |-> committed[i].number, type |-> Failure, target |-> ""]
    <3>1. e.request = committed[i].number
      OBVIOUS
    <3> HIDE DEF e
    <3>2. e \in trail' => e \in trail
      <4>1. Starts(s) \/ GoesOn(s)
        BY <1>1, Moves
      <4>2. CASE Starts(s)
        BY <4>2 DEF Starts
      <4>3. CASE GoesOn(s)
        <5>1. committed[i].number # number[s]
          BY <1>1, <4>3 DEF GoesOn, Fresh
        <5>2. \A f \in trail' \ trail : f.request = number[s]
          BY <4>3 DEF GoesOn
        <5> QED
          BY <3>1, <5>1, <5>2
      <4> QED
        BY <4>1, <4>2, <4>3
    <3>3. Written(i, Failure, "") <=> e \in trail
      BY DEF Written, e
    <3>4. Written(i, Failure, "")' <=> e \in trail'
      BY <1>1 DEF Written, e
    <3> QED
      BY <3>2, <3>3, <3>4
  <2>4. Evidenced(i)
    BY <1>0
  <2> QED
    BY <1>1, <2>1, <2>2, <2>3, <2>4 DEF Evidenced, Failure, Cells, EventOf
<1>2. ASSUME NEW s \in Sessions, SessionStep(s), committed' # committed,
             NEW i, committed'[i] = [number |-> number[s], what |-> request[s]]
      PROVE  Evidenced(i)'
  <2>1. /\ UNCHANGED <<trail, strategyOf>> /\ place[s] # "idle"
        /\ \/ Recording(s) /\ place[s] = "recorded"
           \/ Serves(s, "rectify") /\ place[s] = "committing"
           \/ Serves(s, "erase")
    BY <1>2, Committing DEF Fresh
  <2>2. committed'[i].number = number[s] /\ committed'[i].what = request[s]
    BY <1>2
  <2>3. \A type, target : Written(i, type, target)' <=> Noted(s, type, target)
    BY <2>1, <2>2 DEF Written, Noted
  <2>4. OnRecord(s)
    BY DEF AllOnRecord
  <2>5. CASE Recording(s) /\ place[s] = "recorded"
    BY <2>2, <2>3, <2>4, <2>5 DEF OnRecord, Evidenced, Recording
  <2>6. CASE Serves(s, "rectify") /\ place[s] = "committing"
    BY <2>1, <2>2, <2>3, <2>4, <2>6 DEF OnRecord, Evidenced, Serves, _local_steps, Cells, Failure
  <2>7. CASE Serves(s, "erase")
    BY <2>2, <2>7 DEF Evidenced, Serves
  <2> QED
    BY <2>1, <2>5, <2>6, <2>7
<1>3. ASSUME NEW s \in Sessions, SessionStep(s) PROVE \A i \in DOMAIN committed' : Evidenced(i)'
  <2>1. CASE committed' = committed
    BY <1>1, <1>3, <2>1
  <2>2. CASE committed' # committed
    <3> DEFINE e == [number |-> number[s], what |-> request[s]]
    <3>1. committed' = Append(committed, e)
      BY <1>3, <2>2, Committing
    <3> HIDE DEF e
    <3>2. \A i \in DOMAIN committed' : \/ i \in DOMAIN committed /\ committed'[i] = committed[i]
                                       \/ committed'[i] = e
      BY <3>1 DEF TypeOK
    <3> QED
      BY <1>1, <1>2, <1>3, <2>2, <3>2 DEF e
  <2> QED
    BY <2>1, <2>2
<1>4. CASE UNCHANGED vars
  <2>1. UNCHANGED <<committed, trail, strategyOf>>
    BY <1>4 DEF vars, requestVars, rowVars
  <2> QED
    BY <2>1 DEF CommitsAreEvidenced, Written, EventOf, Cells
<1>5. ASSUME NEW s \in Sessions, SessionStep(s) PROVE CommitsAreEvidenced'
  BY <1>3, <1>5 DEF CommitsAreEvidenced, Evidenced
<1> QED
  BY <1>4, <1>5, NextIs

\* Nothing changes in the database without its evidence on the trail, whatever fails and in
\* whatever order the requests commit.
THEOREM CommitsHaveEvidence == Spec => []CommitsAreEvidenced
<1>1. Init => Fresh /\ AllOnRecord /\ CommitsAreEvidenced
  BY DEF Init, RequestsInit, RectificationInit, Fresh, AllOnRecord, OnRecord, Noted, Recording, Serves,
         CommitsAreEvidenced
<1> QED
  BY <1>1, FreshStep, OnRecordStep, EvidenceStep, TypeCorrect, PTL DEF Spec

-----------------------------------------------------------------------------
(* Commits one after the other.                                            *)

\* A rectification holds the row of every cell whose step it has run, if the row is there.
Holds(s) ==
    Serves(s, "rectify") => /\ done[s] \subseteq _local_steps(s)
                            /\ \A cell \in done[s] : cell[1] \in stored => cell[1] \in held[s]

RowsHeld == \A s \in Sessions : Holds(s)

\* Rows only ever go.
LEMMA RowsGo ==
    ASSUME NEW s \in Sessions, SessionStep(s)
    PROVE  /\ stored' \subseteq stored
           /\ ~CommitRows(s) => UNCHANGED <<stored, cells, owed>>
BY DEF SessionStep, Ask, RecordConsentOrRestriction, Rectify, Erase, CommitRows, ExportRecords, Fail,
       RejectRectification, RequestRectification, RectificationStep, CompleteRectification, StepRaised,
       LockAnchorRow, ErasureStep, ErasureRaised, CommitRectification, CommitErasure, RollsBack, rowVars

LEMMA RowsHeldStep == TypeOK /\ AllOnRecord /\ RowsHeld /\ [Next]_vars => RowsHeld'
<1> SUFFICES ASSUME TypeOK, AllOnRecord, RowsHeld, [Next]_vars PROVE RowsHeld'
  OBVIOUS
<1>1. ASSUME NEW s \in Sessions, SessionStep(s) PROVE RowsHeld'
  <2>0. stored' \subseteq stored /\ strategyOf' = strategyOf
    BY <1>1, RowsGo, PlanStays
  <2>1. ASSUME NEW q \in Sessions \ {s} PROVE Holds(q)'
    BY <1>1, <2>0, OthersKeep DEF RowsHeld, Holds, Serves, _local_steps, Cells
  <2>2. ASSUME done'[s] = {} PROVE Holds(s)'
    BY <2>2 DEF Holds
  <2>3. ASSUME ~Serves(s, "rectify")' PROVE Holds(s)'
    BY <2>3 DEF Holds
  <2>4. ASSUME done'[s] = done[s], held'[s] = held[s], request'[s] = request[s] PROVE Holds(s)'
    BY <2>0, <2>4 DEF RowsHeld, Holds, Serves, _local_steps, Cells
  <2> SUFFICES Holds(s)'
    BY <2>1 DEF RowsHeld
  <2>5. CASE Ask(s)
    BY <2>2, <2>5 DEF Ask, Begin, rowVars, AllOnRecord, OnRecord
  <2>6. CASE RecordConsentOrRestriction(s)
    BY <2>4, <2>3, <2>6
       DEF RecordConsentOrRestriction, Record, CommitRecord, Audited, GoTo, Commits, Release, rowVars,
           Serves, TypeOK
  <2>7. CASE Rectify(s)
    <3>1. CASE RejectRectification(s) \/ RequestRectification(s) \/ CompleteRectification(s)
      BY <2>3, <2>4, <3>1
         DEF RejectRectification, RequestRectification, CompleteRectification, Returns, Release, Audited,
             GoTo, rowVars, Serves, TypeOK
    <3>2. ASSUME NEW cell \in Cells, RectificationStep(s, cell) PROVE Holds(s)'
      <4>1. /\ request' = request /\ done'[s] = done[s] \cup {cell} /\ cell \in _local_steps(s)
            /\ held'[s] = held[s] \cup Wanted(s) /\ stored' = stored
            /\ cell[1] \in NextTable(s, _local_steps(s)) /\ Serves(s, "rectify") /\ place[s] = "stepping"
        BY <3>2 DEF RectificationStep, Lock, Audited, GoTo, TypeOK
      <4>2. Wanted(s) = stored \cap NextTable(s, _local_steps(s))
        BY <4>1 DEF Wanted, Serves
      <4>3. /\ done[s] \subseteq _local_steps(s)
            /\ \A c \in done[s] : c[1] \in stored => c[1] \in held[s]
        BY <4>1 DEF RowsHeld, Holds
      <4>4. _local_steps(s)' = _local_steps(s)
        BY <2>0, <4>1 DEF _local_steps, Cells
      <4> QED
        BY <4>1, <4>2, <4>3, <4>4 DEF Holds
    <3>3. CASE StepRaised(s)
      BY <2>2, <3>3 DEF StepRaised, RollsBack, Unlock, TypeOK
    <3> QED
      BY <2>7, <3>1, <3>2, <3>3 DEF Rectify
  <2>8. CASE Erase(s)
    BY <2>2, <2>3, <2>8
       DEF Erase, LockAnchorRow, ErasureStep, ErasureRaised, Quietly, GoTo, RollsBack, Unlock, Serves,
           TypeOK
  <2>9. CASE CommitRows(s)
    BY <2>2, <2>9 DEF CommitRows, CommitRectification, CommitErasure, Unlock, TypeOK
  <2>10. CASE ExportRecords(s)
    <3>1. Serves(s, "export") /\ UNCHANGED rowVars
      BY <2>10 DEF ExportRecords, RejectExport, RequestExport, ReadTable, CollectExternal,
                   CompleteExport, ReturnBundle
    <3>2. request'[s] \in {request[s], NoRequest}
      BY <2>10 DEF ExportRecords, RejectExport, RequestExport, ReadTable, CollectExternal,
                   CompleteExport, ReturnBundle, Returns, Release, Audited, Quietly, GoTo, TypeOK
    <3> QED
      BY <2>3, <3>1, <3>2 DEF Serves
  <2>11. CASE Fail(s)
    BY <2>2, <2>11 DEF Fail, RollsBack, Unlock, TypeOK
  <2> QED
    BY <1>1, <2>5, <2>6, <2>7, <2>8, <2>9, <2>10, <2>11 DEF SessionStep
<1>2. CASE UNCHANGED vars
  BY <1>2 DEF vars, requestVars, rowVars, RowsHeld, Holds, Serves, _local_steps, Cells
<1> QED
  BY <1>1, <1>2, NextIs

\* Rows change with a commit only.
LEMMA Unchanging ==
    ASSUME TypeOK, NEW s \in Sessions, SessionStep(s), committed' = committed
    PROVE  ~CommitRows(s)
<1> DEFINE e == [number |-> number[s], what |-> request[s]]
<1>1. CommitRows(s) => committed' = Append(committed, e)
  BY DEF CommitRows, CommitRectification, CommitErasure, Commits
<1> HIDE DEF e
<1>2. committed' = Append(committed, e) => Len(committed') = Len(committed) + 1 /\ Len(committed) \in Nat
  BY DEF TypeOK
<1> QED
  BY <1>1, <1>2

\* What a request changes.
ChangedBy(what, cell) ==
    \/ what.kind = "rectify" /\ cell[2] \in what.corrections
    \/ what.kind = "erase" /\ strategyOf[cell] # "retain"

LEMMA ChangesAre ==
    ASSUME NEW cell
    PROVE  Changes(cell) = {i \in DOMAIN committed : ChangedBy(committed[i].what, cell)}
BY DEF Changes, ChangedBy

LEMMA LastExists ==
    ASSUME TypeOK, NEW cell, Changes(cell) # {}
    PROVE  \E i \in Changes(cell) : \A j \in Changes(cell) : j <= i
<1>1. DOMAIN committed = 1..Len(committed) /\ Len(committed) \in Nat
  BY DEF TypeOK
<1>2. Changes(cell) \in SUBSET (1..Len(committed))
  BY <1>1 DEF Changes
<1>3. IsFiniteSet(1..Len(committed))
  BY <1>1, FS_Interval
<1>4. IsFiniteSet(Changes(cell)) /\ Changes(cell) \in SUBSET Nat
  BY <1>1, <1>2, <1>3, FS_Subset
<1> QED
  BY <1>4, GreatestNat

LEMMA AppendIs ==
    ASSUME TypeOK, NEW e, committed' = Append(committed, e)
    PROVE  /\ DOMAIN committed' = DOMAIN committed \cup {Len(committed) + 1}
           /\ DOMAIN committed = 1..Len(committed) /\ Len(committed) \in Nat
           /\ \A i \in DOMAIN committed : committed'[i] = committed[i]
           /\ committed'[Len(committed) + 1] = e
BY DEF TypeOK

LEMMA LastChangeStays ==
    ASSUME committed' = committed, strategyOf' = strategyOf, NEW cell
    PROVE  LastChange(cell)' = LastChange(cell)
<1> DEFINE C == Changes(cell)
           D == Changes(cell)'
           last == CHOOSE i \in C : \A j \in C : j <= i
           final == CHOOSE i \in D : \A j \in D : j <= i
<1>1. D = C
  BY DEF Changes
<1>2. /\ LastChange(cell) = IF C = {} THEN 0
                            ELSE IF committed[last].what.kind = "erase" THEN Surrogate
                                 ELSE committed[last].number
      /\ LastChange(cell)' = IF D = {} THEN 0
                             ELSE IF committed'[final].what.kind = "erase" THEN Surrogate
                                  ELSE committed'[final].number
  BY DEF LastChange, Surrogate
<1> HIDE DEF C, D
<1> QED
  BY <1>1, <1>2

\* How a commit moves the last change of a cell.
LEMMA LastChangeMoves ==
    ASSUME TypeOK, NEW e, committed' = Append(committed, e), strategyOf' = strategyOf, NEW cell
    PROVE  LastChange(cell)' = IF ~ChangedBy(e.what, cell) THEN LastChange(cell)
                               ELSE IF e.what.kind = "erase" THEN Surrogate ELSE e.number
<1> DEFINE n == Len(committed) + 1
           C == Changes(cell)
           D == Changes(cell)'
           last == CHOOSE i \in C : \A j \in C : j <= i
           final == CHOOSE i \in D : \A j \in D : j <= i
<1>1. /\ DOMAIN committed = 1..Len(committed) /\ DOMAIN committed' = DOMAIN committed \cup {n}
      /\ \A i \in DOMAIN committed : committed'[i] = committed[i]
      /\ committed'[n] = e /\ Len(committed) \in Nat
  BY AppendIs
<1>2. \A i \in DOMAIN committed : i \in Nat /\ i < n
  BY <1>1
<1>3. C = {i \in DOMAIN committed : ChangedBy(committed[i].what, cell)}
  BY ChangesAre
<1>4. D = {i \in DOMAIN committed' : ChangedBy(committed'[i].what, cell)}
  BY DEF Changes, ChangedBy
<1>5. /\ LastChange(cell) = IF C = {} THEN 0
                            ELSE IF committed[last].what.kind = "erase" THEN Surrogate
                                 ELSE committed[last].number
      /\ LastChange(cell)' = IF D = {} THEN 0
                             ELSE IF committed'[final].what.kind = "erase" THEN Surrogate
                                  ELSE committed'[final].number
  BY DEF LastChange, Surrogate
<1>6. C # {} => last \in C
  <2>1. C # {} => \E i \in C : \A j \in C : j <= i
    BY LastExists
  <2> HIDE DEF C
  <2> QED
    BY <2>1
<1> HIDE DEF n, C, D
<1>7. CASE ~ChangedBy(e.what, cell)
  <2>1. D = C
    BY <1>1, <1>3, <1>4, <1>7
  <2>2. C # {} => committed'[last] = committed[last]
    BY <1>1, <1>3, <1>6
  <2> QED
    BY <1>5, <1>7, <2>1, <2>2
<1>8. CASE ChangedBy(e.what, cell)
  <2>1. D = C \cup {n}
    BY <1>1, <1>3, <1>4, <1>8
  <2>2. \A i \in C : i \in Nat /\ i < n
    BY <1>2, <1>3
  <2>3. n \in Nat
    BY <1>1 DEF n
  <2>4. final = n
    BY <2>1, <2>2, <2>3
  <2> HIDE DEF final
  <2> QED
    BY <1>1, <1>5, <1>8, <2>1, <2>4
<1> QED
  BY <1>7, <1>8

\* The entries that the committed requests owe.
Owes(e) == {e.number} \X {r \in e.what.refs : kindOf[r] \in Rectifying}

LEMMA SerialIs ==
    CommitsAreSerial <=>
      /\ \A cell \in Cells : cell[1] \in stored => cells[cell] = LastChange(cell)
      /\ \A x : x \in owed <=> \E i \in DOMAIN committed : /\ committed[i].what.kind = "rectify"
                                                           /\ x \in Owes(committed[i])
<1> DEFINE I == {i \in DOMAIN committed : committed[i].what.kind = "rectify"}
           O == UNION {Owes(committed[i]) : i \in I}
<1>1. CommitsAreSerial <=> /\ \A cell \in Cells : cell[1] \in stored => cells[cell] = LastChange(cell)
                           /\ owed = O
  BY DEF CommitsAreSerial, Owes
<1>2. \A x : x \in O <=> \E i \in DOMAIN committed : /\ committed[i].what.kind = "rectify"
                                                     /\ x \in Owes(committed[i])
  OBVIOUS
<1> HIDE DEF O
<1>3. owed = O <=> \A x : x \in owed <=> x \in O
  OBVIOUS
<1> QED
  BY <1>1, <1>2, <1>3

LEMMA SerialStep ==
    TypeOK /\ AllOnRecord /\ RowsHeld /\ CommitsAreSerial /\ [Next]_vars => CommitsAreSerial'
<1> SUFFICES ASSUME TypeOK, AllOnRecord, RowsHeld, CommitsAreSerial, [Next]_vars
             PROVE  CommitsAreSerial'
  OBVIOUS
<1>1. ASSUME NEW s \in Sessions, SessionStep(s), committed' = committed PROVE CommitsAreSerial'
  <2>1. UNCHANGED <<stored, cells, owed, strategyOf>>
    BY <1>1, RowsGo, PlanStays, Unchanging
  <2> QED
    BY <1>1, <2>1, LastChangeStays, SerialIs DEF CommitsAreSerial, Cells
<1>2. ASSUME NEW s \in Sessions, SessionStep(s), committed' # committed PROVE CommitsAreSerial'
  <2> DEFINE e == [number |-> number[s], what |-> request[s]]
  <2>1. /\ committed' = Append(committed, e) /\ e.number = number[s] /\ e.what = request[s]
        /\ strategyOf' = strategyOf
        /\ (Recording(s) /\ UNCHANGED <<stored, cells, owed>>) \/ CommitRows(s)
    BY <1>2, Committing, RowsGo
  <2> HIDE DEF e
  <2>2. \A cell : LastChange(cell)' = IF ~ChangedBy(e.what, cell) THEN LastChange(cell)
                                      ELSE IF e.what.kind = "erase" THEN Surrogate ELSE e.number
    BY <2>1, LastChangeMoves
  <2>3. Cells' = Cells /\ stored' \subseteq stored
    BY <1>2, <2>1, RowsGo DEF Cells
  <2>4. \A cell \in Cells : cell[1] \in stored' =>
           cells'[cell] = IF ~ChangedBy(e.what, cell) THEN cells[cell]
                          ELSE IF e.what.kind = "erase" THEN Surrogate ELSE e.number
    <3>1. CASE Recording(s) /\ UNCHANGED <<stored, cells, owed>>
      BY <2>1, <3>1 DEF Recording, ChangedBy
    <3>2. CASE CommitRectification(s)
      <4>1. done[s] = _local_steps(s) /\ \A cell \in done[s] : cell[1] \in stored => cell[1] \in held[s]
        BY <3>2 DEF CommitRectification, AllOnRecord, OnRecord, RowsHeld, Holds, Serves
      <4> QED
        BY <2>1, <3>2, <4>1 DEF CommitRectification, Serves, ChangedBy, _local_steps
    <3>3. CASE CommitErasure(s)
      BY <2>1, <3>3 DEF CommitErasure, Serves, ChangedBy
    <3> QED
      BY <2>1, <3>1, <3>2, <3>3 DEF CommitRows
  <2>5. \A cell \in Cells' : cell[1] \in stored' => cells'[cell] = LastChange(cell)'
    BY SerialIs, <2>2, <2>3, <2>4
  <2>6. \A x : x \in owed' <=> x \in owed \/ (e.what.kind = "rectify" /\ x \in Owes(e))
    <3>1. CASE Recording(s) /\ UNCHANGED <<stored, cells, owed>>
      BY <2>1, <3>1 DEF Recording
    <3>2. CASE CommitRectification(s)
      BY <2>1, <3>2 DEF CommitRectification, Serves, _outbox_entries, Owes
    <3>3. CASE CommitErasure(s)
      BY <2>1, <3>3 DEF CommitErasure, Serves
    <3> QED
      BY <2>1, <3>1, <3>2, <3>3 DEF CommitRows
  <2>7. /\ DOMAIN committed' = DOMAIN committed \cup {Len(committed) + 1}
        /\ \A i \in DOMAIN committed : committed'[i] = committed[i]
        /\ committed'[Len(committed) + 1] = e
    BY <2>1, AppendIs
  <2>8. \A x : x \in owed' <=> \E i \in DOMAIN committed' : /\ committed'[i].what.kind = "rectify"
                                                            /\ x \in Owes(committed'[i])
    BY SerialIs, <2>6, <2>7
  <2>9. (CommitsAreSerial <=>
           /\ \A cell \in Cells : cell[1] \in stored => cells[cell] = LastChange(cell)
           /\ \A x : x \in owed <=> \E i \in DOMAIN committed : /\ committed[i].what.kind = "rectify"
                                                                /\ x \in Owes(committed[i]))'
    BY SerialIs, PTL
  <2> QED
    BY <2>5, <2>8, <2>9 DEF Owes
<1>3. CASE UNCHANGED vars
  BY <1>3, LastChangeStays DEF vars, requestVars, rowVars, CommitsAreSerial, Cells
<1> QED
  BY <1>1, <1>2, <1>3, NextIs

\* Under row locks alone, the database is as if the rectifications and erasures had run one
\* after the other in the order of their commits.
THEOREM CommitsAreInOrder == Spec => []CommitsAreSerial
<1>1. Init => Fresh /\ AllOnRecord /\ RowsHeld /\ CommitsAreSerial
  BY DEF Init, RequestsInit, RectificationInit, Fresh, AllOnRecord, OnRecord, Noted, Recording, Serves,
         RowsHeld, Holds, CommitsAreSerial, LastChange, Changes, Cells
<1> QED
  BY <1>1, FreshStep, OnRecordStep, RowsHeldStep, SerialStep, TypeCorrect, PTL DEF Spec

-----------------------------------------------------------------------------
(* Bundles.                                                                *)

\* What an export knows: all current values have been seen, it has nothing that was not
\* seen, and of every table read it has a value of each cell unless the row was seen gone.
Bundled(s) ==
    /\ ~Exporting(s) => records[s] = {} /\ read[s] = {}
    /\ Exporting(s) =>
         /\ \A cell \in Cells : <<cell, Value(cell)>> \in seen[s]
         /\ records[s] \subseteq seen[s]
         /\ \A cell \in Cells : cell[1] \in read[s] =>
              <<cell, Gone>> \in seen[s] \/ \E v \in Values : <<cell, v>> \in records[s]
    /\ Exporting(s) /\ place[s] \in {"completing", "answered"} =>
         /\ read[s] = Tables
         /\ \A r \in request[s].refs : r \in delivered[s] \/ kindOf[r] \in incomplete[s]

AllBundled == \A s \in Sessions : Bundled(s)

\* Exports see every value that comes, and nothing else.
LEMMA Seeing ==
    ASSUME TypeOK, NEW s \in Sessions, SessionStep(s)
    PROVE  /\ \A q \in Sessions \ {s} : seen[q] \subseteq seen'[q]
           /\ CommitRows(s) => \A q \in Sessions : \A cell \in Cells :
                                 Exporting(q) => <<cell, Value(cell)'>> \in seen'[q]
           /\ ~CommitRows(s) => \A cell : Value(cell)' = Value(cell)
<1>1. ASSUME NEW q \in Sessions \ {s} PROVE seen[q] \subseteq seen'[q]
  <2>1. CASE CommitRows(s)
    BY <2>1 DEF CommitRows, Watch
  <2>2. CASE UNCHANGED seen
    BY <2>2
  <2>3. CASE Discard(s) \/ RequestExport(s)
    BY <2>3 DEF Discard, RequestExport, TypeOK
  <2>4. ASSUME NEW t \in Tables, ReadTable(s, t) PROVE UNCHANGED seen
    BY <2>4 DEF ReadTable
  <2>5. UNCHANGED seen \/ CommitRows(s) \/ Discard(s) \/ RequestExport(s)
    BY <2>4 DEF SessionStep, Ask, RecordConsentOrRestriction, Rectify, Erase, ExportRecords, Fail, exportVars,
                RejectExport, CollectExternal, CompleteExport, ReturnBundle
  <2> QED
    BY <2>1, <2>2, <2>3, <2>5
<1>2. ASSUME CommitRows(s), NEW q \in Sessions, NEW cell \in Cells, Exporting(q)
      PROVE  <<cell, Value(cell)'>> \in seen'[q]
  BY <1>2 DEF CommitRows, Watch
<1>3. ASSUME ~CommitRows(s), NEW cell PROVE Value(cell)' = Value(cell)
  BY <1>3, RowsGo DEF Value, Gone
<1> QED
  BY <1>1, <1>2, <1>3

LEMMA OthersBundled ==
    ASSUME TypeOK, NEW s \in Sessions, SessionStep(s), NEW q \in Sessions \ {s}, Bundled(q)
    PROVE  Bundled(q)'
<1>1. /\ request'[q] = request[q] /\ place'[q] = place[q]
      /\ records'[q] = records[q] /\ read'[q] = read[q]
      /\ delivered'[q] = delivered[q] /\ incomplete'[q] = incomplete[q]
  BY OthersKeep
<1>2. Cells' = Cells /\ seen[q] \subseteq seen'[q]
  BY PlanStays, Seeing DEF Cells
<1>3. Exporting(q)' <=> Exporting(q)
  BY <1>1 DEF Exporting, Serves
<1>4. ASSUME Exporting(q), NEW cell \in Cells PROVE <<cell, Value(cell)'>> \in seen'[q]
  BY <1>2, <1>4, Seeing DEF Bundled
<1> QED
  BY <1>1, <1>2, <1>3, <1>4 DEF Bundled, Values, Gone

LEMMA OwnBundled ==
    ASSUME TypeOK, TypeOK', Fresh, NEW s \in Sessions, SessionStep(s), Bundled(s)
    PROVE  Bundled(s)'
<1>1. Cells' = Cells
  BY PlanStays DEF Cells
<1>2. ASSUME ~Exporting(s), ~Exporting(s)', records'[s] = records[s], read'[s] = read[s]
      PROVE  Bundled(s)'
  BY <1>2 DEF Bundled
<1>3. ASSUME Discard(s), request'[s] = NoRequest PROVE Bundled(s)'
  BY <1>3 DEF Discard, Bundled, Exporting, Serves, TypeOK
<1>4. ASSUME NEW kind, kind # "export", Serves(s, kind), request'[s] \in {request[s], NoRequest},
             UNCHANGED <<records, read>>
      PROVE  Bundled(s)'
  BY <1>2, <1>4 DEF Exporting, Serves
<1>5. CASE Ask(s)
  <2>1. ~Exporting(s)
    BY <1>5 DEF Ask, Begin, Exporting, Serves, Fresh
  <2>2. ~Exporting(s)'
    BY <1>5 DEF Ask, Begin, Exporting, TypeOK
  <2> QED
    BY <1>2, <1>5, <2>1, <2>2 DEF Ask, exportVars
<1>6. CASE RecordConsentOrRestriction(s)
  BY <1>4, <1>6 DEF RecordConsentOrRestriction, Record, CommitRecord, Audited, GoTo, Commits, Release,
                    exportVars, Recording, Serves, TypeOK
<1>7. CASE Rectify(s)
  <2>1. UNCHANGED <<records, read>> /\ Serves(s, "rectify")
    BY <1>7 DEF Rectify, RejectRectification, RequestRectification, RectificationStep,
                CompleteRectification, StepRaised, exportVars
  <2>2. request'[s] \in {request[s], NoRequest}
    BY <1>7 DEF Rectify, RejectRectification, RequestRectification, RectificationStep,
                CompleteRectification, StepRaised, Audited, GoTo, Returns, Release, TypeOK
  <2> QED
    BY <1>4, <2>1, <2>2
<1>8. CASE Erase(s)
  <2>1. UNCHANGED <<records, read>> /\ Serves(s, "erase")
    BY <1>8 DEF Erase, LockAnchorRow, ErasureStep, ErasureRaised, exportVars
  <2>2. request'[s] \in {request[s], NoRequest}
    BY <1>8 DEF Erase, LockAnchorRow, ErasureStep, ErasureRaised, Quietly, GoTo, Release, TypeOK
  <2> QED
    BY <1>4, <2>1, <2>2
<1>9. CASE CommitRows(s)
  BY <1>4, <1>9 DEF CommitRows, CommitRectification, CommitErasure, Commits, Release, Serves, TypeOK
<1>10. CASE Fail(s)
  BY <1>3, <1>10 DEF Fail, Fails, Release, TypeOK
<1>11. CASE ExportRecords(s)
  <2>0. \A cell : Value(cell)' = Value(cell)
    BY <1>11 DEF ExportRecords, rowVars, Value, Gone
  <2>1. CASE RejectExport(s)
    BY <1>2, <2>1 DEF RejectExport, Returns, Release, Exporting, Serves, exportVars, TypeOK
  <2>2. CASE ReturnBundle(s)
    BY <1>3, <2>2 DEF ReturnBundle, Returns, Release, TypeOK
  <2>3. CASE RequestExport(s)
    <3>1. /\ request' = request /\ place'[s] = "reading" /\ records'[s] = {} /\ read'[s] = {}
          /\ seen'[s] = {<<cell, Value(cell)>> : cell \in Cells}
      BY <2>3 DEF RequestExport, Audited, GoTo, Exporting, Bundled, TypeOK
    <3>2. \A cell \in Cells : <<cell, Value(cell)>> \in seen'[s]
      BY <3>1
    <3>3. Exporting(s)'
      BY <2>3, <3>1 DEF RequestExport, Exporting, Serves
    <3> QED
      BY <1>1, <2>0, <3>1, <3>2, <3>3 DEF Bundled
  <2>4. ASSUME NEW t \in Tables, ReadTable(s, t) PROVE Bundled(s)'
    <3>1. /\ request' = request /\ place'[s] = "reading" /\ seen' = seen /\ Exporting(s)
          /\ read'[s] = read[s] \cup {t} /\ UNCHANGED <<stored, cells>>
      BY <1>11, <2>4 DEF ExportRecords, ReadTable, Quietly, GoTo, Exporting, rowVars, TypeOK
    <3> DEFINE R == {<<cell, Value(cell)>> : cell \in {c \in Cells : c[1] = t /\ t \in stored}}
    <3>2. records'[s] = records[s] \cup R
      BY <2>4 DEF ReadTable, TypeOK
    <3>3. R \subseteq seen[s]
      BY <3>1 DEF Bundled
    <3>4. \A cell \in Cells : cell[1] = t =>
             <<cell, Gone>> \in seen[s] \/ \E v \in Values : <<cell, v>> \in R
      <4>1. ASSUME NEW cell \in Cells, cell[1] = t, t \in stored PROVE \E v \in Values : <<cell, v>> \in R
        BY <4>1, ValueTyped DEF TypeOK
      <4>2. ASSUME NEW cell \in Cells, cell[1] = t, t \notin stored PROVE <<cell, Gone>> \in seen[s]
        BY <3>1, <4>2 DEF Bundled, Value
      <4> QED
        BY <4>1, <4>2
    <3> HIDE DEF R
    <3>5. Exporting(s)'
      BY <3>1 DEF Exporting, Serves
    <3> QED
      BY <1>1, <2>0, <3>1, <3>2, <3>3, <3>4, <3>5 DEF Bundled, Values, Gone
  <2>5. CASE CollectExternal(s)
    <3>1. PICK raised \in SUBSET request[s].refs :
            /\ delivered' = [delivered EXCEPT ![s] = request[s].refs \ raised]
            /\ incomplete' = [incomplete EXCEPT ![s] = Incomplete(raised, request[s].refs \ raised)]
      BY <2>5 DEF CollectExternal
    <3>2. /\ request' = request /\ place'[s] = "completing" /\ UNCHANGED <<seen, records, read>>
          /\ Exporting(s) /\ read[s] = Tables
      BY <2>5 DEF CollectExternal, Quietly, GoTo, Exporting, TypeOK
    <3>3. \A r \in request[s].refs : r \in delivered'[s] \/ kindOf[r] \in incomplete'[s]
      BY <3>1 DEF Incomplete, TypeOK
    <3>4. Exporting(s)'
      BY <3>2 DEF Exporting, Serves
    <3> QED
      BY <1>1, <2>0, <3>2, <3>3, <3>4 DEF Bundled, Values, Gone
  <2>6. CASE CompleteExport(s)
    <3>1. /\ request' = request /\ place'[s] = "answered" /\ UNCHANGED exportVars
          /\ Exporting(s) /\ place[s] = "completing"
      BY <2>6 DEF CompleteExport, Audited, GoTo, Exporting, TypeOK
    <3>2. Exporting(s)'
      BY <3>1 DEF Exporting, Serves
    <3> QED
      BY <1>1, <2>0, <3>1, <3>2 DEF Bundled, Values, Gone, exportVars
  <2> QED
    BY <1>11, <2>1, <2>2, <2>3, <2>4, <2>5, <2>6 DEF ExportRecords
<1> QED
  BY <1>5, <1>6, <1>7, <1>8, <1>9, <1>10, <1>11 DEF SessionStep

LEMMA BundledStep == TypeOK /\ TypeOK' /\ Fresh /\ AllBundled /\ [Next]_vars => AllBundled'
<1> SUFFICES ASSUME TypeOK, TypeOK', Fresh, AllBundled, [Next]_vars PROVE AllBundled'
  OBVIOUS
<1>1. ASSUME NEW s \in Sessions, SessionStep(s) PROVE AllBundled'
  BY <1>1, OthersBundled, OwnBundled DEF AllBundled
<1>2. CASE UNCHANGED vars
  BY <1>2 DEF vars, requestVars, rowVars, exportVars, AllBundled, Bundled, Exporting, Serves, Cells,
              Value, Values, Gone
<1> QED
  BY <1>1, <1>2, NextIs

\* A bundle has every value that was there all along and none that never was, and names
\* every source whose records it lacks, although each of its statements sees what is
\* committed when it runs.
THEOREM BundlesTellAll == Spec => []BundlesAreWhole
<1>1. Init => Fresh /\ AllBundled
  BY DEF Init, RequestsInit, ExportInit, Fresh, AllBundled, Bundled, Exporting, Serves
<1>2. TypeOK /\ AllBundled => BundlesAreWhole
  <2> SUFFICES ASSUME TypeOK, AllBundled, NEW s \in Sessions, Serves(s, "export"), place[s] = "answered"
               PROVE  /\ \A cell \in Cells : \A v \in 0..Surrogate :
                           (\A w \in 0..Gone : <<cell, w>> \in seen[s] <=> w = v)
                             => <<cell, v>> \in records[s]
                      /\ records[s] \subseteq seen[s]
                      /\ \A r \in request[s].refs : r \in delivered[s] \/ kindOf[r] \in incomplete[s]
    BY DEF BundlesAreWhole
  <2>1. Exporting(s) /\ Bundled(s)
    BY DEF Exporting, AllBundled
  <2>2. ASSUME NEW cell \in Cells, NEW v \in 0..Surrogate,
               \A w \in 0..Gone : <<cell, w>> \in seen[s] <=> w = v
        PROVE  <<cell, v>> \in records[s]
    <3>1. Gone \in 0..Gone /\ Gone # v
      BY RequestsAssumption DEF Gone, Surrogate
    <3>2. cell[1] \in read[s]
      BY <2>1, RectificationAssumption DEF Bundled, Cells, TypeOK
    <3>3. PICK w \in 0..Gone : <<cell, w>> \in records[s]
      BY <2>1, <2>2, <3>1, <3>2 DEF Bundled, Values
    <3> QED
      BY <2>1, <2>2, <3>3 DEF Bundled
  <2> QED
    BY <2>1, <2>2 DEF Bundled
<1> QED
  BY <1>1, <1>2, FreshStep, BundledStep, TypeCorrect, PTL DEF Spec

=============================================================================

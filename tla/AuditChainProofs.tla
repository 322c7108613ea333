-------------------------- MODULE AuditChainProofs --------------------------
(***************************************************************************)
(* Proofs about the audit chain, for every set of events and appenders.    *)
(***************************************************************************)
EXTENDS AuditChain, NaturalBounds

LEMMA TypeInit == Init => TypeOK
<1> SUFFICES ASSUME Init PROVE TypeOK
  OBVIOUS
<1>1. Stored = {}
  BY DEF Init, Stored
<1>2. rows \in [Stored -> Row]
  BY <1>1 DEF Init
<1>3. /\ appending \in [Appenders -> Events \cup {NoHash}]
      /\ seen \in [Appenders -> Events \cup {NoHash}]
  BY DEF Init
<1>4. overlapped \in BOOLEAN
  BY DEF Init
<1>5. changes \in 0..MaxChanges
  BY ChainAssumption DEF Init
<1>6. IsFiniteSet(Stored)
  BY <1>1, FS_EmptySet
<1> QED
  BY <1>1, <1>2, <1>3, <1>4, <1>5, <1>6 DEF TypeOK

\* A row that is added or changed, and the rows that are not.
LEMMA WithRowIs ==
    ASSUME NEW e, NEW record, rows' = WithRow(e, record)
    PROVE  /\ Stored' = Stored \cup {e}
           /\ rows' = [f \in Stored' |-> rows'[f]]
           /\ rows'[e] = record
           /\ \A f \in Stored \ {e} : rows'[f] = rows[f]
BY DEF WithRow, Stored

LEMMA RowsStayTyped ==
    ASSUME TypeOK, NEW e \in Events, NEW record \in Row, rows' = WithRow(e, record),
           ~record.chained => record.prior = NoHash
    PROVE  /\ Stored' \subseteq Events /\ IsFiniteSet(Stored')
           /\ rows' \in [Stored' -> Row]
           /\ \A f \in Stored' : ~rows'[f].chained => rows'[f].prior = NoHash
<1>1. /\ Stored' = Stored \cup {e}
      /\ rows' = [f \in Stored' |-> rows'[f]]
      /\ rows'[e] = record
      /\ \A f \in Stored \ {e} : rows'[f] = rows[f]
  BY WithRowIs
<1>2. \A f \in Stored' : rows'[f] \in Row
  BY <1>1 DEF TypeOK
<1>3. IsFiniteSet(Stored')
  BY <1>1, FS_AddElement DEF TypeOK
<1> QED
  BY <1>1, <1>2, <1>3 DEF TypeOK

LEMMA TypeStep == TypeOK /\ [Next]_vars => TypeOK'
<1> SUFFICES ASSUME TypeOK, [Next]_vars PROVE TypeOK'
  OBVIOUS
<1> USE ChainAssumption
<1>1. ASSUME NEW a \in Appenders, NEW e \in Events, ReadTail(a, e) PROVE TypeOK'
  BY <1>1 DEF ReadTail, TypeOK, Tails, Chained, Stored
<1>2. ASSUME NEW a \in Appenders, Insert(a) PROVE TypeOK'
  <2> DEFINE record == [chained |-> TRUE, prior |-> seen[a], genuine |-> TRUE]
  <2>1. record \in Row /\ appending[a] \in Events /\ record.chained
    BY <1>2 DEF Insert, Open, TypeOK, Row
  <2>2. rows' = WithRow(appending[a], record)
    BY <1>2 DEF Insert
  <2> HIDE DEF record
  <2> QED
    BY <1>2, <2>1, <2>2, RowsStayTyped DEF Insert, Close, TypeOK
<1>3. ASSUME NEW a \in Appenders, Rejected(a) PROVE TypeOK'
  BY <1>3 DEF Rejected, Close, TypeOK, Stored
<1>4. ASSUME NEW e \in Events, InsertUnchained(e) PROVE TypeOK'
  <2> DEFINE record == [chained |-> FALSE, prior |-> NoHash, genuine |-> TRUE]
  <2>1. record \in Row /\ record.prior = NoHash
    BY DEF Row
  <2>2. rows' = WithRow(e, record)
    BY <1>4 DEF InsertUnchained
  <2> HIDE DEF record
  <2> QED
    BY <1>4, <2>1, <2>2, RowsStayTyped DEF InsertUnchained, TypeOK
<1>5. ASSUME NEW e \in Events, NEW hash \in Events \cup {NoHash},
             Change(WithRow(e, [chained |-> TRUE, prior |-> hash, genuine |-> FALSE]))
      PROVE TypeOK'
  <2> DEFINE record == [chained |-> TRUE, prior |-> hash, genuine |-> FALSE]
  <2>1. record \in Row /\ record.chained
    BY DEF Row
  <2>2. rows' = WithRow(e, record)
    BY <1>5 DEF Change
  <2> HIDE DEF record
  <2>3. changes' \in 0..MaxChanges
    BY <1>5 DEF Change, TypeOK
  <2>4. UNCHANGED <<appending, seen, overlapped>>
    BY <1>5 DEF Change
  <2> QED
    BY <2>1, <2>2, <2>3, <2>4, RowsStayTyped DEF TypeOK
<1>6. ASSUME NEW e \in Events, Edit(e) PROVE TypeOK'
  BY <1>5, <1>6 DEF Edit, TypeOK, Row, Chained
<1>7. ASSUME NEW e \in Events, Delete(e) PROVE TypeOK'
  <2>1. Stored' = Stored \ {e}
    BY <1>7 DEF Delete, Change, Stored
  <2>2. IsFiniteSet(Stored')
    BY <2>1, FS_RemoveElement DEF TypeOK
  <2>3. /\ rows' \in [Stored' -> Row]
        /\ \A f \in Stored' : ~rows'[f].chained => rows'[f].prior = NoHash
    BY <1>7 DEF Delete, Change, TypeOK, Stored
  <2> QED
    BY <1>7, <2>1, <2>2, <2>3 DEF Delete, Change, TypeOK
<1>8. ASSUME NEW e \in Events, NEW hash \in Events \cup {NoHash}, Repoint(e, hash)
      PROVE TypeOK'
  BY <1>5, <1>8 DEF Repoint
<1>9. CASE UNCHANGED vars
  BY <1>9 DEF vars, TypeOK, Stored
<1> QED
  BY <1>1, <1>2, <1>3, <1>4, <1>6, <1>7, <1>8, <1>9 DEF Next

\* The state is well typed in every reachable state.
THEOREM TypeCorrect == Spec => []TypeOK
BY TypeInit, TypeStep, PTL DEF Spec

-----------------------------------------------------------------------------
(* What a step does to the chained rows while nobody touches the table.    *)

SameChain == Chained' = Chained /\ \A f \in Chained : rows'[f] = rows[f]

LEMMA InsertedRow ==
    ASSUME TypeOK, NEW a \in Appenders, Insert(a)
    PROVE  /\ appending[a] \in Events \ Chained
           /\ Chained' = Chained \cup {appending[a]}
           /\ \A f \in Chained : rows'[f] = rows[f]
           /\ rows'[appending[a]].prior = seen[a]
           /\ rows'[appending[a]].genuine
<1> DEFINE record == [chained |-> TRUE, prior |-> seen[a], genuine |-> TRUE]
<1>1. rows' = WithRow(appending[a], record) /\ appending[a] \notin Stored
  BY DEF Insert
<1>2. record.chained /\ record.genuine /\ record.prior = seen[a]
  OBVIOUS
<1>3. appending[a] \in Events
  BY DEF Insert, Open, TypeOK
<1> HIDE DEF record
<1>4. /\ Stored' = Stored \cup {appending[a]}
      /\ rows'[appending[a]] = record
      /\ \A f \in Stored \ {appending[a]} : rows'[f] = rows[f]
  BY <1>1, WithRowIs
<1> QED
  BY <1>1, <1>2, <1>3, <1>4 DEF Chained

LEMMA ChainStep ==
    ASSUME TypeOK, [Next]_vars, changes' = 0
    PROVE  /\ changes = 0
           /\ (\E a \in Appenders : Insert(a)) \/ SameChain
<1> USE ChainAssumption
<1>1. ASSUME NEW newRows, Change(newRows) PROVE FALSE
  BY <1>1 DEF Change, TypeOK
<1>2. ASSUME NEW e \in Events, Edit(e) \/ Delete(e) PROVE FALSE
  BY <1>1, <1>2 DEF Edit, Delete
<1>3. ASSUME NEW e \in Events, NEW hash \in Events \cup {NoHash}, Repoint(e, hash)
      PROVE FALSE
  BY <1>1, <1>3 DEF Repoint
<1>4. ASSUME NEW a \in Appenders, NEW e \in Events, ReadTail(a, e)
      PROVE changes = 0 /\ SameChain
  BY <1>4 DEF ReadTail, SameChain, Chained, Stored
<1>5. ASSUME NEW a \in Appenders, Insert(a) PROVE changes = 0
  BY <1>5 DEF Insert, Close
<1>6. ASSUME NEW a \in Appenders, Rejected(a) PROVE changes = 0 /\ SameChain
  BY <1>6 DEF Rejected, Close, SameChain, Chained, Stored
<1>7. ASSUME NEW e \in Events, InsertUnchained(e) PROVE changes = 0 /\ SameChain
  <2> DEFINE record == [chained |-> FALSE, prior |-> NoHash, genuine |-> TRUE]
  <2>1. rows' = WithRow(e, record) /\ e \notin Stored /\ changes = 0
    BY <1>7 DEF InsertUnchained
  <2>2. ~record.chained
    OBVIOUS
  <2> HIDE DEF record
  <2>3. /\ Stored' = Stored \cup {e}
        /\ rows'[e] = record
        /\ \A f \in Stored \ {e} : rows'[f] = rows[f]
    BY <2>1, WithRowIs
  <2> QED
    BY <2>1, <2>2, <2>3 DEF SameChain, Chained
<1>8. CASE UNCHANGED vars
  BY <1>8 DEF vars, SameChain, Chained, Stored
<1> QED
  BY <1>2, <1>3, <1>4, <1>5, <1>6, <1>7, <1>8 DEF Next

-----------------------------------------------------------------------------
(* Two parts of IntactList hold whether or not appends overlap.            *)

Links ==
    /\ \A e \in Chained : rows[e].genuine /\ rows[e].prior \in Chained \cup {NoHash}
    /\ \A part \in (SUBSET Chained) \ {{}} : \E e \in part : rows[e].prior \notin part

Linked ==
    changes = 0 =>
        /\ Links
        /\ \A a \in Appenders : seen[a] \in Chained \cup {NoHash}

LEMMA LinksStep ==
    ASSUME TypeOK, [Next]_vars, changes' = 0, Linked
    PROVE  Links'
<1>1. changes = 0 /\ ((\E a \in Appenders : Insert(a)) \/ SameChain)
  BY ChainStep
<1>2. CASE SameChain
  BY <1>1, <1>2 DEF SameChain, Linked, Links
<1>3. ASSUME NEW a \in Appenders, Insert(a) PROVE Links'
  <2> DEFINE e == appending[a]
  <2>1. /\ e \in Events \ Chained
        /\ Chained' = Chained \cup {e}
        /\ \A f \in Chained : rows'[f] = rows[f]
        /\ rows'[e].prior = seen[a]
        /\ rows'[e].genuine
    BY <1>3, InsertedRow
  <2>2. e # NoHash
    BY <2>1, ChainAssumption
  <2>3. seen[a] \in Chained \cup {NoHash} /\ Links
    BY <1>1 DEF Linked
  <2> HIDE DEF e
  <2>4. \A f \in Chained' : rows'[f].genuine /\ rows'[f].prior \in Chained' \cup {NoHash}
    BY <2>1, <2>3 DEF Links
  <2>5. ASSUME NEW part \in SUBSET Chained', part # {}
        PROVE \E f \in part : rows'[f].prior \notin part
    <3>1. CASE part \ {e} = {}
      BY <2>1, <2>2, <2>3, <2>5, <3>1
    <3>2. CASE part \ {e} # {}
      <4>1. part \ {e} \in SUBSET Chained
        BY <2>1
      <4>2. PICK f \in part \ {e} : rows[f].prior \notin part \ {e}
        BY <2>3, <3>2, <4>1 DEF Links
      <4>3. rows[f].prior # e
        BY <2>1, <2>2, <2>3, <4>1 DEF Links
      <4> QED
        BY <2>1, <4>1, <4>2, <4>3
    <3> QED
      BY <3>1, <3>2
  <2> QED
    BY <2>4, <2>5 DEF Links
<1> QED
  BY <1>1, <1>2, <1>3

LEMMA LinkedStep == TypeOK /\ Linked /\ [Next]_vars => Linked'
<1> SUFFICES ASSUME TypeOK, Linked, [Next]_vars, changes' = 0, NEW a \in Appenders
             PROVE  seen'[a] \in Chained' \cup {NoHash}
  BY LinksStep DEF Linked
<1>1. changes = 0 /\ Chained \subseteq Chained'
  BY ChainStep, InsertedRow DEF SameChain
<1>2. seen[a] \in Chained \cup {NoHash}
  BY <1>1 DEF Linked
<1>3. seen' = seen \/ seen'[a] \in Chained \cup {NoHash, seen[a]}
  <2>1. ASSUME NEW b \in Appenders, NEW e \in Events, ReadTail(b, e)
        PROVE seen'[a] \in Chained \cup {NoHash, seen[a]}
    BY <2>1 DEF ReadTail, Tails, TypeOK
  <2>2. ASSUME NEW b \in Appenders, Insert(b) \/ Rejected(b)
        PROVE seen'[a] \in Chained \cup {NoHash, seen[a]}
    BY <2>2 DEF Insert, Rejected, Close, TypeOK
  <2> QED
    BY <2>1, <2>2 DEF Next, InsertUnchained, Edit, Delete, Repoint, Change, vars
<1> QED
  BY <1>1, <1>2, <1>3

LEMMA LinkedInit == Init => Linked
<1> SUFFICES ASSUME Init PROVE Linked
  OBVIOUS
<1>1. Chained = {}
  BY DEF Init, Chained, Stored
<1> QED
  BY <1>1 DEF Init, Linked, Links

\* A fork is a fork for good: no step of the sink mends the list.
THEOREM ForksStay == Spec => NeverHealed
<1>1. ASSUME TypeOK, Linked, [Next]_vars
      PROVE  ~IntactList /\ changes' = 0 => ~IntactList'
  <2> SUFFICES ASSUME ~IntactList, changes' = 0 PROVE ~IntactList'
    OBVIOUS
  <2>1. changes = 0
    BY <1>1, ChainStep
  <2>2. Links
    BY <2>1, <1>1 DEF Linked
  <2>3. PICK e \in Chained, f \in Chained : rows[e].prior = rows[f].prior /\ e # f
    BY <2>2 DEF IntactList, Links
  <2>4. e \in Chained' /\ f \in Chained' /\ rows'[e] = rows[e] /\ rows'[f] = rows[f]
    BY <1>1, <2>3, ChainStep, InsertedRow DEF SameChain
  <2> QED
    BY <2>3, <2>4 DEF IntactList
<1> QED
  BY <1>1, TypeInit, TypeStep, LinkedInit, LinkedStep, PTL DEF Spec, NeverHealed

-----------------------------------------------------------------------------
(* Without overlap the list has one tail, and an open append has read it.  *)

Straight ==
    ~overlapped /\ changes = 0 =>
        /\ \A e, f \in Chained : rows[e].prior = rows[f].prior => e = f
        /\ Chained = {} \/ \E tail \in Chained : Tails = {tail}
        /\ \A a, b \in Appenders : Open(a) /\ Open(b) => a = b
        /\ \A a \in Appenders : Open(a) =>
              IF Chained = {} THEN seen[a] = NoHash ELSE Tails = {seen[a]}

LEMMA StraightStep ==
    TypeOK /\ Linked /\ Straight /\ [Next]_vars => Straight'
<1> SUFFICES ASSUME TypeOK, Linked, Straight, [Next]_vars, ~overlapped', changes' = 0
             PROVE  Straight'
  BY DEF Straight
<1>1. changes = 0
  BY ChainStep
<1>2. ~overlapped
  BY DEF Next, ReadTail, Insert, Rejected, Close, InsertUnchained, Edit, Delete,
         Repoint, Change, vars
<1>3. Links /\ \A a \in Appenders : seen[a] \in Chained \cup {NoHash}
  BY <1>1 DEF Linked
<1>4. /\ \A e, f \in Chained : rows[e].prior = rows[f].prior => e = f
      /\ Chained = {} \/ \E tail \in Chained : Tails = {tail}
      /\ \A a, b \in Appenders : Open(a) /\ Open(b) => a = b
      /\ \A a \in Appenders : Open(a) =>
            IF Chained = {} THEN seen[a] = NoHash ELSE Tails = {seen[a]}
  BY <1>1, <1>2 DEF Straight
<1>5. SameChain => /\ Tails' = Tails
                   /\ \A e, f \in Chained' : rows'[e].prior = rows'[f].prior => e = f
                   /\ Chained' = {} \/ \E tail \in Chained' : Tails' = {tail}
  BY <1>4 DEF SameChain, Tails, Citing
<1>6. ASSUME NEW a \in Appenders, NEW e \in Events, ReadTail(a, e) PROVE Straight'
  <2>1. SameChain
    BY <1>6 DEF ReadTail, SameChain, Chained, Stored
  <2>2. \A b \in Appenders : ~Open(b)
    BY <1>6 DEF ReadTail
  <2>3. \A b \in Appenders : Open(b)' => b = a
    BY <1>6, <2>2 DEF ReadTail, Open, TypeOK
  <2>4. IF Chained = {} THEN seen'[a] = NoHash ELSE Tails = {seen'[a]}
    BY <1>4, <1>6 DEF ReadTail, TypeOK, Tails
  <2> QED
    BY <1>5, <2>1, <2>3, <2>4 DEF Straight, SameChain
<1>7. ASSUME NEW a \in Appenders, Rejected(a) PROVE Straight'
  <2>1. SameChain
    BY <1>7 DEF Rejected, SameChain, Chained, Stored
  <2>2. \A b \in Appenders : Open(b)' => Open(b) /\ seen'[b] = seen[b]
    BY <1>7 DEF Rejected, Close, Open, TypeOK
  <2> QED
    BY <1>4, <1>5, <2>1, <2>2 DEF Straight, SameChain
<1>8. CASE SameChain /\ UNCHANGED <<appending, seen>>
  BY <1>4, <1>5, <1>8 DEF Straight, SameChain, Open
<1>9. ASSUME NEW a \in Appenders, Insert(a) PROVE Straight'
  <2> DEFINE e == appending[a]
  <2>1. /\ e \in Events \ Chained
        /\ Chained' = Chained \cup {e}
        /\ \A f \in Chained : rows'[f] = rows[f]
        /\ rows'[e].prior = seen[a]
    BY <1>9, InsertedRow
  <2>2. e # NoHash
    BY <2>1, ChainAssumption
  <2>3. Open(a) /\ \A b \in Appenders : ~Open(b)'
    BY <1>4, <1>9 DEF Insert, Close, Open, TypeOK
  <2> HIDE DEF e
  <2>4. \A f \in Chained : rows[f].prior # seen[a]
    BY <1>3, <1>4, <2>3 DEF Tails, Citing, Links
  <2>5. \A f, g \in Chained' : rows'[f].prior = rows'[g].prior => f = g
    BY <1>4, <2>1, <2>4
  <2>6. \A f \in Chained' : rows'[f].prior # e
    BY <1>3, <2>1, <2>2 DEF Links
  <2>7. \A f \in Chained : f \in Tails => f = seen[a]
    BY <1>4, <2>3
  <2>8. Tails' = {e}
    <3>1. e \in Tails'
      BY <2>1, <2>6 DEF Tails, Citing
    <3>2. ASSUME NEW f \in Chained PROVE f \notin Tails'
      <4>1. CASE f = seen[a]
        BY <2>1, <4>1 DEF Tails, Citing
      <4>2. CASE f # seen[a]
        <5>1. PICK g \in Chained : rows[g].prior = f
          BY <2>7, <4>2 DEF Tails, Citing
        <5> QED
          BY <2>1, <5>1 DEF Tails, Citing
      <4> QED
        BY <4>1, <4>2
    <3> QED
      BY <2>1, <3>1, <3>2 DEF Tails
  <2> QED
    BY <2>1, <2>3, <2>5, <2>8 DEF Straight
<1>10. ASSUME NEW e \in Events, InsertUnchained(e) PROVE UNCHANGED <<appending, seen>>
  BY <1>10 DEF InsertUnchained
<1>11. (\E a \in Appenders : Insert(a)) \/ SameChain
  BY ChainStep
<1>12. \/ \E a \in Appenders : (\E e \in Events : ReadTail(a, e)) \/ Insert(a) \/ Rejected(a)
       \/ UNCHANGED <<appending, seen>>
  BY <1>10 DEF Next, Edit, Delete, Repoint, Change, vars
<1> QED
  BY <1>6, <1>7, <1>8, <1>9, <1>11, <1>12

LEMMA StraightInit == Init => Straight
BY DEF Init, Straight, Chained, Stored, Open

\* Appends that do not overlap make one intact list, for any number of events
\* and appenders, in whatever order the events are stamped.
THEOREM OneList == Spec => []AppendsMakeOneList
<1>1. Linked /\ Straight => AppendsMakeOneList
  BY DEF Linked, Links, Straight, AppendsMakeOneList, IntactList
<1> QED
  BY <1>1, TypeInit, TypeStep, LinkedInit, LinkedStep, StraightInit, StraightStep,
     PTL DEF Spec

-----------------------------------------------------------------------------
(* The walk.  Each iteration follows from the one before it.               *)

LEMMA WalkFollows ==
    ASSUME TypeOK
    PROVE  /\ IsFiniteSet(Chained) /\ Cardinality(Chained) \in Nat
           /\ \A n \in 1..Cardinality(Chained) : current[n] \subseteq Chained
           /\ 1 \in 1..Cardinality(Chained) => current[1] = Citing(NoHash)
           /\ \A n \in 2..Cardinality(Chained) : \A f \in current[n] :
                 \E e \in Chained : /\ current[n - 1] = {e} /\ rows[e].genuine
                                    /\ current[n] = Citing(e)
           /\ \A n \in 1..Cardinality(Chained), e \in Chained :
                 /\ n # Cardinality(Chained) /\ current[n] = {e} /\ rows[e].genuine
                 => current[n + 1] = Citing(e)
<1> DEFINE
      N == Cardinality(Chained)
      Next1(S) == IF GoesOn(S) THEN UNION {Citing(e) : e \in S} ELSE {}
      F == [n \in 1..N |-> [S \in SUBSET Chained |->
              IF n = 1 THEN Citing(NoHash) ELSE Next1(S)]]
<1>1. IsFiniteSet(Chained) /\ N \in Nat
  BY FS_Subset, FS_CardinalityType DEF TypeOK, Chained
<1>2. \A S \in SUBSET Chained : Next1(S) \in SUBSET Chained /\ Citing(NoHash) \in SUBSET Chained
  BY DEF Citing
<1>3. F \in [1..N -> [SUBSET Chained -> SUBSET Chained]]
  <2> HIDE DEF Next1, N
  <2> QED
    BY <1>2
<1>4. PICK g \in [0..N -> SUBSET Chained] : \A n \in 1..N : g[n] = F[n][g[n - 1]]
  <2> DEFINE D == SUBSET Chained
             a == Citing(NoHash)
  <2>1. N \in Nat /\ a \in D /\ F \in StepFunctions(N, D)
    BY <1>1, <1>2, <1>3 DEF StepFunctions
  <2> HIDE DEF F, N, D, a
  <2>2. HasRun(N, D, a, F)
    BY <2>1, StepsExist
  <2> QED
    BY <2>2 DEF D, HasRun
<1>5. \A n \in 1..N : /\ n - 1 \in 0..N /\ n \in 0..N
                      /\ g[n] = IF n = 1 THEN Citing(NoHash) ELSE Next1(g[n - 1])
  <2>1. \A n \in 1..N, S \in SUBSET Chained :
           F[n][S] = IF n = 1 THEN Citing(NoHash) ELSE Next1(S)
    <3> HIDE DEF Next1, N
    <3> QED
      OBVIOUS
  <2>2. \A n \in 1..N : n - 1 \in 0..N /\ n \in 0..N
    <3> HIDE DEF N
    <3> QED
      BY <1>1
  <2> HIDE DEF Next1, N, F
  <2> QED
    BY <1>4, <2>1, <2>2
<1> HIDE DEF F
<1>6. current = [n \in 1..N |-> IF n = 1 THEN Citing(NoHash) ELSE Next1(current[n - 1])]
  <2> DEFINE f == [n \in 1..N |-> g[n]]
  <2>1. f = [n \in 1..N |-> IF n = 1 THEN Citing(NoHash) ELSE Next1(f[n - 1])]
    <3>1. ASSUME NEW n \in 1..N PROVE f[n] = IF n = 1 THEN Citing(NoHash) ELSE Next1(f[n - 1])
      <4>1. CASE n = 1
        BY <1>5, <4>1
      <4>2. CASE n # 1
        <5>1. n - 1 \in 1..N
          BY <1>1, <4>2
        <5>2. f[n - 1] = g[n - 1] /\ f[n] = g[n]
          BY <5>1
        <5> HIDE DEF f, Next1, N
        <5> QED
          BY <1>5, <4>2, <5>2
      <4> QED
        BY <4>1, <4>2
    <3> HIDE DEF Next1, N
    <3> QED
      BY <3>1
  <2>2. \E h : h = [n \in 1..Cardinality(Chained) |->
                       IF n = 1 THEN Citing(NoHash)
                       ELSE LET before == h[n - 1]
         IN  IF GoesOn(before) THEN UNION {Citing(e) : e \in before} ELSE {}]
    <3> HIDE DEF f
    <3> QED
      BY <2>1, Zenon
  <2> QED
    BY <2>2, Zenon DEF current
<1>7. \A n \in 1..N : current[n] = IF n = 1 THEN Citing(NoHash) ELSE Next1(current[n - 1])
  <2> HIDE DEF Next1, N
  <2> QED
    BY <1>6
<1>8. \A S : Next1(S) \subseteq Chained /\ \A e \in Chained : S = {e} /\ rows[e].genuine => Next1(S) = Citing(e)
  BY DEF Citing, GoesOn
<1>9. \A S : Next1(S) # {} => \E e \in Chained : S = {e} /\ rows[e].genuine
  BY DEF GoesOn
<1> HIDE DEF Next1
<1>10. \A n \in 1..N : current[n] \subseteq Chained
  <2> HIDE DEF N
  <2>1. Citing(NoHash) \subseteq Chained
    BY DEF Citing
  <2> QED
    BY <1>7, <1>8, <2>1
<1>11. ASSUME NEW n \in 2..N, NEW f \in current[n]
       PROVE  \E e \in Chained : current[n - 1] = {e} /\ rows[e].genuine /\ current[n] = Citing(e)
  <2>1. current[n] = Next1(current[n - 1])
    BY <1>1, <1>7
  <2> QED
    BY <1>8, <1>9, <1>11, <2>1
<1>12. ASSUME NEW n \in 1..N, NEW e \in Chained, n # N, current[n] = {e}, rows[e].genuine
       PROVE  current[n + 1] = Citing(e)
  <2>1. n + 1 \in 1..N /\ n + 1 # 1 /\ (n + 1) - 1 = n
    BY <1>1, <1>12
  <2>2. current[n + 1] = Next1(current[n])
    BY <1>7, <2>1
  <2> QED
    BY <1>8, <1>12, <2>2
<1> QED
  BY <1>1, <1>7, <1>10, <1>11, <1>12

Places == 1..Cardinality(Chained)

\* The walk comes to no row twice: the row before would have been met twice as well.
LEMMA MetOnce ==
    ASSUME TypeOK, NEW n \in Places, NEW m \in Places, NEW e \in current[n] \cap current[m]
    PROVE  n = m
<1> DEFINE again == {k \in Places : \E j \in Places : j # k /\ current[k] \cap current[j] # {}}
<1>1. SUFFICES ASSUME again # {} PROVE FALSE
  OBVIOUS
<1>2. Cardinality(Chained) \in Nat
  BY WalkFollows
<1>3. PICK k \in again : \A j \in again : k <= j
  <2>1. again \in SUBSET Nat
    BY <1>2 DEF Places
  <2> HIDE DEF again
  <2> QED
    BY <1>1, <2>1, LeastNat
<1>4. PICK j \in Places : j # k /\ current[k] \cap current[j] # {}
  OBVIOUS
<1>5. k \in Places /\ j \in again
  BY <1>4
<1>6. k < j /\ j \in 2..Cardinality(Chained)
  <2>1. k <= j
    <3> HIDE DEF again
    <3> QED
      BY <1>3, <1>5
  <2> QED
    BY <1>2, <1>4, <1>5, <2>1 DEF Places
<1>7. PICK f \in current[k] \cap current[j] : TRUE
  BY <1>4
<1>8. PICK d \in Chained : current[j - 1] = {d} /\ current[j] = Citing(d)
  BY <1>6, <1>7, WalkFollows
<1>9. f \in Chained /\ rows[f].prior = d /\ d # NoHash
  BY <1>7, <1>8, ChainAssumption DEF Citing, TypeOK, Chained
<1>10. CASE k = 1
  BY <1>5, <1>7, <1>9, <1>10, WalkFollows DEF Places, Citing
<1>11. CASE k # 1
  <2>1. k \in 2..Cardinality(Chained) /\ k - 1 \in Places /\ j - 1 \in Places /\ k - 1 # j - 1
        /\ ~(k <= k - 1)
    BY <1>2, <1>4, <1>5, <1>6, <1>11 DEF Places
  <2>2. PICK b \in Chained : current[k - 1] = {b} /\ current[k] = Citing(b)
    BY <1>7, <2>1, WalkFollows
  <2>3. b = d
    BY <1>7, <1>9, <2>2 DEF Citing
  <2>4. k - 1 \in again
    BY <1>8, <2>1, <2>2, <2>3
  <2> HIDE DEF again
  <2> QED
    BY <1>3, <2>1, <2>4
<1> QED
  BY <1>10, <1>11

\* Two of the three parts of IntactList that say where rows hang.
Anchored ==
    /\ \A e \in Chained : rows[e].prior \in Chained \cup {NoHash}
    /\ \A part \in (SUBSET Chained) \ {{}} : \E e \in part : rows[e].prior \notin part

\* A walk that meets no break meets every row: one it missed would hang below the last
\* row it came to, and then it has come to as many rows as there are.
LEMMA WalkReaches ==
    ASSUME TypeOK, Anchored, \A n \in Places : current[n] # {} => GoesOn(current[n])
    PROVE  UNION Walk = Chained
<1> DEFINE N == Cardinality(Chained)
           missed == Chained \ UNION Walk
<1>1. /\ IsFiniteSet(Chained) /\ N \in Nat
      /\ \A n \in Places : current[n] \subseteq Chained
  BY WalkFollows DEF Places
<1>2. UNION Walk \subseteq Chained
  BY <1>1 DEF Walk, Places
<1>3. SUFFICES ASSUME missed # {} PROVE FALSE
  BY <1>2
<1>4. PICK e \in missed : rows[e].prior \notin missed
  BY <1>3 DEF Anchored
<1>5. e \in Chained /\ \A n \in Places : e \notin current[n]
  BY DEF Walk, Places
<1>6. N # 0
  BY <1>1, <1>5, FS_EmptySet
<1>7. rows[e].prior # NoHash
  BY <1>1, <1>5, <1>6, WalkFollows DEF Places, Citing
<1>8. PICK d \in Chained : d = rows[e].prior /\ d \in UNION Walk
  BY <1>4, <1>5, <1>7 DEF Anchored
<1>9. PICK n \in Places : d \in current[n]
  BY <1>8 DEF Walk, Places
<1>10. current[n] = {d} /\ rows[d].genuine
  BY <1>9 DEF GoesOn
<1>11. n = N
  <2>1. n # N => current[n + 1] = Citing(d) /\ n + 1 \in Places
    BY <1>1, <1>10, WalkFollows DEF Places
  <2> QED
    BY <1>5, <1>8, <2>1 DEF Citing
<1>12. ASSUME NEW k \in Places, current[k] = {} PROVE FALSE
  <2> DEFINE ended == {j \in Places : current[j] = {}}
  <2>1. ended \in SUBSET Nat /\ IsFiniteSet(ended)
    <3>1. IsFiniteSet(1..N)
      BY <1>1, FS_Interval
    <3> QED
      BY <1>1, <3>1, FS_Subset DEF Places
  <2>2. ended # {}
    BY <1>12
  <2>3. PICK j \in ended : \A i \in ended : i <= j
    <3> HIDE DEF ended
    <3> QED
      BY <2>1, <2>2, GreatestNat
  <2>4. j \in Places /\ current[j] = {} /\ j # N
    BY <1>10, <1>11
  <2>5. j + 1 \in 2..N /\ j + 1 \in Places /\ (j + 1) - 1 = j /\ ~(j + 1 <= j)
    BY <1>1, <2>4 DEF Places
  <2>6. current[j + 1] # {}
    <3>1. j + 1 \notin ended
      <4> HIDE DEF ended
      <4> QED
        BY <2>3, <2>5
    <3> QED
      BY <2>5, <3>1
  <2> QED
    BY <2>4, <2>5, <2>6, WalkFollows
<1> DEFINE place == [k \in Places |-> CHOOSE f : f \in current[k]]
<1>13. \A k \in Places : place[k] \in current[k]
  BY <1>12
<1>14. place \in Injection(1..N, Chained)
  <2>1. place \in [Places -> Chained]
    BY <1>1, <1>13
  <2>2. ASSUME NEW j \in Places, NEW k \in Places, place[j] = place[k] PROVE j = k
    BY <1>13, <2>2, MetOnce
  <2> HIDE DEF place
  <2> QED
    BY <2>1, <2>2 DEF Injection, IsInjective, Places
<1>15. place \in Surjection(1..N, Chained)
  <2>1. Cardinality(1..N) = N
    BY <1>1, FS_Interval
  <2> HIDE DEF place
  <2> QED
    BY <1>1, <1>14, <2>1, FS_Injection
<1>16. PICK k \in Places : place[k] = e
  <2> HIDE DEF place
  <2> QED
    BY <1>5, <1>15 DEF Surjection, Places
<1> QED
  BY <1>5, <1>13, <1>16

\* What the verifier reports is empty exactly when the walk goes on to its end and has
\* met every row then.
LEMMA VerifiedIs ==
    ASSUME TypeOK
    PROVE  Verified <=> /\ \A n \in Places : current[n] # {} => GoesOn(current[n])
                        /\ UNION Walk = Chained
<1>1. Breaks(Walk) = {} <=> \A n \in Places : current[n] # {} => GoesOn(current[n])
  BY DEF Breaks, Walk, Places
<1>2. UNION Breaks(Walk) = {} <=> Breaks(Walk) = {}
  BY DEF Breaks
<1>3. UNION Walk # Chained => Earliest # {}
  <2>1. UNION Walk \subseteq Chained
    BY WalkFollows DEF Walk
  <2>2. Chained \in SUBSET Nat
    BY ChainAssumption DEF TypeOK, Chained
  <2>3. Chained # {} => Earliest # {}
    BY <2>2, LeastNat DEF Earliest
  <2> QED
    BY <2>1, <2>3
<1> QED
  BY <1>1, <1>2, <1>3 DEF Verified, Blamed

NoForks == \A e, f \in Chained : rows[e].prior = rows[f].prior => e = f

\* Without forks each iteration comes to one row at most.
LEMMA SinglePlaces ==
    ASSUME TypeOK, NoForks, NEW n \in Places, NEW e \in current[n]
    PROVE  e \in Chained /\ current[n] = {e}
<1>1. Cardinality(Chained) \in Nat /\ e \in Chained
  BY WalkFollows DEF Places
<1>2. \A hash : \A f, g \in Citing(hash) : f = g
  BY DEF NoForks, Citing
<1>3. CASE n = 1
  BY <1>1, <1>2, <1>3, WalkFollows DEF Places
<1>4. CASE n # 1
  <2>1. n \in 2..Cardinality(Chained)
    BY <1>1, <1>4 DEF Places
  <2>2. \E d \in Chained : current[n] = Citing(d)
    BY <2>1, WalkFollows
  <2> QED
    BY <1>1, <1>2, <2>2
<1> QED
  BY <1>3, <1>4

\* The verdict is right on every table, whatever has become of it.
LEMMA VerdictHolds == TypeOK => VerdictIsRight
<1> SUFFICES ASSUME TypeOK PROVE Verified <=> IntactList
  BY DEF VerdictIsRight
<1>1. Cardinality(Chained) \in Nat
  BY WalkFollows
<1>2. IntactList <=> Anchored /\ NoForks /\ \A e \in Chained : rows[e].genuine
  BY DEF IntactList, Anchored, NoForks
<1>3. ASSUME Verified PROVE IntactList
  <2>1. /\ \A n \in Places : current[n] # {} => GoesOn(current[n])
        /\ UNION Walk = Chained
    BY <1>3, VerifiedIs
  <2>2. \A n \in Places : \A e \in current[n] : current[n] = {e} /\ rows[e].genuine
    BY <2>1 DEF GoesOn
  <2>3. \A e \in Chained : \E n \in Places : e \in current[n]
    BY <2>1 DEF Walk, Places
  <2>4. \A e \in Chained : rows[e].genuine
    BY <2>2, <2>3
  <2>5. ASSUME NEW n \in Places, NEW e \in current[n]
        PROVE  \/ n = 1 /\ current[n] = Citing(NoHash) /\ rows[e].prior = NoHash
               \/ \E d \in Chained : /\ n - 1 \in Places /\ current[n - 1] = {d}
                                     /\ current[n] = Citing(d) /\ rows[e].prior = d
    <3>1. CASE n = 1
      BY <2>5, <3>1, WalkFollows DEF Places, Citing
    <3>2. CASE n # 1
      <4>1. n \in 2..Cardinality(Chained) /\ n - 1 \in Places
        BY <1>1, <3>2 DEF Places
      <4> QED
        BY <2>5, <4>1, WalkFollows DEF Citing
    <3> QED
      BY <3>1, <3>2
  <2>6. \A d \in Chained : d # NoHash
    BY ChainAssumption DEF TypeOK, Chained
  <2>7. NoForks
    <3> SUFFICES ASSUME NEW e \in Chained, NEW f \in Chained, rows[e].prior = rows[f].prior
                 PROVE  e = f
      BY DEF NoForks
    <3>1. PICK n \in Places : e \in current[n]
      BY <2>3
    <3>2. f \in current[n]
      <4>1. \E hash : current[n] = Citing(hash) /\ rows[e].prior = hash
        BY <2>5, <3>1
      <4> QED
        BY <4>1 DEF Citing
    <3> QED
      BY <2>2, <3>1, <3>2
  <2>8. \A e \in Chained : rows[e].prior \in Chained \cup {NoHash}
    BY <2>3, <2>5
  <2>9. ASSUME NEW part \in SUBSET Chained, part # {} PROVE \E e \in part : rows[e].prior \notin part
    <3> DEFINE places == {n \in Places : current[n] \cap part # {}}
    <3>1. places # {} /\ places \in SUBSET Nat
      BY <1>1, <2>3, <2>9 DEF Places
    <3>2. PICK n \in places : \A m \in places : n <= m
      <4> HIDE DEF places
      <4> QED
        BY <3>1, LeastNat
    <3>3. PICK e \in current[n] \cap part : TRUE
      OBVIOUS
    <3>4. n \in Nat /\ ~(n <= n - 1)
      BY <3>1
    <3>5. n - 1 \notin places
      <4> HIDE DEF places
      <4> QED
        BY <3>2, <3>4
    <3> QED
      BY <2>5, <2>6, <3>3, <3>5
  <2> QED
    BY <1>2, <2>4, <2>7, <2>8, <2>9 DEF Anchored
<1>4. ASSUME IntactList PROVE Verified
  <2>1. \A n \in Places : current[n] # {} => GoesOn(current[n])
    BY <1>2, <1>4, SinglePlaces DEF GoesOn
  <2> QED
    BY <1>2, <1>4, <2>1, WalkReaches, VerifiedIs
<1> QED
  BY <1>3, <1>4

\* An otherwise intact list in which e does not recompute to its hash.
OnlyFlaw(e) == Anchored /\ NoForks /\ \A f \in Chained : rows[f].genuine <=> f # e

FlawsAreNamed == \A e \in Chained : OnlyFlaw(e) => Blamed = {e}

\* The walk comes to that row, breaks there and nowhere else.
LEMMA FlawsHold == TypeOK => FlawsAreNamed
<1> SUFFICES ASSUME TypeOK, NEW e \in Chained, OnlyFlaw(e) PROVE Blamed = {e}
  BY DEF FlawsAreNamed
<1>1. \A n \in Places : \A f \in current[n] : f \in Chained /\ current[n] = {f}
  BY SinglePlaces DEF OnlyFlaw
<1>2. \A n \in Places : \A f \in current[n] : f # e => GoesOn(current[n])
  BY <1>1 DEF OnlyFlaw, GoesOn
<1>3. ~GoesOn({e})
  BY DEF OnlyFlaw, GoesOn
<1>4. PICK n \in Places : e \in current[n]
  <2>1. SUFFICES ASSUME \A n \in Places : e \notin current[n] PROVE FALSE
    OBVIOUS
  <2>2. \A n \in Places : current[n] # {} => GoesOn(current[n])
    BY <1>2, <2>1
  <2>3. UNION Walk = Chained
    BY <2>2, WalkReaches DEF OnlyFlaw
  <2> QED
    BY <2>1, <2>3 DEF Walk, Places
<1>5. {e} \in Breaks(Walk)
  BY <1>1, <1>3, <1>4 DEF Breaks, Walk, Places
<1>6. ASSUME NEW place \in Breaks(Walk) PROVE place = {e}
  <2>1. PICK m \in Places : place = current[m] /\ place # {} /\ ~GoesOn(place)
    BY <1>6 DEF Breaks, Walk, Places
  <2> QED
    BY <1>1, <1>2, <2>1
<1>7. Breaks(Walk) = {{e}}
  BY <1>5, <1>6
<1>8. UNION Breaks(Walk) = {e} /\ Breaks(Walk) # {}
  BY <1>7
<1> QED
  BY <1>8 DEF Blamed

\* The verifier says verified exactly of an intact list, whatever appends, overlaps and
\* changes behind the sink's back have made of the table.
THEOREM VerdictAlwaysRight == Spec => []VerdictIsRight
BY TypeCorrect, VerdictHolds, PTL

\* A row that is rewritten in place, with a hash that no longer fits.
LEMMA RewrittenRow ==
    ASSUME NEW e \in Chained, NEW hash,
           Change(WithRow(e, [chained |-> TRUE, prior |-> hash, genuine |-> FALSE]))
    PROVE  /\ Chained' = Chained
           /\ rows'[e].prior = hash /\ ~rows'[e].genuine
           /\ \A f \in Chained \ {e} : rows'[f] = rows[f]
<1> DEFINE record == [chained |-> TRUE, prior |-> hash, genuine |-> FALSE]
<1>1. rows' = WithRow(e, record) /\ e \in Stored
  BY DEF Change, Chained
<1>2. record.chained /\ ~record.genuine /\ record.prior = hash
  OBVIOUS
<1> HIDE DEF record
<1>3. /\ Stored' = Stored \cup {e}
      /\ rows'[e] = record
      /\ \A f \in Stored \ {e} : rows'[f] = rows[f]
  BY <1>1, WithRowIs
<1> QED
  BY <1>1, <1>2, <1>3 DEF Chained

\* An edited row of an intact trail is named, a moved one is noticed, and so is a deleted
\* one unless it was the last.
THEOREM ChangesLocated == Spec => ChangesAreLocated
<1> DEFINE Shown(e) ==
      /\ Edit(e) => Blamed' = {e}
      /\ (\E hash \in Events \cup {NoHash} : Repoint(e, hash)) => ~Verified'
      /\ Delete(e) => (Verified' <=> e \in Tails)
<1>1. ASSUME VerdictIsRight, VerdictIsRight', FlawsAreNamed', TypeOK, NEW e \in Chained, Verified
      PROVE  Shown(e)
  <2>1. IntactList /\ (Verified' <=> IntactList')
    BY <1>1 DEF VerdictIsRight
  <2>2. ASSUME Edit(e) PROVE Blamed' = {e}
    <3>1. /\ Chained' = Chained
          /\ rows'[e].prior = rows[e].prior /\ ~rows'[e].genuine
          /\ \A f \in Chained \ {e} : rows'[f] = rows[f]
      BY <2>2, RewrittenRow DEF Edit
    <3>2. \A f \in Chained : rows'[f].prior = rows[f].prior
      BY <3>1
    <3>3. Anchored' /\ NoForks'
      BY <2>1, <3>1, <3>2 DEF IntactList, Anchored, NoForks
    <3>4. OnlyFlaw(e)'
      BY <2>1, <3>1, <3>3 DEF IntactList, OnlyFlaw
    <3> QED
      BY <1>1, <3>1, <3>4 DEF FlawsAreNamed
  <2>3. ASSUME NEW hash \in Events \cup {NoHash}, Repoint(e, hash) PROVE ~Verified'
    <3>1. Chained' = Chained /\ ~rows'[e].genuine
      BY <2>3, RewrittenRow DEF Repoint
    <3> QED
      BY <2>1, <3>1 DEF IntactList
  <2>4. ASSUME Delete(e) PROVE Verified' <=> e \in Tails
    <3>1. Chained' = Chained \ {e} /\ \A f \in Chained \ {e} : rows'[f] = rows[f]
      BY <2>4 DEF Delete, Change, Chained, Stored
    <3>2. e # NoHash /\ rows[e].prior # e
      <4>1. {e} \in (SUBSET Chained) \ {{}}
        OBVIOUS
      <4>2. \E f \in {e} : rows[f].prior \notin {e}
        BY <2>1, <4>1 DEF IntactList
      <4> QED
        BY <1>1, <4>2, ChainAssumption DEF TypeOK, Chained
    <3>3. ASSUME e \in Tails PROVE IntactList'
      <4>1. \A f \in Chained' : rows'[f].genuine /\ rows'[f].prior \in Chained' \cup {NoHash}
        BY <2>1, <3>1, <3>3 DEF IntactList, Tails, Citing
      <4>2. \A f, g \in Chained' : rows'[f].prior = rows'[g].prior => f = g
        BY <2>1, <3>1 DEF IntactList
      <4>3. \A part \in (SUBSET Chained') \ {{}} : \E f \in part : rows'[f].prior \notin part
        BY <2>1, <3>1 DEF IntactList
      <4> QED
        BY <4>1, <4>2, <4>3 DEF IntactList
    <3>4. ASSUME e \notin Tails PROVE ~IntactList'
      <4>1. PICK f \in Chained : rows[f].prior = e
        BY <3>4 DEF Tails, Citing
      <4>2. f \in Chained' /\ rows'[f].prior = e /\ e \notin Chained'
        BY <3>1, <3>2, <4>1
      <4> QED
        BY <3>2, <4>2 DEF IntactList
    <3> QED
      BY <2>1, <3>3, <3>4
  <2> QED
    BY <2>2, <2>3, <2>4
<1> DEFINE Located == \A e \in Chained : Verified => Shown(e)
<1>2. VerdictIsRight /\ VerdictIsRight' /\ FlawsAreNamed' /\ TypeOK => Located
  BY <1>1
<1> QED
  BY <1>2, TypeCorrect, VerdictHolds, FlawsHold, PTL DEF ChangesAreLocated

=============================================================================

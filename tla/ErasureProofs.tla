---------------------------- MODULE ErasureProofs ----------------------------
(***************************************************************************)
(* Proofs about local erasures, for every schema, every plan and every     *)
(* number of calls, writers and faults.                                    *)
(***************************************************************************)
EXTENDS ErasureProperties, NaturalBounds, SequenceTheorems

USE DEF Tables, Strategies, Places, EventTypes, TombstoneStatuses

-----------------------------------------------------------------------------
(* Types.                                                                  *)

LEMMA TypeInit == Init => TypeOK
BY ErasureAssumption DEF Init, TypeOK

\* The end of a transaction leaves the state of every call well typed.
LEMMA CloseTyped ==
    ASSUME TypeOK, NEW c \in Calls, Close(c)
    PROVE  /\ place' \in [Calls -> Places]
           /\ subject' \in [Calls -> Subjects]
           /\ next' \in [Calls -> Tables]
           /\ wiped' \in [Calls -> SUBSET Rows]
           /\ anchors' \in [Calls -> SUBSET Rows]
           /\ writing' \in [Writers -> Rows \cup {NoRow}]
           /\ calls' \in 0..MaxCalls
BY ErasureAssumption DEF Close, Goto, TypeOK

\* An append to the trail is an event of the trail.
LEMMA AuditTyped ==
    ASSUME TypeOK, NEW c \in Calls, NEW type \in EventTypes, Audit(c, type)
    PROVE  trail' \in Seq([type : EventTypes, subject : Subjects])
<1> DEFINE Events == [type : EventTypes, subject : Subjects]
<1>1. Event(type, subject[c]) \in Events /\ trail \in Seq(Events)
  BY DEF Event, TypeOK
<1> HIDE DEF Events
<1>2. Append(trail, Event(type, subject[c])) \in Seq(Events)
  BY <1>1
<1> QED
  BY <1>2 DEF Audit, Events

LEMMA TypeStep == TypeOK /\ [Next]_vars => TypeOK'
<1> SUFFICES ASSUME TypeOK, [Next]_vars PROVE TypeOK'
  OBVIOUS
<1> USE ErasureAssumption DEF database, transaction, Goto
<1>1. ASSUME NEW c \in Calls, NEW s \in Subjects, EraseSubject(c, s) PROVE TypeOK'
  BY <1>1 DEF EraseSubject, TypeOK
<1>2. ASSUME NEW c \in Calls, LockTombstone(c) \/ EnqueueAndMark(c) PROVE TypeOK'
  BY <1>2 DEF LockTombstone, EnqueueAndMark, TypeOK
<1>3. ASSUME NEW c \in Calls, LockAnchors(c) PROVE TypeOK'
  BY <1>3 DEF LockAnchors, Anchors, TypeOK
<1>4. ASSUME NEW c \in Calls, Request(c) \/ LocalCompleted(c) PROVE TypeOK'
  BY <1>4, AuditTyped DEF Request, LocalCompleted, TypeOK
<1>5. ASSUME NEW c \in Calls, Step(c) PROVE TypeOK'
  <2>1. place' \in [Calls -> Places] /\ next' \in [Calls -> Tables]
    <3>1. next[c] # SubjectTable => next[c] + 1 \in Tables
      <4>1. next[c] \in Tables
        BY DEF TypeOK
      <4> QED
        BY <4>1
    <3>2. CASE next[c] = SubjectTable
      BY <1>5, <3>2 DEF Step, Advance, TypeOK
    <3>3. CASE next[c] # SubjectTable
      <4>1. next' = [next EXCEPT ![c] = next[c] + 1] /\ place' = place
        BY <1>5, <3>3 DEF Step, Advance
      <4> QED
        BY <3>1, <3>3, <4>1 DEF TypeOK
    <3> QED
      BY <3>2, <3>3
  <2>2. wiped' \in [Calls -> SUBSET Rows]
    BY <1>5 DEF Step, Targets, TypeOK
  <2>3. trail' \in Seq([type : EventTypes, subject : Subjects])
    BY <1>5, AuditTyped DEF Step
  <2> QED
    BY <1>5, <2>1, <2>2, <2>3 DEF Step, TypeOK
<1>6. ASSUME NEW c \in Calls, Commit(c) PROVE TypeOK'
  <2>1. stored' \subseteq Rows /\ personal' \subseteq stored'
    BY <1>6 DEF Commit, TypeOK
  <2>2. tombstone' \in [Subjects -> TombstoneStatuses] /\ owed' \in [Subjects -> Nat]
    BY <1>6 DEF Commit, TypeOK
  <2> QED
    BY <1>6, <2>1, <2>2, CloseTyped DEF Commit, TypeOK
<1>7. ASSUME NEW c \in Calls, StepFailed(c) \/ Refused(c) \/ RollBack(c) PROVE TypeOK'
  <2>1. Close(c) /\ UNCHANGED database
    BY <1>7 DEF StepFailed, Refused, RollBack
  <2>2. trail' \in Seq([type : EventTypes, subject : Subjects]) /\ faults' \in 0..MaxFaults
    <3>1. faults' \in 0..MaxFaults
      BY <1>7 DEF StepFailed, Refused, RollBack, TypeOK
    <3> QED
      BY <1>7, <3>1, AuditTyped DEF StepFailed, Refused, RollBack, TypeOK
  <2> QED
    BY <2>1, <2>2, CloseTyped DEF TypeOK
<1>8. ASSUME NEW w \in Writers, NEW r \in Rows, Insert(w, r) PROVE TypeOK'
  BY <1>8 DEF Insert, TypeOK
<1>9. ASSUME NEW w \in Writers, Inserted(w) PROVE TypeOK'
  BY <1>9 DEF Inserted, TypeOK
<1>10. CASE UNCHANGED vars
  BY <1>10 DEF vars, TypeOK
<1> QED
  BY <1>1, <1>2, <1>3, <1>4, <1>5, <1>6, <1>7, <1>8, <1>9, <1>10 DEF Next, Proceed

\* The state is well typed in every reachable state.
THEOREM TypeCorrect == Spec => []TypeOK
BY TypeInit, TypeStep, PTL DEF Spec

-----------------------------------------------------------------------------
(* Who holds what.                                                         *)

\* Where a call holds its tombstone, and where its steps are behind it.
Holding == Places \ {"idle", "locking"}
Stepped == {"enqueueing", "completing", "committing"}

\* Before its first step a call has wiped nothing, before LockAnchors it has no
\* subject row, and without a lock it never has one.
NothingEarly ==
    \A c \in Calls :
        /\ place[c] \in {"idle", "locking", "anchoring", "requesting"}
             => wiped[c] = {} /\ next[c] = 1
        /\ place[c] \in {"idle", "locking", "anchoring"} => anchors[c] = {}
        /\ ~Locking => anchors[c] = {} /\ place[c] \notin {"locking", "anchoring"}

\* A call wipes and locks rows of its own subject, and the subject rows it has locked
\* stay where they are.
OwnRows ==
    \A c \in Calls :
        /\ \A r \in wiped[c] : ownerOf[r] = subject[c]
        /\ \A r \in anchors[c] : /\ ownerOf[r] = subject[c] /\ tableOf[r] = SubjectTable
                                /\ r \in stored

\* A tombstone has one holder.
OneHolder ==
    \A c, d \in Calls :
        c # d /\ Locking /\ place[c] \in Holding /\ place[d] \in Holding
            => subject[c] # subject[d]

\* A row that is being inserted is not there yet, nobody else inserts it, and it does
\* not hang below a locked subject row.
OpenInserts ==
    \A w \in Writers : writing[w] # NoRow =>
        /\ writing[w] \notin stored
        /\ \A v \in Writers \ {w} : writing[v] # writing[w]
        /\ \A c \in Calls : parentOf[writing[w]] \notin anchors[c]

\* The tables that a call has been through.
Passed(c, t) == t < next[c] \/ place[c] \in Stepped

\* Once a call holds the subject's row, no row of a table it has been through escapes.
NoneEscapes ==
    \A c \in Calls : anchors[c] # {} =>
        \A r \in stored :
            ownerOf[r] = subject[c] /\ Passed(c, tableOf[r])
                => r \in wiped[c] \/ strategyOf[tableOf[r]] = "retain"

LockInv == NothingEarly /\ OwnRows /\ OneHolder /\ OpenInserts

\* A step of a call, and a step of the application.
CallStep(c) == (\E s \in Subjects : EraseSubject(c, s)) \/ Proceed(c) \/ StepFailed(c) \/ RollBack(c)
WriterStep(w) == (\E r \in Rows : Insert(w, r)) \/ Inserted(w)

LEMMA NextIs ==
    Next <=> (\E c \in Calls : CallStep(c)) \/ (\E w \in Writers : WriterStep(w))
BY DEF Next, CallStep, WriterStep

\* What a step of a call leaves as it is.
LEMMA OthersKeep ==
    ASSUME TypeOK, NEW c \in Calls, CallStep(c)
    PROVE  /\ writing' = writing /\ strategyOf' = strategyOf
           /\ \A d \in Calls \ {c} : /\ place'[d] = place[d] /\ subject'[d] = subject[d]
                                    /\ next'[d] = next[d] /\ wiped'[d] = wiped[d]
                                    /\ anchors'[d] = anchors[d]
<1> USE DEF Goto, database, transaction, TypeOK
<1>1. ASSUME NEW s \in Subjects, EraseSubject(c, s)
      PROVE  /\ writing' = writing /\ strategyOf' = strategyOf
             /\ \A d \in Calls \ {c} : /\ place'[d] = place[d] /\ subject'[d] = subject[d]
                                      /\ next'[d] = next[d] /\ wiped'[d] = wiped[d]
                                      /\ anchors'[d] = anchors[d]
  BY <1>1 DEF EraseSubject
<1>2. CASE LockTombstone(c) \/ LockAnchors(c) \/ Request(c) \/ EnqueueAndMark(c) \/ LocalCompleted(c)
  BY <1>2 DEF LockTombstone, LockAnchors, Request, EnqueueAndMark, LocalCompleted
<1>3. CASE Step(c)
  BY <1>3 DEF Step, Advance
<1>4. CASE Commit(c) \/ StepFailed(c) \/ Refused(c) \/ RollBack(c)
  BY <1>4 DEF Commit, StepFailed, Refused, RollBack, Close
<1> QED
  BY <1>1, <1>2, <1>3, <1>4 DEF CallStep, Proceed

\* What the application leaves as it is.
LEMMA CallsKeep ==
    ASSUME NEW w \in Writers, WriterStep(w)
    PROVE  UNCHANGED <<strategyOf, tombstone, owed, trail, place, subject, next, wiped, anchors>>
BY DEF WriterStep, Insert, Inserted, database, transaction

LEMMA NothingEarlyStep == TypeOK /\ NothingEarly /\ [Next]_vars => NothingEarly'
<1> SUFFICES ASSUME TypeOK, NothingEarly, [Next]_vars PROVE NothingEarly'
  OBVIOUS
<1>1. ASSUME NEW c \in Calls, CallStep(c) PROVE NothingEarly'
  <2> SUFFICES /\ place'[c] \in {"idle", "locking", "anchoring", "requesting"}
                    => wiped'[c] = {} /\ next'[c] = 1
               /\ place'[c] \in {"idle", "locking", "anchoring"} => anchors'[c] = {}
               /\ ~Locking => anchors'[c] = {} /\ place'[c] \notin {"locking", "anchoring"}
    BY <1>1, OthersKeep DEF NothingEarly
  <2> USE DEF Goto, database, transaction, TypeOK, NothingEarly
  <2>1. ASSUME NEW s \in Subjects, EraseSubject(c, s)
        PROVE  /\ place'[c] \in {"idle", "locking", "anchoring", "requesting"}
                    => wiped'[c] = {} /\ next'[c] = 1
               /\ place'[c] \in {"idle", "locking", "anchoring"} => anchors'[c] = {}
               /\ ~Locking => anchors'[c] = {} /\ place'[c] \notin {"locking", "anchoring"}
    BY <2>1 DEF EraseSubject
  <2>2. CASE LockTombstone(c) \/ LockAnchors(c) \/ Request(c) \/ EnqueueAndMark(c)
               \/ LocalCompleted(c)
    BY <2>2 DEF LockTombstone, LockAnchors, Request, EnqueueAndMark, LocalCompleted
  <2>3. CASE Step(c)
    BY <2>3 DEF Step, Advance
  <2>4. CASE Commit(c) \/ StepFailed(c) \/ Refused(c) \/ RollBack(c)
    BY <2>4 DEF Commit, StepFailed, Refused, RollBack, Close
  <2> QED
    BY <1>1, <2>1, <2>2, <2>3, <2>4 DEF CallStep, Proceed
<1>2. ASSUME NEW w \in Writers, WriterStep(w) PROVE NothingEarly'
  BY <1>2, CallsKeep DEF NothingEarly
<1>3. CASE UNCHANGED vars
  BY <1>3 DEF vars, NothingEarly
<1> QED
  BY <1>1, <1>2, <1>3, NextIs

LEMMA OneHolderStep == TypeOK /\ OneHolder /\ [Next]_vars => OneHolder'
<1> SUFFICES ASSUME TypeOK, OneHolder, [Next]_vars PROVE OneHolder'
  OBVIOUS
<1>1. ASSUME NEW c \in Calls, CallStep(c) PROVE OneHolder'
  <2>1. CASE LockTombstone(c)
    BY <1>1, <2>1, OthersKeep
       DEF LockTombstone, HoldsTombstone, OneHolder, Holding, Goto, transaction, TypeOK
  <2>2. ASSUME ~LockTombstone(c), Locking, place'[c] \in Holding
        PROVE  place[c] \in Holding /\ subject'[c] = subject[c]
    <3> USE DEF Goto, database, transaction, TypeOK, Holding
    <3>1. ASSUME NEW s \in Subjects, EraseSubject(c, s) PROVE FALSE
      BY <2>2, <3>1 DEF EraseSubject
    <3>2. CASE LockAnchors(c) \/ Request(c) \/ EnqueueAndMark(c) \/ LocalCompleted(c)
      BY <3>2 DEF LockAnchors, Request, EnqueueAndMark, LocalCompleted
    <3>3. CASE Step(c)
      BY <3>3 DEF Step
    <3>4. CASE Commit(c) \/ StepFailed(c) \/ Refused(c) \/ RollBack(c)
      BY <2>2, <3>4 DEF Commit, StepFailed, Refused, RollBack, Close
    <3> QED
      BY <1>1, <2>2, <3>1, <3>2, <3>3, <3>4 DEF CallStep, Proceed
  <2> QED
    BY <1>1, <2>1, <2>2, OthersKeep DEF OneHolder
<1>2. ASSUME NEW w \in Writers, WriterStep(w) PROVE OneHolder'
  BY <1>2, CallsKeep DEF OneHolder
<1>3. CASE UNCHANGED vars
  BY <1>3 DEF vars, OneHolder
<1> QED
  BY <1>1, <1>2, <1>3, NextIs

\* A row goes only with the commit of a call that has wiped it.
LEMMA RowsGo ==
    ASSUME [Next]_vars, NEW r \in stored, r \notin stored'
    PROVE  \E d \in Calls : Commit(d) /\ r \in wiped[d]
<1>1. ASSUME NEW c \in Calls, NEW s \in Subjects, EraseSubject(c, s) PROVE stored' = stored
  BY <1>1 DEF EraseSubject, database
<1>2. ASSUME NEW c \in Calls, CallStep(c), ~Commit(c) PROVE stored' = stored
  BY <1>1, <1>2 DEF CallStep, Proceed, LockTombstone, LockAnchors, Request, Step, Refused,
                    EnqueueAndMark, LocalCompleted, StepFailed, RollBack, database
<1>3. ASSUME NEW c \in Calls, Commit(c) PROVE r \in wiped[c]
  BY <1>3 DEF Commit
<1>4. ASSUME NEW w \in Writers, WriterStep(w) PROVE FALSE
  BY <1>4 DEF WriterStep, Insert, Inserted, database
<1> QED
  BY <1>2, <1>3, <1>4, NextIs DEF vars

LEMMA OwnRowsStep == TypeOK /\ LockInv /\ [Next]_vars => OwnRows'
<1> SUFFICES ASSUME TypeOK, LockInv, [Next]_vars PROVE OwnRows'
  OBVIOUS
<1> USE DEF LockInv
<1>1. ASSUME NEW c \in Calls, NEW r \in anchors[c]
      PROVE  r \in stored' \/ Commit(c)
  <2> SUFFICES ASSUME NEW d \in Calls, Commit(d), r \in wiped[d], d # c PROVE FALSE
    BY <1>1, RowsGo DEF OwnRows
  <2>1. Locking /\ place[c] \in Holding
    BY <1>1, ErasureAssumption DEF NothingEarly, Holding, TypeOK
  <2>2. place[d] \in Holding /\ subject[d] = subject[c]
    BY <1>1 DEF Commit, Holding, OwnRows
  <2> QED
    BY <2>1, <2>2 DEF OneHolder
<1>2. ASSUME NEW c \in Calls, CallStep(c) PROVE OwnRows'
  <2> SUFFICES /\ \A r \in wiped'[c] : ownerOf[r] = subject'[c]
               /\ \A r \in anchors'[c] : /\ ownerOf[r] = subject'[c]
                                        /\ tableOf[r] = SubjectTable
                                        /\ r \in stored'
    <3>1. ASSUME NEW d \in Calls, d # c PROVE ~Commit(d)
      BY <1>2, <3>1, OthersKeep DEF Commit, Close, Goto, TypeOK
    <3> QED
      BY <1>1, <1>2, <3>1, OthersKeep DEF OwnRows
  <2> USE DEF Goto, database, transaction, TypeOK, OwnRows
  <2>1. ASSUME NEW s \in Subjects, EraseSubject(c, s)
        PROVE  wiped'[c] = {} /\ anchors'[c] = {}
    BY <2>1 DEF EraseSubject, NothingEarly
  <2>2. CASE LockTombstone(c) \/ Request(c) \/ EnqueueAndMark(c) \/ LocalCompleted(c)
    BY <2>2 DEF LockTombstone, Request, EnqueueAndMark, LocalCompleted
  <2>3. CASE LockAnchors(c)
    BY <2>3 DEF LockAnchors, Anchors
  <2>4. CASE Step(c)
    BY <2>4 DEF Step, Targets
  <2>5. CASE Commit(c) \/ StepFailed(c) \/ Refused(c) \/ RollBack(c)
    BY <2>5 DEF Commit, StepFailed, Refused, RollBack, Close
  <2> QED
    BY <1>2, <2>1, <2>2, <2>3, <2>4, <2>5 DEF CallStep, Proceed
<1>3. ASSUME NEW w \in Writers, WriterStep(w) PROVE OwnRows'
  <2>1. stored \subseteq stored'
    BY <1>3 DEF WriterStep, Insert, Inserted, database
  <2> QED
    BY <1>3, <2>1, CallsKeep DEF OwnRows
<1>4. CASE UNCHANGED vars
  BY <1>4 DEF vars, OwnRows
<1> QED
  BY <1>2, <1>3, <1>4, NextIs

LEMMA OpenInsertsStep == TypeOK /\ LockInv /\ [Next]_vars => OpenInserts'
<1> SUFFICES ASSUME TypeOK, LockInv, [Next]_vars PROVE OpenInserts'
  OBVIOUS
<1> USE DEF LockInv
<1>1. ASSUME NEW c \in Calls, CallStep(c) PROVE OpenInserts'
  <2>1. stored' \subseteq stored
    <3>1. ASSUME NEW s \in Subjects, EraseSubject(c, s) PROVE stored' = stored
      BY <3>1 DEF EraseSubject, database
    <3> QED
      BY <1>1, <3>1 DEF CallStep, Proceed, LockTombstone, LockAnchors, Request, Step, Refused,
           EnqueueAndMark, LocalCompleted, Commit, StepFailed, RollBack, database
  <2>2. ASSUME NEW w \in Writers, writing[w] # NoRow PROVE parentOf[writing[w]] \notin anchors'[c]
    <3> USE DEF OpenInserts, database, transaction, TypeOK
    <3>1. ASSUME NEW s \in Subjects, EraseSubject(c, s) PROVE anchors' = anchors
      BY <3>1 DEF EraseSubject
    <3>2. CASE LockTombstone(c) \/ Request(c) \/ EnqueueAndMark(c) \/ LocalCompleted(c) \/ Step(c)
      BY <2>2, <3>2 DEF LockTombstone, Request, EnqueueAndMark, LocalCompleted, Step
    <3>3. CASE LockAnchors(c)
      BY <2>2, <3>3 DEF LockAnchors, Referenced
    <3>4. CASE Commit(c) \/ StepFailed(c) \/ Refused(c) \/ RollBack(c)
      BY <3>4 DEF Commit, StepFailed, Refused, RollBack, Close
    <3> QED
      BY <1>1, <2>2, <3>1, <3>2, <3>3, <3>4 DEF CallStep, Proceed
  <2> QED
    BY <1>1, <2>1, <2>2, OthersKeep DEF OpenInserts
<1>2. ASSUME NEW w \in Writers, WriterStep(w) PROVE OpenInserts'
  <2>1. ASSUME NEW r \in Rows, Insert(w, r) PROVE OpenInserts'
    <3>1. \A c \in Calls : parentOf[r] \notin anchors[c]
      BY <2>1, SchemaAssumption DEF Insert, OwnRows
    <3> QED
      BY <2>1, <3>1 DEF Insert, OpenInserts, database, transaction, TypeOK
  <2>2. CASE Inserted(w)
    BY <2>2 DEF Inserted, OpenInserts, transaction, TypeOK
  <2> QED
    BY <1>2, <2>1, <2>2 DEF WriterStep
<1>3. CASE UNCHANGED vars
  BY <1>3 DEF vars, OpenInserts
<1> QED
  BY <1>1, <1>2, <1>3, NextIs

LEMMA LockInvInit == Init => LockInv
<1> SUFFICES ASSUME Init PROVE LockInv
  OBVIOUS
<1> QED
  BY DEF Init, LockInv, NothingEarly, OwnRows, OneHolder, OpenInserts, Holding

LEMMA LockInvStep == TypeOK /\ LockInv /\ [Next]_vars => LockInv'
BY NothingEarlyStep, OwnRowsStep, OneHolderStep, OpenInsertsStep DEF LockInv

\* The locks of local erasures exclude what they should in every reachable state.
LEMMA LocksHold == Spec => []LockInv
BY TypeInit, TypeStep, LockInvInit, LockInvStep, PTL DEF Spec

-----------------------------------------------------------------------------
(* What the locked subject row keeps out.                                  *)

\* An erasure shows as a whole: rows, tombstone and outbox entries.
THEOREM CommitsTogether == Spec => []CommittedTogether
<1>1. Init => CommittedTogether
  BY DEF Init, CommittedTogether
<1>2. ASSUME TypeOK, LockInv, CommittedTogether, [Next]_vars PROVE CommittedTogether'
  <2>1. ASSUME NEW c \in Calls, Commit(c) PROVE CommittedTogether'
    <3>1. \A r \in Initial \ personal' : r \in Initial \ personal \/ ownerOf[r] = subject[c]
      BY <1>2, <2>1 DEF Commit, LockInv, OwnRows
    <3>2. \A s \in Subjects : owed'[s] = IF s = subject[c] THEN owed[s] + 1 ELSE owed[s]
      BY <1>2, <2>1 DEF Commit, TypeOK
    <3>3. Locking => tombstone'[subject[c]] = "completed"
                     /\ \A s \in Subjects \ {subject[c]} : tombstone'[s] = tombstone[s]
      BY <1>2, <2>1 DEF Commit, TypeOK
    <3>4. \A s \in Subjects : owed[s] \in Nat
      BY <1>2 DEF TypeOK
    <3> QED
      BY <1>2, <3>1, <3>2, <3>3, <3>4 DEF CommittedTogether
  <2>2. ASSUME NEW c \in Calls, CallStep(c), ~Commit(c) PROVE UNCHANGED database
    <3>1. ASSUME NEW s \in Subjects, EraseSubject(c, s) PROVE UNCHANGED database
      BY <3>1 DEF EraseSubject
    <3> QED
      BY <2>2, <3>1 DEF CallStep, Proceed, LockTombstone, LockAnchors, Request, Step, Refused,
           EnqueueAndMark, LocalCompleted, StepFailed, RollBack
  <2>3. ASSUME NEW w \in Writers, WriterStep(w)
        PROVE  personal \subseteq personal' /\ UNCHANGED <<owed, tombstone>>
    BY <2>3 DEF WriterStep, Insert, Inserted, database
  <2> QED
    BY <1>2, <2>1, <2>2, <2>3, NextIs DEF CommittedTogether, database, vars
<1> QED
  BY <1>1, <1>2, TypeCorrect, LocksHold, PTL DEF Spec

\* The rows that the next step of c is about are the last of their tables to be there.
LEMMA NoneEscapesStep ==
    OneRowGuards /\ TypeOK /\ LockInv /\ NoneEscapes /\ [Next]_vars => NoneEscapes'
<1> SUFFICES ASSUME OneRowGuards, TypeOK, LockInv, NoneEscapes, [Next]_vars PROVE NoneEscapes'
  OBVIOUS
<1>1. ASSUME NEW c \in Calls, CallStep(c) PROVE NoneEscapes'
  <2>1. stored' \subseteq stored
    <3>1. ASSUME NEW s \in Subjects, EraseSubject(c, s) PROVE stored' = stored
      BY <3>1 DEF EraseSubject, database
    <3> QED
      BY <1>1, <3>1 DEF CallStep, Proceed, LockTombstone, LockAnchors, Request, Step, Refused,
           EnqueueAndMark, LocalCompleted, Commit, StepFailed, RollBack, database
  <2> SUFFICES ASSUME anchors'[c] # {}, NEW r \in stored,
                      ownerOf[r] = subject'[c], Passed(c, tableOf[r])'
               PROVE  r \in wiped'[c] \/ strategyOf[tableOf[r]] = "retain"
    BY <1>1, <2>1, OthersKeep DEF NoneEscapes, Passed
  <2> USE DEF Goto, database, transaction, TypeOK
  <2>0. tableOf[r] \in Nat /\ 1 <= tableOf[r] /\ tableOf[r] <= SubjectTable
    BY SchemaAssumption, ErasureAssumption
  <2>1a. CASE anchors[c] = {} \/ LockAnchors(c)
    <3>1. LockAnchors(c)
      <4>1. ASSUME NEW s \in Subjects, EraseSubject(c, s) PROVE anchors' = anchors
        BY <4>1 DEF EraseSubject
      <4>2. CASE Commit(c) \/ StepFailed(c) \/ Refused(c) \/ RollBack(c)
        BY <4>2 DEF Commit, StepFailed, Refused, RollBack, Close
      <4> QED
        BY <1>1, <2>1a, <4>1, <4>2 DEF CallStep, Proceed, LockTombstone, Request, Step,
             EnqueueAndMark, LocalCompleted
    <3>2. next'[c] = 1 /\ place'[c] = "requesting"
      BY <3>1 DEF LockAnchors, LockInv, NothingEarly
    <3> QED
      BY <2>0, <3>2 DEF Passed, Stepped
  <2>2. CASE anchors[c] # {} /\ ~LockAnchors(c)
    <3>1. ASSUME NEW s \in Subjects, EraseSubject(c, s) PROVE FALSE
      BY <2>2, <3>1 DEF EraseSubject, LockInv, NothingEarly
    <3>2. CASE LockTombstone(c) \/ Request(c) \/ EnqueueAndMark(c) \/ LocalCompleted(c)
      <4>1. /\ subject' = subject /\ wiped' = wiped /\ next' = next
            /\ place'[c] \in Stepped => place[c] \in Stepped
        BY <3>2 DEF LockTombstone, Request, EnqueueAndMark, LocalCompleted, Stepped
      <4> QED
        BY <2>2, <4>1 DEF NoneEscapes, Passed
    <3>3. CASE Step(c)
      <4>1. subject' = subject /\ place[c] \notin Stepped
        BY <3>3 DEF Step, Stepped
      <4>2. /\ wiped[c] \subseteq wiped'[c]
            /\ strategyOf[next[c]] # "retain" => Targets(c) \subseteq wiped'[c]
        BY <3>3 DEF Step
      <4>3. tableOf[r] < next[c] \/ tableOf[r] = next[c]
        <5>1. next[c] \in Nat
          OBVIOUS
        <5>2. CASE next[c] = SubjectTable
          BY <2>0, <5>1, <5>2
        <5>3. CASE next[c] # SubjectTable
          <6>1. next'[c] = next[c] + 1 /\ place' = place
            BY <3>3, <5>3 DEF Step, Advance
          <6> QED
            BY <2>0, <4>1, <5>1, <6>1 DEF Passed
        <5> QED
          BY <5>2, <5>3
      <4>4. CASE tableOf[r] < next[c]
        BY <2>2, <4>1, <4>2, <4>4 DEF NoneEscapes, Passed
      <4>5. CASE tableOf[r] = next[c]
        BY <4>1, <4>2, <4>5 DEF Targets
      <4> QED
        BY <4>3, <4>4, <4>5
    <3>4. CASE Commit(c) \/ StepFailed(c) \/ Refused(c) \/ RollBack(c)
      BY <3>4 DEF Commit, StepFailed, Refused, RollBack, Close
    <3> QED
      BY <1>1, <2>2, <3>1, <3>2, <3>3, <3>4 DEF CallStep, Proceed
  <2> QED
    BY <2>1a, <2>2
<1>2. ASSUME NEW w \in Writers, WriterStep(w) PROVE NoneEscapes'
  <2> SUFFICES ASSUME NEW c \in Calls, anchors[c] # {}, Inserted(w),
                      ownerOf[writing[w]] = subject[c]
               PROVE  FALSE
    BY <1>2, CallsKeep DEF WriterStep, Insert, Inserted, NoneEscapes, Passed, database
  <2> DEFINE r == writing[w]
  <2>1. r \in Rows /\ r \notin stored /\ parentOf[r] \notin anchors[c]
    BY DEF Inserted, TypeOK, LockInv, OpenInserts
  <2>2. PICK q \in anchors[c] : q \in stored /\ ownerOf[q] = subject[c] /\ tableOf[q] = SubjectTable
    BY DEF LockInv, OwnRows
  <2>3. parentOf[r] \in Rows /\ tableOf[parentOf[r]] = SubjectTable
        /\ ownerOf[parentOf[r]] = subject[c]
    BY <2>1, SchemaAssumption DEF OneRowGuards
  <2>4. parentOf[r] = q
    BY <2>2, <2>3 DEF OneRowGuards, TypeOK
  <2> QED
    BY <2>1, <2>2, <2>4
<1>3. CASE UNCHANGED vars
  BY <1>3 DEF vars, NoneEscapes, Passed
<1> QED
  BY <1>1, <1>2, <1>3, NextIs

LEMMA NoneEscapesInit == Init => NoneEscapes
BY DEF Init, NoneEscapes

LEMMA RowsAreFound ==
    ASSUME OneRowGuards PROVE Spec => []NoneEscapes
<1>1. TypeOK /\ LockInv /\ NoneEscapes /\ [Next]_vars => NoneEscapes'
  BY NoneEscapesStep
<1> QED
  BY <1>1, NoneEscapesInit, TypeCorrect, LocksHold, PTL DEF Spec

\* Where one locked row guards the subject, a call that holds it and commits leaves
\* nothing personal outside retained tables, whatever was inserted meanwhile.
THEOREM ErasedMeansErased ==
    ASSUME OneRowGuards PROVE Spec => NothingSlipsIn
<1>1. ASSUME TypeOK, NoneEscapes, NEW c \in Calls, Commit(c), anchors[c] # {},
             NEW r \in personal', ownerOf[r] = subject[c]
      PROVE  strategyOf[tableOf[r]] = "retain"
  BY <1>1 DEF Commit, TypeOK, NoneEscapes, Passed, Stepped
<1>2. TypeOK /\ NoneEscapes /\ [Next]_vars =>
        [\A c \in Calls :
          Commit(c) /\ anchors[c] # {} =>
            \A r \in personal' :
                ownerOf[r] = subject[c] => strategyOf[tableOf[r]] = "retain"]_vars
  BY <1>1
<1> QED
  BY <1>2, RowsAreFound, TypeCorrect, PTL DEF Spec, NothingSlipsIn

\* Where one locked row guards the subject, the database refuses no delete of a call
\* that holds it.
THEOREM DeletesAreGranted ==
    ASSUME OneRowGuards PROVE Spec => []NothingIsOrphaned
<1>1. ASSUME TypeOK, NoneEscapes PROVE NothingIsOrphaned
  <2> SUFFICES ASSUME NEW c \in Calls, place[c] = "stepping", anchors[c] # {},
                      NEW r \in Orphans(c)
               PROVE  FALSE
    BY DEF NothingIsOrphaned
  <2>1. /\ r \in stored /\ r \in Rows /\ r \notin wiped[c] /\ r \notin Targets(c)
        /\ parentOf[r] \in Targets(c) /\ strategyOf[next[c]] = "delete"
    BY <1>1 DEF Orphans, TypeOK
  <2>2. tableOf[parentOf[r]] = SubjectTable /\ next[c] = SubjectTable /\ ownerOf[r] = subject[c]
    BY <1>1, <2>1, SchemaAssumption DEF Targets, OneRowGuards
  <2>3. tableOf[r] # SubjectTable
    BY <2>1, SchemaAssumption
  <2>4. tableOf[r] < next[c]
    BY <2>1, <2>2, <2>3, SchemaAssumption
  <2>5. strategyOf[tableOf[r]] = "delete"
    BY <1>1, <2>1, <2>2, PlanAssumption DEF TypeOK
  <2> QED
    BY <1>1, <2>1, <2>2, <2>4, <2>5 DEF NoneEscapes, Passed
<1> QED
  BY <1>1, RowsAreFound, TypeCorrect, PTL

-----------------------------------------------------------------------------
(* Parts of the trail.                                                     *)

\* A set of positions is finite.
LEMMA Positions ==
    ASSUME NEW m \in Nat, NEW I \in SUBSET (1..m)
    PROVE  IsFiniteSet(I) /\ Cardinality(I) \in Nat
<1>1. IsFiniteSet(1..m)
  <2>1. 1 \in Int /\ m \in Int
    OBVIOUS
  <2> QED
    BY <2>1, FS_Interval
<1>2. IsFiniteSet(I)
  <2> DEFINE S == 1..m
  <2>1. IsFiniteSet(S) /\ I \in SUBSET S
    BY <1>1
  <2> HIDE DEF S
  <2> QED
    BY <2>1, FS_Subset
<1> QED
  BY <1>2, FS_CardinalityType

\* Positions are numbered without a gap.
LEMMA Ranks ==
    ASSUME NEW m \in Nat, NEW I \in SUBSET (1..m)
    PROVE  \A n \in 1..Cardinality(I) : \E i \in I : Before(I, i) = n - 1
<1> DEFINE Below(J, i) == {j \in J : j < i}
           Ranked(J) == \A n \in 1..Cardinality(J) : \E i \in J : Cardinality(Below(J, i)) = n - 1
           bad == {k \in Nat : \E J \in SUBSET (1..k) : ~Ranked(J)}
<1>1. bad = {}
  <2> SUFFICES ASSUME bad # {} PROVE FALSE
    OBVIOUS
  <2>1. PICK k \in bad : \A n \in bad : k <= n
    <3> HIDE DEF bad
    <3>1. bad \subseteq Nat
      BY DEF bad
    <3> QED
      BY <3>1, LeastNat
  <2>2. PICK J \in SUBSET (1..k) : ~Ranked(J)
    OBVIOUS
  <2> DEFINE K == J \ {k}
  <2>3. k \in Nat /\ k # 0
    <3>1. CASE k = 0
      <4>1. J = {}
        BY <3>1
      <4>2. Cardinality(J) = 0
        BY <4>1, FS_EmptySet
      <4>3. 1..Cardinality(J) = {}
        BY <4>2
      <4> QED
        BY <2>2, <4>3
    <3> QED
      BY <3>1
  <2>4. k - 1 \in Nat /\ K \in SUBSET (1..(k - 1)) /\ Ranked(K)
    <3>1. k - 1 \in Nat /\ K \in SUBSET (1..(k - 1))
      BY <2>3
    <3>2. k - 1 \notin bad
      <4> HIDE DEF bad
      <4>1. k \in Nat /\ ~(k <= k - 1)
        BY <2>3
      <4> QED
        BY <2>1, <4>1
    <3> HIDE DEF Ranked, K
    <3> QED
      BY <3>1, <3>2
  <2>5. k \in J
    <3> HIDE DEF Ranked
    <3>1. CASE k \notin J
      <4>1. K = J
        BY <3>1
      <4> QED
        BY <2>2, <2>4, <4>1
    <3> QED
      BY <3>1
  <2>6. IsFiniteSet(K) /\ Cardinality(K) \in Nat /\ Cardinality(J) = Cardinality(K) + 1
    <3>1. J = K \cup {k} /\ k \notin K
      BY <2>5
    <3> HIDE DEF K
    <3>2. IsFiniteSet(K) /\ Cardinality(K) \in Nat
      BY <2>4, Positions
    <3> QED
      BY <3>1, <3>2, FS_AddElement
  <2>7. ASSUME NEW n \in 1..Cardinality(J)
        PROVE  \E i \in J : Cardinality(Below(J, i)) = n - 1
    <3>1. CASE n = Cardinality(J)
      <4>1. \A j \in J : j < k <=> j # k
        BY <2>3
      <4>2. Below(J, k) = K
        BY <4>1
      <4>3. Cardinality(Below(J, k)) = n - 1
        <5> HIDE DEF Below, K
        <5> QED
          BY <2>6, <3>1, <4>2
      <4> QED
        BY <2>5, <4>3
    <3>2. CASE n # Cardinality(J)
      <4>1. n \in 1..Cardinality(K)
        BY <2>6, <3>2
      <4>2. PICK i \in K : Cardinality(Below(K, i)) = n - 1
        <5> HIDE DEF Below, K
        <5> QED
          BY <2>4, <4>1
      <4>3. Below(J, i) = Below(K, i)
        BY <2>3, <2>4
      <4> HIDE DEF Below
      <4> QED
        BY <4>2, <4>3
    <3> QED
      BY <3>1, <3>2
  <2> QED
    BY <2>2, <2>7
<1>2. m \notin bad
  BY <1>1
<1> QED
  BY <1>2 DEF Before

LEMMA NthIs ==
    ASSUME NEW m \in Nat, NEW I \in SUBSET (1..m), NEW n \in 1..Cardinality(I)
    PROVE  Nth(I, n) \in I /\ Before(I, Nth(I, n)) = n - 1
<1>1. \E i \in I : Before(I, i) = n - 1
  BY Ranks
<1> QED
  BY <1>1 DEF Nth

\* Different positions have different numbers.
LEMMA NthIsUnique ==
    ASSUME NEW m \in Nat, NEW I \in SUBSET (1..m), NEW i \in I, NEW k \in I,
           Before(I, i) = Before(I, k)
    PROVE  i = k
<1> DEFINE Below(a) == {j \in I : j < a}
<1>1. ASSUME NEW a \in I, NEW b \in I, a < b
      PROVE  Cardinality(Below(a)) # Cardinality(Below(b))
  <2>1. a \in Int /\ b \in Int
    OBVIOUS
  <2>2. Below(a) \subseteq Below(b) /\ a \in Below(b) /\ a \notin Below(a)
    <3>1. ASSUME NEW j \in I, j < a PROVE j < b
      <4>1. j \in Int
        OBVIOUS
      <4> QED
        BY <1>1, <2>1, <3>1, <4>1
    <3>2. ~(a < a)
      BY <2>1
    <3> QED
      BY <1>1, <3>1, <3>2, Zenon
  <2>3. Below(b) \in SUBSET (1..m)
    OBVIOUS
  <2> HIDE DEF Below
  <2>4. IsFiniteSet(Below(b))
    BY <2>3, Positions
  <2> QED
    BY <2>2, <2>4, FS_Subset
<1>2. i \in Int /\ k \in Int
  OBVIOUS
<1>3. Cardinality(Below(i)) = Cardinality(Below(k))
  BY DEF Before
<1> HIDE DEF Below
<1>4. ~(i < k) /\ ~(k < i)
  BY <1>1, <1>3
<1> QED
  BY <1>2, <1>4

\* What is appended elsewhere does not show in a part of the trail.
LEMMA EventsStay ==
    ASSUME NEW E, NEW t \in Seq(E), NEW e, NEW I \in SUBSET (1..Len(t))
    PROVE  /\ EventsAt(t, I) \in Seq(E) /\ Len(EventsAt(t, I)) = Cardinality(I)
           /\ EventsAt(Append(t, e), I) = EventsAt(t, I)
<1>1. Len(t) \in Nat /\ Cardinality(I) \in Nat
  <2>1. Len(t) \in Nat
    OBVIOUS
  <2> QED
    BY <2>1, Positions
<1>2. \A n \in 1..Cardinality(I) : Nth(I, n) \in 1..Len(t)
  <2> TAKE n \in 1..Cardinality(I)
  <2>1. Nth(I, n) \in I
    BY <1>1, NthIs
  <2> QED
    BY <2>1
<1>3. \A n \in 1..Cardinality(I) : Append(t, e)[Nth(I, n)] = t[Nth(I, n)] /\ t[Nth(I, n)] \in E
  <2>1. \A i \in 1..Len(t) : Append(t, e)[i] = t[i] /\ t[i] \in E
    OBVIOUS
  <2> QED
    BY <1>2, <2>1
<1> DEFINE s == [n \in 1..Cardinality(I) |-> t[Nth(I, n)]]
<1>4. EventsAt(t, I) = s /\ EventsAt(Append(t, e), I) = s
  BY <1>3 DEF EventsAt
<1>5. s \in Seq(E) /\ Len(s) = Cardinality(I)
  <2> DEFINE k == Cardinality(I)
             F(n) == t[Nth(I, n)]
  <2>1. k \in Nat /\ \A n \in 1..k : F(n) \in E
    BY <1>1, <1>3
  <2> HIDE DEF k, F
  <2>2. [n \in 1..k |-> F(n)] \in Seq(E) /\ Len([n \in 1..k |-> F(n)]) = k
    BY <2>1
  <2> QED
    BY <2>2 DEF k, F
<1> QED
  BY <1>4, <1>5

\* What is appended to a part of the trail comes at its end.
LEMMA EventsGrow ==
    ASSUME NEW E, NEW t \in Seq(E), NEW e \in E, NEW I \in SUBSET (1..Len(t))
    PROVE  EventsAt(Append(t, e), I \cup {Len(t) + 1}) = Append(EventsAt(t, I), e)
<1> DEFINE k == Len(t) + 1
           K == I \cup {k}
           c == Cardinality(I)
<1>1. Len(t) \in Nat /\ k \in Nat /\ K \in SUBSET (1..k) /\ k \notin I
  <2> DEFINE m == Len(t)
  <2>1. m \in Nat /\ I \in SUBSET (1..m)
    OBVIOUS
  <2> HIDE DEF m
  <2>2. m + 1 \in Nat /\ m + 1 \notin I /\ I \cup {m + 1} \in SUBSET (1..(m + 1))
    BY <2>1
  <2> QED
    BY <2>1, <2>2 DEF m
<1>2. IsFiniteSet(I) /\ c \in Nat /\ Cardinality(K) = c + 1
  <2>1. IsFiniteSet(I) /\ c \in Nat
    BY <1>1, Positions
  <2> HIDE DEF k
  <2> QED
    BY <1>1, <2>1, FS_AddElement
<1>3. ASSUME NEW n \in 1..c PROVE Nth(K, n) = Nth(I, n)
  <2>1. Nth(I, n) \in I /\ Before(I, Nth(I, n)) = n - 1
    BY <1>1, NthIs
  <2>2. {j \in K : j < Nth(I, n)} = {j \in I : j < Nth(I, n)}
    <3>1. Nth(I, n) \in 1..Len(t)
      BY <2>1
    <3>2. ~(k < Nth(I, n))
      BY <1>1, <3>1
    <3> HIDE DEF k
    <3> QED
      BY <3>2
  <2>3. n \in 1..Cardinality(K)
    BY <1>2
  <2> HIDE DEF K, k, c
  <2>4. Nth(K, n) \in K /\ Before(K, Nth(K, n)) = n - 1
    BY <1>1, <2>3, NthIs
  <2>5. Nth(I, n) \in K
    BY <2>1 DEF K
  <2>6. Before(K, Nth(K, n)) = Before(K, Nth(I, n))
    BY <2>1, <2>2, <2>4 DEF Before
  <2> QED
    BY <1>1, <2>4, <2>5, <2>6, NthIsUnique
<1>4. Nth(K, c + 1) = k
  <2>1. {j \in K : j < k} = I
    <3>1. \A j \in I : j < k
      OBVIOUS
    <3>2. ~(k < k)
      BY <1>1
    <3> HIDE DEF k
    <3> QED
      BY <3>1, <3>2
  <2>2. c + 1 \in 1..Cardinality(K) /\ c = (c + 1) - 1 /\ k \in K
    BY <1>2
  <2>3. Before(K, k) = c
    BY <2>1 DEF Before
  <2> HIDE DEF K, k, c
  <2>4. Nth(K, c + 1) \in K /\ Before(K, Nth(K, c + 1)) = (c + 1) - 1
    BY <1>1, <2>2, NthIs
  <2>5. Before(K, Nth(K, c + 1)) = Before(K, k)
    BY <2>2, <2>3, <2>4
  <2> QED
    BY <1>1, <2>2, <2>4, <2>5, NthIsUnique
<1>5. \A n \in 1..c : Append(t, e)[Nth(I, n)] = t[Nth(I, n)]
  <2> TAKE n \in 1..c
  <2>1. Nth(I, n) \in I
    BY <1>1, NthIs
  <2> QED
    BY <2>1
<1>6. Append(t, e)[k] = e
  OBVIOUS
<1> DEFINE s == EventsAt(t, I)
<1>7. s \in Seq(E) /\ Len(s) = c
  BY EventsStay
<1>8. \A n \in 1..c : s[n] = t[Nth(I, n)]
  BY DEF EventsAt
<1> HIDE DEF K, k, c, s
<1>9. EventsAt(Append(t, e), K) \in Seq(E) /\ Len(EventsAt(Append(t, e), K)) = c + 1
  <2>1. Append(t, e) \in Seq(E) /\ Len(Append(t, e)) = k
    BY DEF k
  <2> QED
    BY <1>1, <1>2, <2>1, EventsStay
<1>10. Append(s, e) \in Seq(E) /\ Len(Append(s, e)) = c + 1
  BY <1>7
<1>11. ASSUME NEW n \in 1..(c + 1) PROVE EventsAt(Append(t, e), K)[n] = Append(s, e)[n]
  <2>1. EventsAt(Append(t, e), K)[n] = Append(t, e)[Nth(K, n)]
    BY <1>2 DEF EventsAt
  <2>2. CASE n = c + 1
    <3>1. Append(s, e)[Len(s) + 1] = e
      BY <1>7, AppendProperties
    <3> QED
      BY <1>4, <1>6, <1>7, <2>1, <2>2, <3>1
  <2>3. CASE n # c + 1
    <3>1. n \in 1..c
      BY <1>2, <2>3
    <3>2. Append(s, e)[n] = s[n]
      BY <1>7, <3>1
    <3> QED
      BY <1>3, <1>5, <1>8, <2>1, <3>1, <3>2
  <2> QED
    BY <2>2, <2>3
<1> QED
  BY <1>9, <1>10, <1>11, SeqEqual DEF K, k, s

Events == [type : EventTypes, subject : Subjects]

\* What a call appends is the last event of its subject, and of nobody else.
LEMMA TrailGrows ==
    ASSUME TypeOK, NEW c \in Calls, NEW type \in EventTypes, Audit(c, type), NEW s \in Subjects
    PROVE  /\ TrailOf(s) \in Seq(Events)
           /\ s = subject[c] => TrailOf(s)' = Append(TrailOf(s), Event(type, s))
           /\ s # subject[c] => TrailOf(s)' = TrailOf(s)
<1> DEFINE e == Event(type, subject[c])
           I == {i \in DOMAIN trail : trail[i].subject = s}
           J == {i \in DOMAIN trail' : trail'[i].subject = s}
<1>1. trail \in Seq(Events) /\ e \in Events /\ e.subject = subject[c] /\ trail' = Append(trail, e)
  BY DEF Audit, TypeOK, Events, Event
<1>2. TrailOf(s) = EventsAt(trail, I) /\ TrailOf(s)' = EventsAt(trail', J)
  BY DEF TrailOf
<1>3. s = subject[c] => e = Event(type, s)
  OBVIOUS
<1> HIDE DEF e
<1>4. I \in SUBSET (1..Len(trail))
  BY <1>1
<1>5. /\ DOMAIN trail' = (1..Len(trail)) \cup {Len(trail) + 1} /\ DOMAIN trail = 1..Len(trail)
      /\ \A i \in 1..Len(trail) : trail'[i] = trail[i]
      /\ trail'[Len(trail) + 1] = e
  BY <1>1
<1>6. J = IF s = subject[c] THEN I \cup {Len(trail) + 1} ELSE I
  BY <1>1, <1>5
<1> HIDE DEF I, J
<1>7. /\ EventsAt(trail, I) \in Seq(Events)
      /\ EventsAt(Append(trail, e), I) = EventsAt(trail, I)
  BY <1>1, <1>4, EventsStay
<1>8. EventsAt(Append(trail, e), I \cup {Len(trail) + 1}) = Append(EventsAt(trail, I), e)
  BY <1>1, <1>4, EventsGrow
<1> QED
  BY <1>1, <1>2, <1>3, <1>6, <1>7, <1>8

\* The same of the part that backup replay reads.
Visible == EventsAt(trail, {i \in DOMAIN trail : trail[i].type # "step_succeeded"})

LEMMA VisibleGrows ==
    ASSUME TypeOK, NEW c \in Calls, NEW type \in EventTypes, Audit(c, type)
    PROVE  /\ Visible \in Seq(Events)
           /\ type # "step_succeeded" => Visible' = Append(Visible, Event(type, subject[c]))
           /\ type = "step_succeeded" => Visible' = Visible
<1> DEFINE e == Event(type, subject[c])
           I == {i \in DOMAIN trail : trail[i].type # "step_succeeded"}
           J == {i \in DOMAIN trail' : trail'[i].type # "step_succeeded"}
<1>1. trail \in Seq(Events) /\ e \in Events /\ e.type = type /\ trail' = Append(trail, e)
  BY DEF Audit, TypeOK, Events, Event
<1>2. Visible = EventsAt(trail, I) /\ Visible' = EventsAt(trail', J)
  BY DEF Visible
<1>3. e = Event(type, subject[c])
  OBVIOUS
<1> HIDE DEF e
<1>4. I \in SUBSET (1..Len(trail))
  BY <1>1
<1>5. /\ DOMAIN trail' = (1..Len(trail)) \cup {Len(trail) + 1} /\ DOMAIN trail = 1..Len(trail)
      /\ \A i \in 1..Len(trail) : trail'[i] = trail[i]
      /\ trail'[Len(trail) + 1] = e
  BY <1>1
<1>6. J = IF type # "step_succeeded" THEN I \cup {Len(trail) + 1} ELSE I
  BY <1>1, <1>5
<1> HIDE DEF I, J
<1>7. /\ EventsAt(trail, I) \in Seq(Events)
      /\ EventsAt(Append(trail, e), I) = EventsAt(trail, I)
  BY <1>1, <1>4, EventsStay
<1>8. EventsAt(Append(trail, e), I \cup {Len(trail) + 1}) = Append(EventsAt(trail, I), e)
  BY <1>1, <1>4, EventsGrow
<1> QED
  BY <1>1, <1>2, <1>3, <1>6, <1>7, <1>8

\* Where no event is appended, the parts stay.
LEMMA TrailStays ==
    ASSUME UNCHANGED trail, NEW s \in Subjects
    PROVE  TrailOf(s)' = TrailOf(s)
BY DEF TrailOf

-----------------------------------------------------------------------------
(* Audit spans.                                                            *)

\* A request and k successes are the last events of t.
Ends(t, k) == /\ TypeAt(t, Len(t) - k) = "requested"
              /\ \A j \in 0..(k - 1) : TypeAt(t, Len(t) - j) = "step_succeeded"

LEMMA TypesStay ==
    ASSUME NEW t \in Seq(Events), NEW e \in Events
    PROVE  /\ Append(t, e) \in Seq(Events) /\ Len(t) \in Nat /\ Len(Append(t, e)) = Len(t) + 1
           /\ \A i \in Int : i # Len(t) + 1 => TypeAt(Append(t, e), i) = TypeAt(t, i)
           /\ TypeAt(Append(t, e), Len(t) + 1) = e.type
<1>1. /\ Append(t, e) \in Seq(Events) /\ Len(t) \in Nat /\ Len(Append(t, e)) = Len(t) + 1
      /\ DOMAIN t = 1..Len(t) /\ DOMAIN Append(t, e) = 1..(Len(t) + 1)
  BY LenProperties, AppendProperties
<1>2. /\ \A i \in 1..Len(t) : Append(t, e)[i] = t[i]
      /\ Append(t, e)[Len(t) + 1] = e
  BY AppendProperties
<1>3. ASSUME NEW i \in Int, i # Len(t) + 1 PROVE TypeAt(Append(t, e), i) = TypeAt(t, i)
  BY <1>1, <1>2, <1>3 DEF TypeAt
<1>4. TypeAt(Append(t, e), Len(t) + 1) = e.type
  BY <1>1, <1>2 DEF TypeAt
<1> QED
  BY <1>1, <1>3, <1>4

\* A request starts a span, a step goes on with it.
LEMMA EndsGrow ==
    ASSUME NEW t \in Seq(Events), NEW e \in Events
    PROVE  /\ e.type = "requested" => Ends(Append(t, e), 0)
           /\ \A k \in Nat : Ends(t, k) /\ e.type = "step_succeeded" => Ends(Append(t, e), k + 1)
           /\ \A k \in Nat : Ends(t, k) => TypeAt(t, Len(t)) \in {"requested", "step_succeeded"}
<1>1. e.type = "requested" => Ends(Append(t, e), 0)
  <2>1. (Len(t) + 1) - 0 = Len(t) + 1 /\ 0..(0 - 1) = {}
    BY TypesStay
  <2> QED
    BY <2>1, TypesStay DEF Ends
<1>2. ASSUME NEW k \in Nat, Ends(t, k), e.type = "step_succeeded"
      PROVE  Ends(Append(t, e), k + 1)
  <2>1. TypeAt(Append(t, e), Len(t) + 1 - (k + 1)) = "requested"
    <3>1. Len(t) + 1 - (k + 1) = Len(t) - k /\ Len(t) - k # Len(t) + 1 /\ Len(t) - k \in Int
      BY TypesStay
    <3> QED
      BY <1>2, <3>1, TypesStay DEF Ends
  <2>2. ASSUME NEW j \in 0..((k + 1) - 1)
        PROVE  TypeAt(Append(t, e), Len(t) + 1 - j) = "step_succeeded"
    <3>1. CASE j = 0
      BY <1>2, <3>1, TypesStay
    <3>2. CASE j # 0
      <4>1. /\ j - 1 \in 0..(k - 1) /\ Len(t) + 1 - j = Len(t) - (j - 1)
            /\ Len(t) + 1 - j # Len(t) + 1 /\ Len(t) + 1 - j \in Int
        BY <3>2, TypesStay
      <4>2. TypeAt(t, Len(t) - (j - 1)) = "step_succeeded"
        BY <1>2, <4>1 DEF Ends
      <4> QED
        BY <4>1, <4>2, TypesStay
    <3> QED
      BY <3>1, <3>2
  <2> QED
    BY <2>1, <2>2, TypesStay DEF Ends
<1>3. ASSUME NEW k \in Nat, Ends(t, k) PROVE TypeAt(t, Len(t)) \in {"requested", "step_succeeded"}
  <2>1. CASE k = 0
    <3>1. Len(t) - 0 = Len(t)
      BY TypesStay
    <3> QED
      BY <1>3, <2>1, <3>1 DEF Ends
  <2>2. CASE k # 0
    <3>1. 0 \in 0..(k - 1) /\ Len(t) - 0 = Len(t)
      BY <2>2, TypesStay
    <3> QED
      BY <1>3, <3>1 DEF Ends
  <2> QED
    BY <2>1, <2>2
<1> QED
  BY <1>1, <1>2, <1>3

\* What keeps a trail whole when an event is appended.
LEMMA WholeGrows ==
    ASSUME NEW t \in Seq(Events), NEW e \in Events, Whole(t),
           e.type \in {"step_succeeded", "step_failed"} => \E k \in Nat : Ends(t, k),
           e.type = "local_completed" => Ends(t, SubjectTable)
    PROVE  Whole(Append(t, e))
<1> DEFINE u == Append(t, e)
<1>1. SubjectTable \in Nat \ {0} /\ Len(t) \in Nat
  BY ErasureAssumption, TypesStay
<1>2. DOMAIN t = 1..Len(t) /\ DOMAIN u = 1..(Len(t) + 1)
  BY LenProperties, AppendProperties
<1>3. /\ \A i \in Int : i # Len(t) + 1 => TypeAt(u, i) = TypeAt(t, i)
      /\ TypeAt(u, Len(t) + 1) = e.type
  BY TypesStay
<1> HIDE DEF u
<1>4. ASSUME NEW i \in DOMAIN u
      PROVE  /\ TypeAt(u, i) \in {"step_succeeded", "step_failed"}
                  => TypeAt(u, i - 1) \in {"requested", "step_succeeded"}
             /\ TypeAt(u, i) = "local_completed"
                  => /\ \A j \in 1..SubjectTable : TypeAt(u, i - j) = "step_succeeded"
                     /\ TypeAt(u, i - SubjectTable - 1) = "requested"
  <2>0. i \in 1..(Len(t) + 1)
    BY <1>2
  <2>1. /\ TypeAt(u, i - 1) = TypeAt(t, i - 1)
        /\ \A j \in 1..SubjectTable : TypeAt(u, i - j) = TypeAt(t, i - j)
        /\ TypeAt(u, i - SubjectTable - 1) = TypeAt(t, i - SubjectTable - 1)
    <3>1. i - 1 \in Int /\ i - 1 # Len(t) + 1
      BY <1>1, <2>0
    <3>2. \A j \in 1..SubjectTable : i - j \in Int /\ i - j # Len(t) + 1
      BY <1>1, <2>0
    <3>3. i - SubjectTable - 1 \in Int /\ i - SubjectTable - 1 # Len(t) + 1
      BY <1>1, <2>0
    <3> QED
      BY <1>3, <3>1, <3>2, <3>3
  <2>2. CASE i \in DOMAIN t
    <3>1. TypeAt(u, i) = TypeAt(t, i)
      BY <1>1, <1>2, <1>3, <2>2
    <3> QED
      BY <2>1, <2>2, <3>1 DEF Whole
  <2>3. CASE i = Len(t) + 1
    <3>1. TypeAt(u, i) = e.type /\ i - 1 = Len(t) /\ i - SubjectTable - 1 = Len(t) - SubjectTable
      BY <1>1, <1>3, <2>3
    <3>2. ASSUME e.type \in {"step_succeeded", "step_failed"}
          PROVE  TypeAt(t, i - 1) \in {"requested", "step_succeeded"}
      BY <3>1, <3>2, EndsGrow
    <3>3. ASSUME e.type = "local_completed", NEW j \in 1..SubjectTable
          PROVE  TypeAt(t, i - j) = "step_succeeded"
      <4>1. j - 1 \in 0..(SubjectTable - 1) /\ i - j = Len(t) - (j - 1)
        BY <1>1, <2>3
      <4>2. TypeAt(t, Len(t) - (j - 1)) = "step_succeeded"
        BY <3>3, <4>1 DEF Ends
      <4> QED
        BY <4>1, <4>2
    <3>4. ASSUME e.type = "local_completed"
          PROVE  TypeAt(t, i - SubjectTable - 1) = "requested"
      BY <3>1, <3>4 DEF Ends
    <3> QED
      BY <2>1, <3>1, <3>2, <3>3, <3>4
  <2> QED
    BY <1>1, <1>2, <2>0, <2>2, <2>3
<1> QED
  BY <1>4 DEF Whole, u

\* While a call takes its steps, its span is what the trail of its subject ends with.
OpenSpan(c, s) ==
    subject[c] = s =>
        /\ place[c] = "stepping" => Ends(TrailOf(s), next[c] - 1)
        /\ place[c] \in {"enqueueing", "completing"} => Ends(TrailOf(s), SubjectTable)

OpenSpans == \A c \in Calls, s \in Subjects : OpenSpan(c, s)

\* The only one who appends to the trail of a subject is the call that holds it.
LEMMA OtherSpansStay ==
    ASSUME Locking, TypeOK, OneHolder, OpenSpans, NEW c \in Calls, CallStep(c),
           \/ UNCHANGED trail
           \/ place[c] \in Holding /\ \E type \in EventTypes : Audit(c, type)
    PROVE  \A d \in Calls \ {c}, s \in Subjects : OpenSpan(d, s)'
<1> SUFFICES ASSUME NEW d \in Calls \ {c}, NEW s \in Subjects, subject[d] = s, place[d] \in Holding
             PROVE  OpenSpan(d, s)'
  BY OthersKeep DEF OpenSpan, Holding
<1>1. TrailOf(s)' = TrailOf(s)
  <2>1. CASE UNCHANGED trail
    BY <2>1, TrailStays
  <2>2. ASSUME place[c] \in Holding, NEW type \in EventTypes, Audit(c, type) PROVE TrailOf(s)' = TrailOf(s)
    <3>1. s # subject[c]
      BY <2>2 DEF OneHolder
    <3> QED
      BY <2>2, <3>1, TrailGrows
  <2> QED
    BY <2>1, <2>2
<1>2. place'[d] = place[d] /\ subject'[d] = subject[d] /\ next'[d] = next[d]
  BY OthersKeep
<1>3. OpenSpan(d, s)
  BY DEF OpenSpans
<1>4. CASE place[d] = "stepping"
  BY <1>1, <1>2, <1>3, <1>4 DEF OpenSpan, Ends
<1>5. CASE place[d] \in {"enqueueing", "completing"}
  BY <1>1, <1>2, <1>3, <1>5 DEF OpenSpan, Ends
<1> QED
  BY <1>2, <1>4, <1>5 DEF OpenSpan

\* An event that fits the trail of its subject leaves every trail whole.
LEMMA SpansKept ==
    ASSUME TypeOK, SpansAreWhole, NEW c \in Calls, NEW type \in EventTypes, Audit(c, type),
           NEW s \in Subjects, s = subject[c],
           type \in {"step_succeeded", "step_failed"} => \E k \in Nat : Ends(TrailOf(s), k),
           type = "local_completed" => Ends(TrailOf(s), SubjectTable)
    PROVE  SpansAreWhole'
<1> SUFFICES ASSUME NEW r \in Subjects PROVE Whole(TrailOf(r))'
  BY DEF SpansAreWhole
<1>1. Whole(TrailOf(r)) /\ TrailOf(r) \in Seq(Events)
  BY TrailGrows DEF SpansAreWhole
<1>2. CASE r # s
  <2>1. TrailOf(r)' = TrailOf(r)
    BY <1>2, TrailGrows
  <2> QED
    BY <1>1, <2>1 DEF Whole
<1>3. CASE r = s
  <2> DEFINE t == TrailOf(s)
             e == Event(type, s)
  <2>1. t \in Seq(Events) /\ e \in Events /\ e.type = type
    BY <1>1, <1>3 DEF Event, Events
  <2>2. TrailOf(r)' = Append(t, e)
    BY <1>3, TrailGrows
  <2>3. Whole(t)
    BY <1>1, <1>3
  <2> HIDE DEF t, e
  <2>4. Whole(Append(t, e))
    BY <2>1, <2>3, WholeGrows DEF t
  <2> QED
    BY <2>2, <2>4 DEF Whole
<1> QED
  BY <1>2, <1>3

LEMMA SpansStep ==
    ASSUME Locking, TypeOK, LockInv, SpansAreWhole, OpenSpans, [Next]_vars
    PROVE  SpansAreWhole' /\ OpenSpans'
<1> USE DEF LockInv
<1>1. ASSUME NEW c \in Calls, CallStep(c) PROVE SpansAreWhole' /\ OpenSpans'
  <2> USE DEF Goto, transaction, database
  <2>0. PICK s \in Subjects : s = subject[c]
    BY DEF TypeOK
  <2> DEFINE t == TrailOf(s)
  <2>1. OpenSpan(c, s) /\ t \in Seq(Events)
    <3>1. t \in Seq(Events)
      <4> DEFINE I == {i \in DOMAIN trail : trail[i].subject = s}
      <4>1. trail \in Seq(Events) /\ I \in SUBSET (1..Len(trail))
        BY DEF TypeOK, Events
      <4> HIDE DEF I
      <4>2. EventsAt(trail, I) \in Seq(Events)
        BY <4>1, EventsStay
      <4> QED
        BY <4>2 DEF I, TrailOf
    <3> QED
      BY <3>1 DEF OpenSpans
  <2>2. ASSUME UNCHANGED trail,
               \/ place'[c] \notin {"stepping", "enqueueing", "completing"}
               \/ place[c] = "enqueueing" /\ place'[c] = "completing" /\ subject' = subject
        PROVE  SpansAreWhole' /\ OpenSpans'
    <3>1. SpansAreWhole'
      BY <2>2, TrailStays DEF SpansAreWhole, Whole
    <3>2. ASSUME NEW r \in Subjects PROVE OpenSpan(c, r)'
      <4>1. CASE place'[c] \notin {"stepping", "enqueueing", "completing"}
        BY <4>1 DEF OpenSpan
      <4>2. CASE place[c] = "enqueueing" /\ place'[c] = "completing" /\ subject' = subject
        <5>1. TrailOf(r)' = TrailOf(r) /\ OpenSpan(c, r)
          BY <2>2, TrailStays DEF OpenSpans
        <5> QED
          BY <4>2, <5>1 DEF OpenSpan, Ends
      <4> QED
        BY <2>2, <4>1, <4>2
    <3> QED
      BY <1>1, <2>2, <3>1, <3>2, OtherSpansStay DEF OpenSpans
  <2>3. ASSUME NEW q \in Subjects, EraseSubject(c, q) PROVE SpansAreWhole' /\ OpenSpans'
    BY <2>2, <2>3 DEF EraseSubject, TypeOK
  <2>4. CASE LockTombstone(c) \/ LockAnchors(c) \/ EnqueueAndMark(c)
    BY <2>2, <2>4 DEF LockTombstone, LockAnchors, EnqueueAndMark, TypeOK
  <2>5. CASE Commit(c) \/ RollBack(c)
    BY <2>2, <2>5 DEF Commit, RollBack, Close, TypeOK
  <2>6. ASSUME NEW type \in EventTypes, Audit(c, type), place[c] \in Holding, subject' = subject,
               type \in {"step_succeeded", "step_failed"} => \E k \in Nat : Ends(t, k),
               type = "local_completed" => Ends(t, SubjectTable),
               OpenSpan(c, s)'
        PROVE  SpansAreWhole' /\ OpenSpans'
    <3>1. SpansAreWhole'
      BY <2>0, <2>6, SpansKept
    <3>2. ASSUME NEW r \in Subjects PROVE OpenSpan(c, r)'
      BY <2>0, <2>6 DEF OpenSpan
    <3>3. \A d \in Calls \ {c}, r \in Subjects : OpenSpan(d, r)'
      BY <1>1, <2>6, OtherSpansStay
    <3> QED
      BY <3>1, <3>2, <3>3 DEF OpenSpans
  <2>7. ASSUME NEW type \in EventTypes, Audit(c, type)
        PROVE  /\ TrailOf(s)' = Append(t, Event(type, s))
               /\ Event(type, s) \in Events /\ Event(type, s).type = type
    BY <2>0, <2>7, TrailGrows DEF Event, Events
  <2>8. CASE Request(c)
    <3>1. place[c] \in Holding /\ Audit(c, "requested") /\ subject' = subject
      BY <2>8 DEF Request, Holding
    <3>2. place'[c] = "stepping" /\ next'[c] - 1 = 0
      BY <2>8 DEF Request, TypeOK, NothingEarly
    <3>3. Ends(TrailOf(s)', 0)
      BY <2>1, <2>7, <3>1, EndsGrow
    <3>4. OpenSpan(c, s)'
      BY <3>2, <3>3 DEF OpenSpan, Ends
    <3> QED
      BY <2>6, <3>1, <3>4
  <2>9. CASE Step(c)
    <3>1. /\ place[c] = "stepping" /\ place[c] \in Holding /\ Audit(c, "step_succeeded")
          /\ subject' = subject
      BY <2>9 DEF Step, Holding
    <3>2. next[c] \in Nat \ {0} /\ Ends(t, next[c] - 1)
      BY <2>0, <2>1, <3>1, ErasureAssumption DEF OpenSpan, TypeOK
    <3>3. PICK k \in Nat : k = next[c] - 1
      BY <3>2
    <3>4. Ends(TrailOf(s)', next[c])
      <4>1. Ends(Append(t, Event("step_succeeded", s)), k + 1)
        BY <2>1, <2>7, <3>1, <3>2, <3>3, EndsGrow
      <4>2. k + 1 = next[c]
        BY <3>2, <3>3
      <4> QED
        BY <2>7, <3>1, <4>1, <4>2
    <3>5. \/ next[c] = SubjectTable /\ place'[c] = "enqueueing"
          \/ place'[c] = "stepping" /\ next'[c] - 1 = next[c]
      BY <2>9, <3>2 DEF Step, Advance, TypeOK
    <3>6. OpenSpan(c, s)'
      BY <3>4, <3>5 DEF OpenSpan, Ends
    <3> QED
      BY <2>6, <3>1, <3>2, <3>6
  <2>10. CASE LocalCompleted(c)
    <3>1. /\ place[c] = "completing" /\ place[c] \in Holding /\ Audit(c, "local_completed")
          /\ subject' = subject /\ place'[c] = "committing"
      BY <2>10 DEF LocalCompleted, Holding, TypeOK
    <3>2. Ends(t, SubjectTable) /\ OpenSpan(c, s)'
      BY <2>0, <2>1, <3>1 DEF OpenSpan
    <3> QED
      BY <2>6, <3>1, <3>2
  <2>11. CASE StepFailed(c) \/ Refused(c)
    <3>1. /\ place[c] \in {"stepping", "enqueueing"} /\ place[c] \in Holding
          /\ Audit(c, "step_failed") /\ subject' = subject /\ place'[c] = "idle"
      BY <2>11 DEF StepFailed, Refused, Close, Holding, TypeOK
    <3>2. next[c] - 1 \in Nat /\ SubjectTable \in Nat
      BY ErasureAssumption DEF TypeOK
    <3>3. OpenSpan(c, s)' /\ \E k \in Nat : Ends(t, k)
      BY <2>0, <2>1, <3>1, <3>2 DEF OpenSpan
    <3> QED
      BY <2>6, <3>1, <3>3
  <2> QED
    BY <1>1, <2>3, <2>4, <2>5, <2>8, <2>9, <2>10, <2>11 DEF CallStep, Proceed
<1>2. ASSUME UNCHANGED <<trail, place, subject, next>> PROVE SpansAreWhole' /\ OpenSpans'
  BY <1>2, TrailStays DEF SpansAreWhole, Whole, OpenSpans, OpenSpan, Ends
<1>3. ASSUME NEW w \in Writers, WriterStep(w) PROVE SpansAreWhole' /\ OpenSpans'
  BY <1>2, <1>3, CallsKeep
<1> QED
  BY <1>1, <1>2, <1>3, NextIs DEF vars

\* The audit spans of one subject do not overlap, however many erasures of it are started:
\* with the lock, every event of a span follows its request, and a completion follows one
\* success for every step of the plan.
THEOREM SpansDoNotOverlap ==
    ASSUME Locking
    PROVE  Spec => []SpansAreWhole
<1>1. Init => SpansAreWhole /\ OpenSpans
  <2> SUFFICES ASSUME Init PROVE SpansAreWhole /\ OpenSpans
    OBVIOUS
  <2>1. ASSUME NEW s \in Subjects PROVE TrailOf(s) = <<>>
    <3>1. {i \in DOMAIN trail : trail[i].subject = s} = {}
      BY DEF Init
    <3>2. Cardinality({}) = 0
      BY FS_EmptySet
    <3>3. TrailOf(s) = [n \in 1..0 |-> trail[Nth({}, n)]]
      BY <3>1, <3>2 DEF TrailOf, EventsAt
    <3> QED
      BY <3>3
  <2>2. Whole(<<>>)
    BY DEF Whole
  <2> QED
    BY <2>1, <2>2 DEF Init, SpansAreWhole, OpenSpans, OpenSpan
<1>2. TypeOK /\ LockInv /\ SpansAreWhole /\ OpenSpans /\ [Next]_vars => SpansAreWhole' /\ OpenSpans'
  BY SpansStep
<1> QED
  BY <1>1, <1>2, TypeCorrect, LocksHold, PTL DEF Spec

-----------------------------------------------------------------------------
(* The attempts that backup replay reads.                                  *)

Attempting == [c \in Calls |-> IF place[c] \in {"stepping", "enqueueing", "completing"}
                               THEN subject[c] ELSE "nobody"]
Finished == [c \in Calls |-> IF place[c] = "committing" THEN {subject[c]} ELSE {}]

\* What the actions of ErasureAttempts say of them.
LEMMA AttemptActions ==
    ASSUME NEW c \in Calls
    PROVE  /\ UNCHANGED Attempts!attemptVars <=> UNCHANGED <<Visible, Attempting, Finished, owed>>
           /\ \A s \in Subjects :
                Attempts!Requested(c, s) <=>
                  /\ Attempting[c] = "nobody"
                  /\ Visible' = Append(Visible, Event("requested", s))
                  /\ Attempting' = [Attempting EXCEPT ![c] = s]
                  /\ UNCHANGED <<Finished, owed>>
           /\ Attempts!LocallyCompleted(c) <=>
                /\ Attempting[c] # "nobody"
                /\ Visible' = Append(Visible, Event("local_completed", Attempting[c]))
                /\ Finished' = [Finished EXCEPT ![c] = Finished[c] \cup {Attempting[c]}]
                /\ Attempting' = [Attempting EXCEPT ![c] = "nobody"]
                /\ UNCHANGED owed
           /\ Attempts!RolledBack(c) <=>
                /\ Attempting' = [Attempting EXCEPT ![c] = "nobody"]
                /\ Finished' = [Finished EXCEPT ![c] = {}]
                /\ UNCHANGED owed
           /\ Attempts!StepFailed(c) <=>
                /\ Attempting[c] # "nobody"
                /\ Visible' = Append(Visible, Event("step_failed", Attempting[c]))
                /\ Attempts!RolledBack(c)
           /\ Attempts!GivenUp(c) <=>
                /\ Attempting[c] # "nobody" \/ Finished[c] # {}
                /\ Attempts!RolledBack(c)
                /\ UNCHANGED Visible
           /\ Attempts!Committed(c) <=>
                /\ Attempting[c] = "nobody"
                /\ Finished[c] # {}
                /\ owed' = [s \in Subjects |-> IF s \in Finished[c] THEN owed[s] + 1 ELSE owed[s]]
                /\ Finished' = [Finished EXCEPT ![c] = {}]
                /\ UNCHANGED <<Visible, Attempting>>
<1> USE DEF Visible, Attempting, Finished, Event, Attempts!Event
<1>1. UNCHANGED Attempts!attemptVars <=> UNCHANGED <<Visible, Attempting, Finished, owed>>
  BY DEF Attempts!attemptVars
<1>2. ASSUME NEW s \in Subjects
      PROVE  Attempts!Requested(c, s) <=>
               /\ Attempting[c] = "nobody"
               /\ Visible' = Append(Visible, Event("requested", s))
               /\ Attempting' = [Attempting EXCEPT ![c] = s]
               /\ UNCHANGED <<Finished, owed>>
  BY DEF Attempts!Requested
<1>3. Attempts!LocallyCompleted(c) <=>
        /\ Attempting[c] # "nobody"
        /\ Visible' = Append(Visible, Event("local_completed", Attempting[c]))
        /\ Finished' = [Finished EXCEPT ![c] = Finished[c] \cup {Attempting[c]}]
        /\ Attempting' = [Attempting EXCEPT ![c] = "nobody"]
        /\ UNCHANGED owed
  BY DEF Attempts!LocallyCompleted
<1>4. Attempts!RolledBack(c) <=>
        /\ Attempting' = [Attempting EXCEPT ![c] = "nobody"]
        /\ Finished' = [Finished EXCEPT ![c] = {}]
        /\ UNCHANGED owed
  BY DEF Attempts!RolledBack
<1>5. Attempts!StepFailed(c) <=>
        /\ Attempting[c] # "nobody"
        /\ Visible' = Append(Visible, Event("step_failed", Attempting[c]))
        /\ Attempts!RolledBack(c)
  BY DEF Attempts!StepFailed
<1>6. Attempts!GivenUp(c) <=>
        /\ Attempting[c] # "nobody" \/ Finished[c] # {}
        /\ Attempts!RolledBack(c)
        /\ UNCHANGED Visible
  BY DEF Attempts!GivenUp
<1>7. Attempts!Committed(c) <=>
        /\ Attempting[c] = "nobody"
        /\ Finished[c] # {}
        /\ owed' = [s \in Subjects |-> IF s \in Finished[c] THEN owed[s] + 1 ELSE owed[s]]
        /\ Finished' = [Finished EXCEPT ![c] = {}]
        /\ UNCHANGED <<Visible, Attempting>>
  BY DEF Attempts!Committed
<1> QED
  BY <1>1, <1>2, <1>3, <1>4, <1>5, <1>6, <1>7

\* A step of a call is a step of its own attempt, and a stutter if that stands still.
LEMMA OneAttempt ==
    ASSUME TypeOK, TypeOK', NEW c \in Calls, CallStep(c)
    PROVE  /\ Attempting' = [Attempting EXCEPT ![c] = Attempting'[c]]
           /\ Finished' = [Finished EXCEPT ![c] = Finished'[c]]
           /\ Attempting'[c] = Attempting[c] => Attempting' = Attempting
           /\ Finished'[c] = Finished[c] => Finished' = Finished
<1>1. \A d \in Calls \ {c} : place'[d] = place[d] /\ subject'[d] = subject[d]
  BY OthersKeep
<1>2. \A d \in Calls \ {c} : Attempting'[d] = Attempting[d] /\ Finished'[d] = Finished[d]
  BY <1>1 DEF Attempting, Finished
<1>3. /\ Attempting = [d \in Calls |-> Attempting[d]] /\ Attempting' = [d \in Calls |-> Attempting'[d]]
      /\ Finished = [d \in Calls |-> Finished[d]] /\ Finished' = [d \in Calls |-> Finished'[d]]
  BY DEF Attempting, Finished
<1> QED
  BY <1>2, <1>3

\* Before the request, while the outbox entries are written, and with the application's
\* writes, the attempts stand still.
LEMMA AttemptsStand ==
    ASSUME TypeOK, TypeOK', NEW c \in Calls, CallStep(c), UNCHANGED <<trail, owed>>,
           Attempting'[c] = Attempting[c], Finished'[c] = Finished[c]
    PROVE  UNCHANGED Attempts!attemptVars
<1>1. Visible' = Visible
  BY DEF Visible
<1> QED
  BY <1>1, OneAttempt, AttemptActions

LEMMA AttemptsStep ==
    ASSUME "nobody" \notin Subjects, TypeOK, TypeOK', [Next]_vars
    PROVE  [Attempts!AttemptsNext]_(Attempts!attemptVars)
<1> DEFINE Goal == [Attempts!AttemptsNext]_(Attempts!attemptVars)
<1>1. ASSUME NEW c \in Calls, CallStep(c) PROVE Goal
  <2> USE DEF Goto, transaction, database
  <2>0. subject[c] \in Subjects /\ subject[c] # "nobody"
    BY DEF TypeOK
  <2>1. ASSUME NEW s \in Subjects, EraseSubject(c, s) PROVE Goal
    <3>1. Attempting'[c] = Attempting[c] /\ Finished'[c] = Finished[c]
      BY <2>1 DEF EraseSubject, Attempting, Finished, TypeOK
    <3> QED
      BY <1>1, <2>1, <3>1, AttemptsStand DEF EraseSubject
  <2>2. CASE LockTombstone(c) \/ LockAnchors(c) \/ EnqueueAndMark(c)
    <3>1. Attempting'[c] = Attempting[c] /\ Finished'[c] = Finished[c]
      BY <2>2 DEF LockTombstone, LockAnchors, EnqueueAndMark, Attempting, Finished, TypeOK
    <3> QED
      BY <1>1, <2>2, <3>1, AttemptsStand DEF LockTombstone, LockAnchors, EnqueueAndMark
  <2>3. CASE Request(c)
    <3>1. /\ Attempting[c] = "nobody" /\ Attempting'[c] = subject[c]
          /\ Finished[c] = {} /\ Finished'[c] = {} /\ owed' = owed
      BY <2>3 DEF Request, Attempting, Finished, TypeOK
    <3>2. Visible' = Append(Visible, Event("requested", subject[c]))
      BY <2>3, VisibleGrows DEF Request
    <3>3. PICK s \in Subjects : s = subject[c]
      BY <2>0
    <3>4. Attempts!Requested(c, s)
      BY <1>1, <3>1, <3>2, <3>3, OneAttempt, AttemptActions
    <3> QED
      BY <3>4 DEF Attempts!AttemptsNext
  <2>4. CASE Step(c)
    <3>1. /\ Attempting'[c] = Attempting[c] /\ Finished'[c] = Finished[c] /\ owed' = owed
      BY <2>4 DEF Step, Advance, Attempting, Finished, TypeOK
    <3>2. Visible' = Visible
      BY <2>4, VisibleGrows DEF Step
    <3> QED
      BY <1>1, <3>1, <3>2, OneAttempt, AttemptActions
  <2>5. CASE LocalCompleted(c)
    <3>1. /\ Attempting[c] = subject[c] /\ Attempting'[c] = "nobody"
          /\ Finished[c] = {} /\ Finished'[c] = {subject[c]} /\ owed' = owed
      BY <2>5 DEF LocalCompleted, Attempting, Finished, TypeOK
    <3>2. Visible' = Append(Visible, Event("local_completed", subject[c]))
      BY <2>5, VisibleGrows DEF LocalCompleted
    <3>3. Attempts!LocallyCompleted(c)
      BY <1>1, <2>0, <3>1, <3>2, OneAttempt, AttemptActions
    <3> QED
      BY <3>3 DEF Attempts!AttemptsNext
  <2>6. CASE Commit(c)
    <3>1. /\ Attempting[c] = "nobody" /\ Attempting'[c] = "nobody"
          /\ Finished[c] = {subject[c]} /\ Finished'[c] = {} /\ trail' = trail
      BY <2>6 DEF Commit, Close, Attempting, Finished, TypeOK
    <3>2. owed' = [s \in Subjects |-> IF s \in Finished[c] THEN owed[s] + 1 ELSE owed[s]]
      BY <2>6, <3>1 DEF Commit, TypeOK
    <3>3. Visible' = Visible
      BY <3>1 DEF Visible
    <3>4. Attempts!Committed(c)
      BY <1>1, <3>1, <3>2, <3>3, OneAttempt, AttemptActions
    <3> QED
      BY <3>4 DEF Attempts!AttemptsNext
  <2>7. CASE StepFailed(c) \/ Refused(c)
    <3>1. /\ Attempting[c] = subject[c] /\ Attempting'[c] = "nobody"
          /\ Finished'[c] = {} /\ owed' = owed
      BY <2>7 DEF StepFailed, Refused, Close, Attempting, Finished, TypeOK
    <3>2. Visible' = Append(Visible, Event("step_failed", subject[c]))
      BY <2>7, VisibleGrows DEF StepFailed, Refused
    <3>3. Attempts!StepFailed(c)
      BY <1>1, <2>0, <3>1, <3>2, OneAttempt, AttemptActions
    <3> QED
      BY <3>3 DEF Attempts!AttemptsNext
  <2>8. CASE RollBack(c)
    <3>1. Attempting'[c] = "nobody" /\ Finished'[c] = {} /\ owed' = owed /\ trail' = trail
      BY <2>8 DEF RollBack, Close, Attempting, Finished, TypeOK
    <3>2. CASE Attempting[c] = "nobody" /\ Finished[c] = {}
      BY <1>1, <3>1, <3>2, AttemptsStand
    <3>3. CASE ~(Attempting[c] = "nobody" /\ Finished[c] = {})
      <4>1. Visible' = Visible
        BY <3>1 DEF Visible
      <4>2. Attempts!GivenUp(c)
        BY <1>1, <3>1, <3>3, <4>1, OneAttempt, AttemptActions
      <4> QED
        BY <4>2 DEF Attempts!AttemptsNext
    <3> QED
      BY <3>2, <3>3
  <2> QED
    BY <1>1, <2>1, <2>2, <2>3, <2>4, <2>5, <2>6, <2>7, <2>8 DEF CallStep, Proceed
<1>2. ASSUME NEW w \in Writers, WriterStep(w) PROVE Goal
  BY <1>2, CallsKeep DEF Attempts!attemptVars
<1>3. CASE UNCHANGED vars
  BY <1>3 DEF vars, Attempts!attemptVars
<1> QED
  BY <1>1, <1>2, <1>3, NextIs

\* erase_subject implements the attempts that ErasureAttempts allows, and on which the
\* proofs about backup replay rest: its completion is on the trail before the commit, a
\* failure is on the trail only once nothing can be committed any more.
THEOREM TrailIsKept ==
    ASSUME "nobody" \notin Subjects
    PROVE  Spec => KeepsTheTrail
<1>1. Init => Attempts!AttemptsInit
  <2> SUFFICES ASSUME Init PROVE Attempts!AttemptsInit
    OBVIOUS
  <2>1. {i \in DOMAIN trail : trail[i].type # "step_succeeded"} = {}
    BY DEF Init
  <2>2. Visible = <<>>
    <3>1. Cardinality({}) = 0
      BY FS_EmptySet
    <3>2. Visible = [n \in 1..0 |-> trail[Nth({}, n)]]
      BY <2>1, <3>1 DEF Visible, EventsAt
    <3> QED
      BY <3>2
  <2> QED
    BY <2>2 DEF Init, Attempts!AttemptsInit, Visible
<1>2. TypeOK /\ TypeOK' /\ [Next]_vars => [Attempts!AttemptsNext]_(Attempts!attemptVars)
  BY AttemptsStep
<1> QED
  BY <1>1, <1>2, TypeCorrect, PTL DEF Spec, KeepsTheTrail, Attempts!AttemptsSpec

=============================================================================

---------------------------- MODULE ReplayProofs ----------------------------
(***************************************************************************)
(* Proofs about the backup replay, for any number of sessions, subjects,   *)
(* attempts and failures.                                                  *)
(*                                                                         *)
(* The plan reads the trail only, so the proof has to relate the trail to  *)
(* the database at every moment a restore may come: from the backup on,    *)
(* the window shows a completion of everything committed since and of      *)
(* everything that some transaction has finished and may still commit.     *)
(***************************************************************************)
EXTENDS Replay, TLAPS

Restored == {"restored", "replaying", "replayed"}

\* The window starts at the end of the trail at the latest.
WindowIsOpen == phase # "unprotected" => backup.start <= Len(trail) + 1

CommittedIsShown ==
    phase = "protected" =>
        \A s \in Subjects : erased[s] > backup.erased[s] => Shows(s, "local_completed")

FinishedIsShown ==
    phase = "protected" =>
        \A c \in Calls : \A s \in finished[c] : Shows(s, "local_completed")

LostIsShown == phase \in Restored => \A s \in lost : Shows(s, "local_completed")

Coverage == WindowIsOpen /\ CommittedIsShown /\ FinishedIsShown /\ LostIsShown
            /\ LostErasuresArePlanned

\* Where the replay is between two of its steps.
InPlace ==
    /\ announced # NoSubject => phase = "replaying"
    /\ phase # "replaying" => attempting[Replayer] = NoSubject /\ finished[Replayer] = {}
    /\ attempting[Replayer] # NoSubject => announced = attempting[Replayer]
    /\ phase = "replaying" => finished[Replayer] \subseteq plan.entries

TInv == TypeOK /\ InPlace

-----------------------------------------------------------------------------
(* Type correctness.                                                       *)

LEMMA TypeInit == Init => TInv
  BY NoSubjectAssumption, ReplayAssumption
     DEF Init, AttemptsInit, TInv, TypeOK, AttemptsTypeOK, InPlace, Phases, NoPlan

\* What the steps of erase_subject and its caller leave typed.
LEMMA AttemptTyped ==
  ASSUME AttemptsTypeOK, NEW c \in Calls,
         \/ \E s \in Subjects : Requested(c, s)
         \/ LocallyCompleted(c) \/ StepFailed(c) \/ GivenUp(c) \/ Committed(c)
         \/ (RolledBack(c) /\ UNCHANGED trail)
  PROVE  /\ AttemptsTypeOK'
         /\ \A d \in Calls \ {c} : attempting'[d] = attempting[d] /\ finished'[d] = finished[d]
<1>1. CASE \E s \in Subjects : Requested(c, s)
  BY <1>1 DEF Requested, AttemptsTypeOK, Event, EventTypes
<1>2. CASE LocallyCompleted(c)
  BY <1>2, NoSubjectAssumption DEF LocallyCompleted, AttemptsTypeOK, Event, EventTypes
<1>3. CASE StepFailed(c)
  BY <1>3, NoSubjectAssumption DEF StepFailed, RolledBack, AttemptsTypeOK, Event, EventTypes
<1>4. CASE GivenUp(c) \/ (RolledBack(c) /\ UNCHANGED trail)
  BY <1>4 DEF GivenUp, RolledBack, AttemptsTypeOK
<1>5. CASE Committed(c)
  BY <1>5 DEF Committed, AttemptsTypeOK
<1>. QED  BY <1>1, <1>2, <1>3, <1>4, <1>5

\* The application touches neither the operator's state nor the replay's session.
LEMMA ApplicationTyped ==
  ASSUME TInv, NEW c \in Calls,
         (\E s \in Subjects : Begin(c, s)) \/ GoOn(c) \/ Fail(c)
  PROVE  TInv'
<1>1. AttemptsTypeOK
  BY DEF TInv, TypeOK
<1>2. /\ c # Replayer
      /\ UNCHANGED operatorVars
      /\ \/ \E s \in Subjects : Requested(c, s)
         \/ LocallyCompleted(c) \/ StepFailed(c) \/ GivenUp(c) \/ Committed(c)
  BY DEF Begin, GoOn, Fail, operatorVars
<1>3. calls' \in 0..MaxCalls /\ faults' \in 0..MaxFaults
  BY ReplayAssumption DEF Begin, GoOn, Fail, TInv, TypeOK
<1>4. AttemptsTypeOK' /\ attempting'[Replayer] = attempting[Replayer]
                      /\ finished'[Replayer] = finished[Replayer]
  BY <1>1, <1>2, AttemptTyped, ReplayAssumption
<1>5. TypeOK'
  BY <1>2, <1>3, <1>4 DEF TInv, TypeOK, operatorVars
<1>6. InPlace'
  BY <1>2, <1>4 DEF TInv, InPlace, operatorVars
<1>. QED  BY <1>5, <1>6 DEF TInv

LEMMA BackupTyped ==
  ASSUME TInv, TakeBackup \/ Restore  PROVE TInv'
<1>1. CASE TakeBackup
  <2>1. backup' \in [erased : [Subjects -> Nat], start : Nat]
    BY <1>1 DEF TakeBackup, TInv, TypeOK, AttemptsTypeOK
  <2>. QED
    BY <1>1, <2>1 DEF TakeBackup, TInv, TypeOK, AttemptsTypeOK, attemptVars, InPlace, Phases
<1>2. CASE Restore
  BY <1>2, ReplayAssumption DEF Restore, TInv, TypeOK, AttemptsTypeOK, InPlace, Phases
<1>. QED  BY <1>1, <1>2

LEMMA ReplayTyped ==
  ASSUME TInv, ReplayStep \/ FailReplay  PROVE TInv'
<1>. USE ReplayAssumption, NoSubjectAssumption
<1>1. AttemptsTypeOK /\ phase \in Phases /\ todo \subseteq plan.entries
      /\ announced \in todo \cup {NoSubject} /\ plan.entries \subseteq Subjects
  BY DEF TInv, TypeOK
<1>2. CASE DerivePlan
  <2>1. /\ Entries \subseteq Subjects /\ FailedOnly \subseteq Subjects
        /\ Indeterminate \subseteq Subjects
        /\ \A s \in Subjects : After(s) \subseteq Subjects
    BY DEF Entries, FailedOnly, Indeterminate, After
  <2>2. plan' \in [entries : SUBSET Subjects, failed_only : SUBSET Subjects,
                   indeterminate : SUBSET Subjects, after : [Subjects -> SUBSET Subjects]]
    BY <1>2, <2>1 DEF DerivePlan
  <2>3. todo' = plan'.entries
    BY <1>2 DEF DerivePlan
  <2>4. announced = NoSubject /\ attempting[Replayer] = NoSubject /\ finished[Replayer] = {}
    BY <1>2 DEF DerivePlan, TInv, InPlace
  <2>5. TypeOK'
    BY <1>2, <2>2, <2>3, <2>4 DEF DerivePlan, TInv, TypeOK, AttemptsTypeOK, attemptVars, Phases
  <2>6. InPlace'
    BY <1>2, <2>4 DEF DerivePlan, InPlace, attemptVars
  <2>. QED  BY <2>5, <2>6 DEF TInv
<1>3. ASSUME NEW s \in Subjects, Announce(s)  PROVE TInv'
  <2>1. trail' \in Seq([type : EventTypes, subject : Subjects])
    BY <1>1, <1>3 DEF Announce, AttemptsTypeOK, Event, EventTypes
  <2>. QED
    BY <1>1, <1>3, <2>1 DEF Announce, TInv, TypeOK, AttemptsTypeOK, InPlace
<1>4. CASE EraseAgain
  <2>1. announced \in Subjects /\ phase = "replaying"
    BY <1>1, <1>4 DEF EraseAgain, TInv, InPlace
  <2>2. AttemptsTypeOK'
    BY <1>1, <1>4, <2>1, AttemptTyped DEF EraseAgain
  <2>3. /\ attempting'[Replayer] = announced
        /\ UNCHANGED <<finished, phase, backup, lost, plan, todo, announced, calls, faults>>
    BY <1>1, <1>4 DEF EraseAgain, Requested, AttemptsTypeOK, operatorVars
  <2>. QED
    BY <2>1, <2>2, <2>3 DEF TInv, TypeOK, InPlace
<1>5. CASE ErasedAgain
  <2>1. /\ AttemptsTypeOK'
        /\ attempting[Replayer] # NoSubject
        /\ attempting'[Replayer] = NoSubject
        /\ finished'[Replayer] = finished[Replayer] \cup {attempting[Replayer]}
    BY <1>1, <1>5, AttemptTyped DEF ErasedAgain, LocallyCompleted, AttemptsTypeOK
  <2>2. announced = attempting[Replayer] /\ announced \in todo /\ phase = "replaying"
        /\ finished[Replayer] \subseteq plan.entries
    BY <1>1, <2>1 DEF TInv, InPlace
  <2>3. todo' \subseteq plan.entries /\ announced' = NoSubject
        /\ UNCHANGED <<phase, backup, lost, plan, calls, faults>>
    BY <1>1, <1>5 DEF ErasedAgain
  <2>4. TypeOK'
    BY <2>1, <2>3 DEF TInv, TypeOK
  <2>5. InPlace'
    BY <1>1, <2>1, <2>2, <2>3 DEF InPlace
  <2>. QED  BY <2>4, <2>5 DEF TInv
<1>6. CASE CommitReplay
  <2>1. announced = NoSubject
    BY <1>1, <1>6 DEF CommitReplay
  <2>2. attempting[Replayer] = NoSubject /\ finished[Replayer] \subseteq plan.entries
    BY <1>6, <2>1 DEF CommitReplay, TInv, InPlace
  <2>3. AttemptsTypeOK' /\ attempting'[Replayer] = NoSubject /\ finished'[Replayer] = {}
    <3>1. CASE Committed(Replayer)
      <4>1. AttemptsTypeOK'
        BY <1>1, <3>1, AttemptTyped
      <4>. QED
        BY <1>1, <2>2, <3>1, <4>1 DEF Committed, AttemptsTypeOK
    <3>2. CASE plan.entries = {} /\ UNCHANGED attemptVars
      BY <1>1, <2>2, <3>2 DEF attemptVars, AttemptsTypeOK
    <3>. QED  BY <1>6, <3>1, <3>2 DEF CommitReplay
  <2>4. phase' = "replayed" /\ UNCHANGED <<backup, lost, plan, todo, announced, calls, faults>>
    BY <1>6 DEF CommitReplay
  <2>. QED
    BY <2>1, <2>3, <2>4 DEF TInv, TypeOK, InPlace, Phases
<1>7. CASE FailReplay
  <2>1. StepFailed(Replayer) \/ (RolledBack(Replayer) /\ UNCHANGED trail)
    BY <1>7 DEF FailReplay
  <2>2. AttemptsTypeOK'
    BY <1>1, <2>1, AttemptTyped
  <2>3. attempting'[Replayer] = NoSubject /\ finished'[Replayer] = {}
    BY <1>1, <2>1 DEF StepFailed, RolledBack, AttemptsTypeOK
  <2>. QED
    BY <1>7, <2>2, <2>3 DEF FailReplay, TInv, TypeOK, InPlace, Phases
<1>. QED  BY <1>2, <1>3, <1>4, <1>5, <1>6, <1>7 DEF ReplayStep

LEMMA TypeStep == TInv /\ [Next]_vars => TInv'
<1>. SUFFICES ASSUME TInv, [Next]_vars  PROVE TInv'
  OBVIOUS
<1>1. CASE UNCHANGED vars
  BY <1>1 DEF TInv, TypeOK, AttemptsTypeOK, InPlace, vars
<1>. QED
  BY <1>1, ApplicationTyped, BackupTyped, ReplayTyped DEF Next

\* Every reachable state is well formed, and a plan never runs anything that is
\* not among its entries: failed and interrupted attempts are not replayed.
THEOREM TypeCorrect == Spec => []TypeOK
<1>1. Spec => []TInv
  BY TypeInit, TypeStep, PTL DEF Spec
<1>. QED  BY <1>1, PTL DEF TInv

-----------------------------------------------------------------------------
(* The plan covers what the restore undid.                                 *)

\* What the window shows it goes on showing.
LEMMA ShowsStay ==
  ASSUME TypeOK, NEW s, NEW type, Shows(s, type), UNCHANGED backup,
         \/ UNCHANGED trail
         \/ \E e \in [type : EventTypes, subject : Subjects] : trail' = Append(trail, e)
  PROVE  Shows(s, type)'
<1>1. PICK i \in DOMAIN trail : i >= backup.start /\ trail[i] = Event(type, s)
  BY DEF Shows, Window
<1>2. i \in DOMAIN trail' /\ trail'[i] = trail[i]
  <2>1. trail \in Seq([type : EventTypes, subject : Subjects])
    BY DEF TypeOK, AttemptsTypeOK
  <2>2. ASSUME NEW e \in [type : EventTypes, subject : Subjects], trail' = Append(trail, e)
        PROVE  i \in DOMAIN trail' /\ trail'[i] = trail[i]
    BY <2>1, <2>2
  <2>. QED  BY <2>2
<1>. QED
  BY <1>1, <1>2 DEF Shows, Window, Event

\* A completion that is appended is in the window.
LEMMA CompletionShows ==
  ASSUME TypeOK, WindowIsOpen, phase # "unprotected", UNCHANGED backup,
         NEW s \in Subjects, trail' = Append(trail, Event("local_completed", s))
  PROVE  Shows(s, "local_completed")'
<1>1. /\ Len(trail) + 1 \in DOMAIN trail'
      /\ trail'[Len(trail) + 1] = Event("local_completed", s)
  BY DEF TypeOK, AttemptsTypeOK, Event, EventTypes
<1>. QED
  BY <1>1 DEF WindowIsOpen, Shows, Window, Event

\* The trail only grows.
LEMMA TrailGrows ==
  ASSUME TInv, [Next]_vars
  PROVE  \/ UNCHANGED trail
         \/ \E e \in [type : EventTypes, subject : Subjects] : trail' = Append(trail, e)
<1>1. ASSUME NEW c \in Calls,
             \/ \E s \in Subjects : Requested(c, s)
             \/ LocallyCompleted(c) \/ StepFailed(c) \/ GivenUp(c) \/ Committed(c)
             \/ (RolledBack(c) /\ UNCHANGED trail)
      PROVE  \/ UNCHANGED trail
             \/ \E e \in [type : EventTypes, subject : Subjects] : trail' = Append(trail, e)
  <2>1. attempting[c] # NoSubject => attempting[c] \in Subjects
    BY DEF TInv, TypeOK, AttemptsTypeOK
  <2>. QED
    BY <1>1, <2>1 DEF Requested, LocallyCompleted, StepFailed, GivenUp, Committed,
                      Event, EventTypes
<1>2. ASSUME NEW s \in Subjects, Announce(s)
      PROVE  \E e \in [type : EventTypes, subject : Subjects] : trail' = Append(trail, e)
  BY <1>2 DEF Announce, Event, EventTypes
<1>3. announced # NoSubject => announced \in Subjects
  BY DEF TInv, TypeOK
<1>4. CASE UNCHANGED vars
  BY <1>4 DEF vars
<1>5. CASE TakeBackup \/ Restore \/ DerivePlan
  BY <1>5 DEF TakeBackup, Restore, DerivePlan, attemptVars
<1>6. CASE EraseAgain
  BY <1>1, <1>3, <1>6, ReplayAssumption DEF EraseAgain
<1>7. CASE ErasedAgain
  BY <1>1, <1>7, ReplayAssumption DEF ErasedAgain
<1>8. CASE CommitReplay
  BY <1>1, <1>8, ReplayAssumption DEF CommitReplay, attemptVars
<1>9. CASE FailReplay
  BY <1>1, <1>9, ReplayAssumption DEF FailReplay
<1>10. ASSUME NEW c \in Calls, (\E s \in Subjects : Begin(c, s)) \/ GoOn(c) \/ Fail(c)
       PROVE  \/ UNCHANGED trail
              \/ \E e \in [type : EventTypes, subject : Subjects] : trail' = Append(trail, e)
  BY <1>1, <1>10 DEF Begin, GoOn, Fail
<1>. QED
  BY <1>2, <1>4, <1>5, <1>6, <1>7, <1>8, <1>9, <1>10 DEF Next, ReplayStep

LEMMA CoverageInit == Init => Coverage
  BY DEF Init, Coverage, WindowIsOpen, CommittedIsShown, FinishedIsShown, LostIsShown,
         LostErasuresArePlanned, Restored

LEMMA CoverageStep ==
  ASSUME QuietBackups, TInv, Coverage, [Next]_vars  PROVE Coverage'
<1>1. /\ WindowIsOpen /\ CommittedIsShown /\ FinishedIsShown /\ LostIsShown
      /\ LostErasuresArePlanned /\ TypeOK
  BY DEF Coverage, TInv
<1>2. Len(trail) \in Nat /\ Len(trail') \in Nat /\ Len(trail) <= Len(trail')
  BY <1>1, TrailGrows DEF TypeOK, AttemptsTypeOK
<1>3. CASE TakeBackup
  <2>1. /\ backup'.erased = erased /\ erased' = erased
        /\ backup'.start \in {Len(trail), Len(trail) + 1} /\ trail' = trail
        /\ phase' = "protected" /\ finished' = finished
        /\ \A c \in Calls : finished[c] = {}
    BY <1>3 DEF TakeBackup, attemptVars
  <2>2. \A s \in Subjects : ~(erased'[s] > backup'.erased[s])
    BY <1>1, <2>1 DEF TypeOK, AttemptsTypeOK
  <2>. QED
    BY <1>2, <2>1, <2>2 DEF Coverage, WindowIsOpen, CommittedIsShown, FinishedIsShown, LostIsShown,
       LostErasuresArePlanned, Restored
<1>4. CASE Restore
  <2>1. /\ phase = "protected" /\ phase' = "restored" /\ UNCHANGED <<trail, backup>>
        /\ lost' = {s \in Subjects : erased[s] > backup.erased[s]}
    BY <1>4 DEF Restore
  <2>2. \A s \in lost' : Shows(s, "local_completed")'
    BY <1>1, <2>1, ShowsStay DEF CommittedIsShown
  <2>. QED
    BY <1>1, <2>1, <2>2 DEF Coverage, WindowIsOpen, CommittedIsShown, FinishedIsShown, LostIsShown,
       LostErasuresArePlanned, Restored
<1>5. CASE DerivePlan
  <2>1. /\ phase = "restored" /\ phase' = "replaying" /\ UNCHANGED <<trail, backup, lost>>
        /\ plan'.entries = Entries
    BY <1>5 DEF DerivePlan, attemptVars
  <2>2. \A s \in lost : s \in Subjects /\ Shows(s, "local_completed")
    BY <1>1, <2>1 DEF LostIsShown, Restored, TypeOK
  <2>3. \A s \in lost' : Shows(s, "local_completed")'
    BY <1>1, <2>1, <2>2, ShowsStay
  <2>. QED
    BY <1>1, <2>1, <2>2, <2>3 DEF Coverage, WindowIsOpen, CommittedIsShown, FinishedIsShown,
       LostIsShown, LostErasuresArePlanned, Restored, Entries
<1>6. ASSUME UNCHANGED <<backup, lost, plan>>,
             \/ phase \in Restored /\ phase' \in Restored
             \/ phase' = phase /\ phase # "protected"
      PROVE  (phase \in Restored => (phase' \in {"replaying", "replayed"}
                                       => phase \in {"replaying", "replayed"}))
                => Coverage'
  <2>. SUFFICES ASSUME phase \in Restored => (phase' \in {"replaying", "replayed"}
                                                => phase \in {"replaying", "replayed"})
                PROVE  Coverage'
    OBVIOUS
  <2>1. \A s \in lost : Shows(s, "local_completed") => Shows(s, "local_completed")'
    BY <1>1, <1>6, TrailGrows, ShowsStay
  <2>2. LostIsShown'
    BY <1>1, <1>6, <2>1 DEF LostIsShown, Restored
  <2>3. WindowIsOpen'
    BY <1>1, <1>2, <1>6 DEF WindowIsOpen, Restored, TypeOK
  <2>4. phase' # "protected"
    BY <1>6 DEF Restored
  <2>. QED
    BY <1>1, <1>6, <2>2, <2>3, <2>4 DEF Coverage, CommittedIsShown, FinishedIsShown,
       LostErasuresArePlanned, Restored
<1>7. ASSUME NEW s \in Subjects, Announce(s)  PROVE Coverage'
  BY <1>6, <1>7 DEF Announce, Restored
<1>8. CASE EraseAgain
  BY <1>6, <1>8 DEF EraseAgain, TInv, InPlace, operatorVars, Restored
<1>9. CASE ErasedAgain
  <2>1. attempting[Replayer] # NoSubject
    BY <1>9 DEF ErasedAgain, LocallyCompleted
  <2>2. phase = "replaying"
    BY <2>1 DEF TInv, InPlace
  <2>. QED  BY <1>6, <1>9, <2>2 DEF ErasedAgain, Restored
<1>10. CASE CommitReplay
  BY <1>6, <1>10 DEF CommitReplay, Restored
<1>11. CASE FailReplay
  BY <1>6, <1>11 DEF FailReplay, Restored
<1>12. ASSUME NEW c \in Calls, (\E s \in Subjects : Begin(c, s)) \/ GoOn(c) \/ Fail(c)
       PROVE  Coverage'
  <2>1. /\ UNCHANGED operatorVars
        /\ \/ \E s \in Subjects : Requested(c, s)
           \/ LocallyCompleted(c) \/ StepFailed(c) \/ GivenUp(c) \/ Committed(c)
    BY <1>12 DEF Begin, GoOn, Fail
  <2>2. CASE phase # "protected"
    BY <1>6, <2>1, <2>2 DEF operatorVars
  <2>3. CASE phase = "protected"
    <3>1. \A s \in Subjects : Shows(s, "local_completed") => Shows(s, "local_completed")'
      BY <1>1, <2>1, TrailGrows, ShowsStay DEF operatorVars
    <3>2. \A d \in Calls : finished[d] \subseteq Subjects
      BY <1>1 DEF TypeOK, AttemptsTypeOK
    <3>3. FinishedIsShown'
      <4>1. CASE LocallyCompleted(c)
        <5>1. PICK s \in Subjects : /\ attempting[c] = s
                                    /\ trail' = Append(trail, Event("local_completed", s))
          BY <1>1, <4>1 DEF LocallyCompleted, TypeOK, AttemptsTypeOK
        <5>2. Shows(s, "local_completed")'
          BY <1>1, <2>1, <2>3, <5>1, CompletionShows DEF operatorVars
        <5>3. \A d \in Calls : finished'[d] \subseteq finished[d] \cup {s}
          BY <1>1, <4>1, <5>1 DEF LocallyCompleted, TypeOK, AttemptsTypeOK
        <5>4. \A d \in Calls : \A t \in finished'[d] : Shows(t, "local_completed")'
          BY <1>1, <2>3, <3>1, <3>2, <5>2, <5>3 DEF FinishedIsShown
        <5>. QED  BY <5>4 DEF FinishedIsShown
      <4>2. CASE ~LocallyCompleted(c)
        <5>1. \A d \in Calls : finished'[d] \subseteq finished[d]
          BY <1>1, <2>1, <4>2 DEF Requested, StepFailed, GivenUp, RolledBack, Committed,
             TypeOK, AttemptsTypeOK
        <5>. QED
          BY <1>1, <2>3, <3>1, <3>2, <5>1 DEF FinishedIsShown
      <4>. QED  BY <4>1, <4>2
    <3>4. CommittedIsShown'
      <4>1. \A s \in Subjects : erased'[s] = erased[s] \/ s \in finished[c]
        BY <1>1, <2>1 DEF Requested, LocallyCompleted, StepFailed, GivenUp, RolledBack,
           Committed, TypeOK, AttemptsTypeOK
      <4>2. \A s \in Subjects : erased'[s] > backup.erased[s] => Shows(s, "local_completed")
        BY <1>1, <2>3, <4>1 DEF CommittedIsShown, FinishedIsShown
      <4>. QED
        BY <2>1, <3>1, <4>2 DEF CommittedIsShown, operatorVars
    <3>. QED
      BY <1>1, <1>2, <2>1, <2>3, <3>3, <3>4 DEF Coverage, WindowIsOpen, LostIsShown,
         LostErasuresArePlanned, Restored, operatorVars, TypeOK
  <2>. QED  BY <2>2, <2>3
<1>13. CASE UNCHANGED vars
  BY <1>1, <1>13, ShowsStay DEF vars, Coverage, WindowIsOpen, CommittedIsShown, FinishedIsShown,
     LostIsShown, LostErasuresArePlanned, Shows, Window
<1>. QED
  BY <1>3, <1>4, <1>5, <1>7, <1>8, <1>9, <1>10, <1>11, <1>12, <1>13 DEF Next, ReplayStep

\* If no finished erasure is uncommitted at the instant of the backup, every plan
\* derived after the restore names every erasure the restore undid.
THEOREM PlansAreComplete ==
  ASSUME QuietBackups  PROVE Spec => []LostErasuresArePlanned
<1>1. TInv /\ Coverage /\ [Next]_vars => (TInv /\ Coverage)'
  BY TypeStep, CoverageStep
<1>2. Init => TInv /\ Coverage
  BY TypeInit, CoverageInit
<1>3. Coverage => LostErasuresArePlanned
  BY DEF Coverage
<1>. QED  BY <1>1, <1>2, <1>3, PTL DEF Spec

-----------------------------------------------------------------------------
(* A replay is committed as a whole, and with its evidence.                *)

NothingIsUndone == \A s \in Subjects : erased[s] >= backup.erased[s]

DoneIsFinished == phase = "replaying" => plan.entries \ todo \subseteq finished[Replayer]

Replayed(s) == \E i \in DOMAIN trail : trail[i] = Event("replayed", s)

Evidenced(s) == \E i, j \in DOMAIN trail : /\ i < j
                                           /\ trail[i] = Event("replayed", s)
                                           /\ trail[j] = Event("local_completed", s)

ReplayIsEvidenced ==
    /\ announced # NoSubject => Replayed(announced)
    /\ \A s \in finished[Replayer] : Evidenced(s)

Wholeness == NothingIsUndone /\ DoneIsFinished /\ ReplayIsWhole /\ ReplayIsEvidenced

LEMMA WholenessInit == Init => Wholeness
  BY ReplayAssumption DEF Init, AttemptsInit, Wholeness, NothingIsUndone, DoneIsFinished,
     ReplayIsWhole, ReplayIsEvidenced

\* Evidence stays on a trail that only grows.
LEMMA EvidenceStays ==
  ASSUME TypeOK, NEW s,
         \/ UNCHANGED trail
         \/ \E e \in [type : EventTypes, subject : Subjects] : trail' = Append(trail, e)
  PROVE  /\ Replayed(s) => Replayed(s)'
         /\ Evidenced(s) => Evidenced(s)'
<1>1. trail \in Seq([type : EventTypes, subject : Subjects])
  BY DEF TypeOK, AttemptsTypeOK
<1>2. \A i \in DOMAIN trail : i \in DOMAIN trail' /\ trail'[i] = trail[i]
  <2>1. ASSUME NEW e \in [type : EventTypes, subject : Subjects], trail' = Append(trail, e),
               NEW i \in DOMAIN trail
        PROVE  i \in DOMAIN trail' /\ trail'[i] = trail[i]
    BY <1>1, <2>1
  <2>. QED  BY <2>1
<1>. QED  BY <1>2 DEF Replayed, Evidenced, Event

LEMMA WholenessStep ==
  ASSUME TInv, Wholeness, [Next]_vars  PROVE Wholeness'
<1>1. /\ NothingIsUndone /\ DoneIsFinished /\ ReplayIsWhole /\ ReplayIsEvidenced
      /\ TypeOK /\ InPlace /\ AttemptsTypeOK /\ Replayer \in Calls
      /\ plan.entries \subseteq Subjects
  BY ReplayAssumption DEF Wholeness, TInv, TypeOK
<1>2. \A s : (Replayed(s) => Replayed(s)') /\ (Evidenced(s) => Evidenced(s)')
  BY <1>1, TrailGrows, EvidenceStays
<1>3. ASSUME UNCHANGED <<phase, backup, plan, todo, announced>>,
             finished'[Replayer] = finished[Replayer],
             \A s \in Subjects : erased'[s] >= erased[s],
             erased' \in [Subjects -> Nat]
      PROVE  Wholeness'
  <2>1. ReplayIsEvidenced'
    BY <1>1, <1>2, <1>3 DEF ReplayIsEvidenced
  <2>2. NothingIsUndone' /\ ReplayIsWhole'
    BY <1>1, <1>3 DEF NothingIsUndone, ReplayIsWhole, TypeOK, AttemptsTypeOK
  <2>. QED
    BY <1>1, <1>3, <2>1, <2>2 DEF Wholeness, DoneIsFinished
<1>4. ASSUME NEW c \in Calls, (\E s \in Subjects : Begin(c, s)) \/ GoOn(c) \/ Fail(c)
      PROVE  Wholeness'
  <2>1. /\ c # Replayer
        /\ UNCHANGED operatorVars
        /\ \/ \E s \in Subjects : Requested(c, s)
           \/ LocallyCompleted(c) \/ StepFailed(c) \/ GivenUp(c) \/ Committed(c)
    BY <1>4 DEF Begin, GoOn, Fail
  <2>2. finished'[Replayer] = finished[Replayer] /\ erased' \in [Subjects -> Nat]
    BY <1>1, <2>1, AttemptTyped DEF AttemptsTypeOK
  <2>3. \A s \in Subjects : erased'[s] >= erased[s]
    BY <1>1, <2>1 DEF Requested, LocallyCompleted, StepFailed, GivenUp, RolledBack,
       Committed, AttemptsTypeOK
  <2>. QED  BY <1>3, <2>1, <2>2, <2>3 DEF operatorVars
<1>5. CASE TakeBackup
  <2>1. /\ backup'.erased = erased /\ phase' = "protected"
        /\ UNCHANGED <<attemptVars, plan, todo, announced>>
    BY <1>5 DEF TakeBackup
  <2>. QED
    BY <1>1, <1>2, <2>1 DEF Wholeness, NothingIsUndone, DoneIsFinished, ReplayIsWhole,
       ReplayIsEvidenced, attemptVars, AttemptsTypeOK
<1>6. CASE Restore
  <2>1. /\ erased' = backup.erased /\ phase' = "restored" /\ finished'[Replayer] = {}
        /\ UNCHANGED <<trail, backup, plan, todo, announced>>
    BY <1>1, <1>6 DEF Restore
  <2>. QED
    BY <1>1, <1>2, <2>1 DEF Wholeness, NothingIsUndone, DoneIsFinished, ReplayIsWhole,
       ReplayIsEvidenced, TypeOK
<1>7. CASE DerivePlan
  <2>1. /\ phase' = "replaying" /\ todo' = plan'.entries /\ announced = NoSubject
        /\ UNCHANGED <<attemptVars, backup, announced>>
    BY <1>1, <1>7 DEF DerivePlan, InPlace
  <2>. QED
    BY <1>1, <1>2, <2>1 DEF Wholeness, NothingIsUndone, DoneIsFinished, ReplayIsWhole,
       ReplayIsEvidenced, attemptVars
<1>8. ASSUME NEW s \in Subjects, Announce(s)  PROVE Wholeness'
  <2>1. /\ UNCHANGED <<finished, erased, phase, backup, plan, todo>>
        /\ phase = "replaying" /\ announced' = s
        /\ trail' = Append(trail, Event("replayed", s))
    BY <1>8 DEF Announce
  <2>2. Replayed(s)'
    <3>1. /\ Len(trail) + 1 \in DOMAIN trail'
          /\ trail'[Len(trail) + 1] = Event("replayed", s)
      BY <1>1, <2>1 DEF AttemptsTypeOK, Event, EventTypes
    <3>. QED  BY <3>1 DEF Replayed, Event
  <2>3. ReplayIsEvidenced'
    BY <1>1, <1>2, <2>1, <2>2 DEF ReplayIsEvidenced
  <2>. QED
    BY <1>1, <2>1, <2>3 DEF Wholeness, NothingIsUndone, DoneIsFinished, ReplayIsWhole
<1>9. CASE EraseAgain
  <2>1. UNCHANGED <<finished, erased, phase, backup, plan, todo, announced>>
    BY <1>9 DEF EraseAgain, Requested, operatorVars
  <2>. QED
    BY <1>1, <1>3, <2>1 DEF AttemptsTypeOK
<1>10. CASE ErasedAgain
  <2>1. PICK s \in Subjects : attempting[Replayer] = s
    BY <1>1, <1>10 DEF ErasedAgain, LocallyCompleted, AttemptsTypeOK
  <2>2. announced = s /\ phase = "replaying" /\ s # NoSubject
    BY <1>1, <2>1, NoSubjectAssumption DEF InPlace
  <2>3. /\ trail' = Append(trail, Event("local_completed", s))
        /\ finished'[Replayer] = finished[Replayer] \cup {s}
        /\ todo' = todo \ {s} /\ announced' = NoSubject
        /\ UNCHANGED <<erased, phase, backup, plan>>
    BY <1>1, <1>10, <2>1, <2>2 DEF ErasedAgain, LocallyCompleted, AttemptsTypeOK
  <2>4. Evidenced(s)'
    <3>1. PICK i \in DOMAIN trail : trail[i] = Event("replayed", s)
      BY <1>1, <2>2 DEF ReplayIsEvidenced, Replayed
    <3>2. /\ i \in DOMAIN trail' /\ trail'[i] = trail[i]
          /\ Len(trail) + 1 \in DOMAIN trail' /\ i < Len(trail) + 1
          /\ trail'[Len(trail) + 1] = Event("local_completed", s)
      BY <1>1, <2>3 DEF AttemptsTypeOK, Event, EventTypes
    <3>. QED  BY <3>1, <3>2 DEF Evidenced, Event
  <2>5. ReplayIsEvidenced'
    BY <1>1, <1>2, <2>3, <2>4 DEF ReplayIsEvidenced
  <2>. QED
    BY <1>1, <2>2, <2>3, <2>5 DEF Wholeness, NothingIsUndone, DoneIsFinished, ReplayIsWhole
<1>11. CASE CommitReplay
  <2>1. /\ phase = "replaying" /\ todo = {} /\ phase' = "replayed"
        /\ UNCHANGED <<backup, plan, todo, announced>>
    BY <1>11 DEF CommitReplay
  <2>2. plan.entries \subseteq finished[Replayer]
    BY <1>1, <2>1 DEF DoneIsFinished
  <2>3. CASE Committed(Replayer)
    <3>1. /\ \A s \in Subjects : erased'[s] >= erased[s]
          /\ \A s \in finished[Replayer] : erased'[s] > erased[s]
          /\ finished'[Replayer] = {}
      BY <1>1, <2>3 DEF Committed, AttemptsTypeOK
    <3>2. erased' \in [Subjects -> Nat]
      BY <1>1, <2>3 DEF Committed, AttemptsTypeOK
    <3>3. NothingIsUndone' /\ ReplayIsWhole'
      BY <1>1, <2>1, <2>2, <3>1, <3>2 DEF NothingIsUndone, ReplayIsWhole, TypeOK, AttemptsTypeOK
    <3>. QED
      BY <1>1, <1>2, <2>1, <3>1, <3>3 DEF Wholeness, DoneIsFinished, ReplayIsEvidenced
  <2>4. CASE plan.entries = {} /\ UNCHANGED attemptVars
    BY <1>1, <1>2, <2>1, <2>4 DEF Wholeness, NothingIsUndone, DoneIsFinished, ReplayIsWhole,
       ReplayIsEvidenced, attemptVars
  <2>. QED  BY <1>11, <2>3, <2>4 DEF CommitReplay
<1>12. CASE FailReplay
  <2>1. /\ phase' = "restored" /\ announced' = NoSubject /\ finished'[Replayer] = {}
        /\ UNCHANGED <<erased, backup, plan>>
    BY <1>1, <1>12 DEF FailReplay, StepFailed, RolledBack, AttemptsTypeOK
  <2>. QED
    BY <1>1, <2>1 DEF Wholeness, NothingIsUndone, DoneIsFinished, ReplayIsWhole,
       ReplayIsEvidenced
<1>13. CASE UNCHANGED vars
  BY <1>1, <1>3, <1>13 DEF vars, AttemptsTypeOK
<1>. QED
  BY <1>4, <1>5, <1>6, <1>7, <1>8, <1>9, <1>10, <1>11, <1>12, <1>13 DEF Next, ReplayStep

\* Whatever failed on the way, a replay that has committed has brought every
\* erasure of its plan back, and none of the committed ones is undone.
THEOREM WholeReplay == Spec => []ReplayIsWhole
<1>1. TInv /\ Wholeness /\ [Next]_vars => (TInv /\ Wholeness)'
  BY TypeStep, WholenessStep
<1>2. Init => TInv /\ Wholeness
  BY TypeInit, WholenessInit
<1>3. Wholeness => ReplayIsWhole
  BY DEF Wholeness
<1>. QED  BY <1>1, <1>2, <1>3, PTL DEF Spec

\* No replayed erasure is committed without its ERASURE_REPLAYED on the trail,
\* followed by its own completion.
THEOREM AnnouncedReplay == Spec => ReplaysAreAnnounced
<1>1. TInv /\ Wholeness /\ [Next]_vars => (TInv /\ Wholeness)'
  BY TypeStep, WholenessStep
<1>2. Init => TInv /\ Wholeness
  BY TypeInit, WholenessInit
<1>3. Wholeness => [CommitReplay => \A s \in finished[Replayer] :
                      \E i, j \in DOMAIN trail : /\ i < j
                                                 /\ trail[i] = Event("replayed", s)
                                                 /\ trail[j] = Event("local_completed", s)]_vars
  BY DEF Wholeness, ReplayIsEvidenced, Evidenced
<1>. QED  BY <1>1, <1>2, <1>3, PTL DEF Spec, ReplaysAreAnnounced

=============================================================================

------------------------------- MODULE Replay -------------------------------
(***************************************************************************)
(* Backup replay (replay/plan.py, replay/replayer.py): a backup is taken   *)
(* and later restored while erasures run; the operator derives a plan from *)
(* the surviving audit trail and replays the erasures the restore undid.   *)
(*                                                                         *)
(* The trail lives outside the restored database (an external sink).  Time *)
(* is the order of the trail: an event is stamped when it is appended, and *)
(* the instant of the backup may tie with the event next to it.            *)
(***************************************************************************)
EXTENDS ErasureAttempts, FiniteSets

CONSTANTS
    Replayer,       \* the session of Replayer.replay
    QuietBackups,   \* no finished erasure is uncommitted when a backup is taken
    MaxCalls,       \* bound: attempts by the application
    MaxFaults       \* bound: attempts and replays that fail or are given up

ASSUME ReplayAssumption ==
    /\ Replayer \in Calls
    /\ QuietBackups \in BOOLEAN
    /\ MaxCalls \in Nat
    /\ MaxFaults \in Nat

VARIABLES
    phase,          \* where the operator is
    backup,         \* the backup: the erasures in it, and the first event of its window
    lost,           \* subjects with a committed erasure that the restore undid
    plan,           \* the derived plan
    todo,           \* its entries still to be replayed
    announced,      \* the entry whose ERASURE_REPLAYED is appended, or NoSubject
    calls,          \* attempts begun by the application so far
    faults          \* attempts and replays that failed or were given up so far

operatorVars == <<phase, backup, lost, plan, todo, announced>>
vars == <<trail, attempting, finished, erased, phase, backup, lost, plan, todo,
          announced, calls, faults>>

Phases == {"unprotected", "protected", "restored", "replaying", "replayed"}

TypeOK ==
    /\ AttemptsTypeOK
    /\ phase \in Phases
    /\ backup \in [erased : [Subjects -> Nat], start : Nat]
    /\ lost \subseteq Subjects
    /\ plan \in [entries : SUBSET Subjects, failed_only : SUBSET Subjects,
                 indeterminate : SUBSET Subjects, after : [Subjects -> SUBSET Subjects]]
    /\ todo \subseteq plan.entries
    /\ announced \in todo \cup {NoSubject}
    /\ calls \in 0..MaxCalls
    /\ faults \in 0..MaxFaults

NoPlan == [entries |-> {}, failed_only |-> {}, indeterminate |-> {},
           after |-> [s \in Subjects |-> {}]]

Init ==
    /\ AttemptsInit
    /\ phase = "unprotected"
    /\ backup = [erased |-> erased, start |-> 0]
    /\ lost = {}
    /\ plan = NoPlan
    /\ todo = {}
    /\ announced = NoSubject
    /\ calls = 0
    /\ faults = 0

-----------------------------------------------------------------------------
(* The application goes on erasing, before and after the restore.          *)

Begin(c, s) ==
    /\ c # Replayer
    /\ calls < MaxCalls
    /\ calls' = calls + 1
    /\ Requested(c, s)
    /\ UNCHANGED <<operatorVars, faults>>

GoOn(c) ==
    /\ c # Replayer
    /\ LocallyCompleted(c) \/ Committed(c)
    /\ UNCHANGED <<operatorVars, calls, faults>>

Fail(c) ==
    /\ c # Replayer
    /\ faults < MaxFaults
    /\ faults' = faults + 1
    /\ StepFailed(c) \/ GivenUp(c)
    /\ UNCHANGED <<operatorVars, calls>>

-----------------------------------------------------------------------------
(* The backup and the restore.                                             *)

TakeBackup ==
    /\ phase = "unprotected"
    /\ QuietBackups => \A c \in Calls : finished[c] = {}
    /\ \E start \in {Len(trail), Len(trail) + 1} :
          backup' = [erased |-> erased, start |-> start]
    /\ phase' = "protected"
    /\ UNCHANGED <<attemptVars, lost, plan, todo, announced, calls, faults>>

\* Open transactions are lost with the database; the trail is not.
Restore ==
    /\ phase = "protected"
    /\ erased' = backup.erased
    /\ lost' = {s \in Subjects : erased[s] > backup.erased[s]}
    /\ attempting' = [c \in Calls |-> NoSubject]
    /\ finished' = [c \in Calls |-> {}]
    /\ phase' = "restored"
    /\ UNCHANGED <<trail, backup, plan, todo, announced, calls, faults>>

-----------------------------------------------------------------------------
(* ReplayPlan.derive and Replayer.replay.                                  *)

\* Mutant: the boundary is exclusive.
WindowAfter == {i \in DOMAIN trail : i > backup.start}

\* The events at or after the backup.
Window == {i \in DOMAIN trail : i >= backup.start}

Shows(s, type) == \E i \in Window : trail[i] = Event(type, s)

\* Mutant: a failed attempt in the window hides a completion in it.
EntriesWithoutFailure == {s \in Subjects : /\ Shows(s, "local_completed")
                                           /\ ~Shows(s, "step_failed")}

Entries == {s \in Subjects : Shows(s, "local_completed")}

\* The order of the entries, by the last completion of each: those that come
\* after s.
After(s) == {t \in Entries : \E j \in Window :
               /\ trail[j] = Event("local_completed", t)
               /\ \A i \in Window : trail[i] = Event("local_completed", s) => i < j}

FailedOnly == {s \in Subjects \ Entries : Shows(s, "step_failed")}

Indeterminate == {s \in Subjects \ (Entries \cup FailedOnly) : Shows(s, "requested")}

DerivePlan ==
    /\ phase = "restored"
    /\ plan' = [entries |-> Entries,
                failed_only |-> FailedOnly,
                indeterminate |-> Indeterminate,
                after |-> [s \in Subjects |-> After(s)]]
    /\ todo' = Entries
    /\ phase' = "replaying"
    /\ UNCHANGED <<attemptVars, backup, lost, announced, calls, faults>>

\* replay: the next entry in plan order; ERASURE_REPLAYED comes first.
Announce(s) ==
    /\ phase = "replaying"
    /\ attempting[Replayer] = NoSubject
    /\ s \in todo /\ todo \subseteq {s} \cup plan.after[s]
    /\ announced = NoSubject
    /\ announced' = s
    /\ trail' = Append(trail, Event("replayed", s))
    /\ UNCHANGED <<attempting, finished, erased, phase, backup, lost, plan, todo,
                   calls, faults>>

\* replay: erase_subject of the announced entry, and the loop goes on after it.
EraseAgain ==
    /\ announced # NoSubject
    /\ Requested(Replayer, announced)
    /\ UNCHANGED <<operatorVars, calls, faults>>

ErasedAgain ==
    /\ LocallyCompleted(Replayer)
    /\ todo' = todo \ {announced}
    /\ announced' = NoSubject
    /\ UNCHANGED <<phase, backup, lost, plan, calls, faults>>

\* The caller commits the whole replay, which may have been empty.
CommitReplay ==
    /\ phase = "replaying"
    /\ todo = {}
    /\ \/ Committed(Replayer)
       \/ plan.entries = {} /\ UNCHANGED attemptVars
    /\ phase' = "replayed"
    /\ UNCHANGED <<backup, lost, plan, todo, announced, calls, faults>>

\* Mutant: the replay goes on with the next entry, and its caller may commit.
SkipFailedEntry ==
    /\ phase = "replaying"
    /\ faults < MaxFaults
    /\ faults' = faults + 1
    /\ attempting[Replayer] # NoSubject
    /\ trail' = Append(trail, Event("step_failed", attempting[Replayer]))
    /\ attempting' = [attempting EXCEPT ![Replayer] = NoSubject]
    /\ todo' = todo \ {announced}
    /\ announced' = NoSubject
    /\ UNCHANGED <<finished, erased, phase, backup, lost, plan, calls>>

\* Fail-fast: the first failure ends the replay, its caller rolls back and the
\* operator starts over from a new plan.
FailReplay ==
    /\ phase = "replaying"
    /\ faults < MaxFaults
    /\ faults' = faults + 1
    /\ \/ StepFailed(Replayer)
       \/ RolledBack(Replayer) /\ UNCHANGED trail
    /\ phase' = "restored"
    /\ todo' = {}
    /\ announced' = NoSubject
    /\ UNCHANGED <<backup, lost, plan, calls>>

-----------------------------------------------------------------------------

ReplayStep ==
    \/ DerivePlan
    \/ \E s \in Subjects : Announce(s)
    \/ EraseAgain \/ ErasedAgain \/ CommitReplay

Next ==
    \/ \E c \in Calls : \/ \E s \in Subjects : Begin(c, s)
                        \/ GoOn(c) \/ Fail(c)
    \/ TakeBackup \/ Restore
    \/ ReplayStep \/ FailReplay

Spec == Init /\ [][Next]_vars

\* The operator repeats the replay until it has committed.
FairSpec == Spec /\ WF_vars(ReplayStep)

-----------------------------------------------------------------------------

\* What the docs of Replayer say: the trail says exactly which committed erasures
\* the restore undid, so a derived plan names every one of them.  It takes QuietBackups.
LostErasuresArePlanned ==
    phase \in {"replaying", "replayed"} => lost \subseteq plan.entries

\* A replay is all or nothing: once it has committed, every erasure of its plan
\* is in the database again, whatever failed on the way.
ReplayIsWhole ==
    phase = "replayed" => \A s \in plan.entries : erased[s] > backup.erased[s]

\* No replayed erasure without its evidence: when one is committed, the trail has
\* an ERASURE_REPLAYED that its completion follows.
ReplaysAreAnnounced ==
    [][CommitReplay => \A s \in finished[Replayer] :
          \E i, j \in DOMAIN trail : /\ i < j
                                     /\ trail[i] = Event("replayed", s)
                                     /\ trail[j] = Event("local_completed", s)]_vars

\* Every erasure the restore undid is eventually committed again.
LostErasuresReturn ==
    phase = "restored" ~> \A s \in lost : erased[s] > backup.erased[s]

=============================================================================

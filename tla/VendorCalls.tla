---------------------------- MODULE VendorCalls ----------------------------
(***************************************************************************)
(* What the resolver packages share: a system outside the application that *)
(* holds entries of a subject, and calls of its resolver that reach it     *)
(* through separate requests while the application goes on writing and     *)
(* requests fail, or succeed with their answer lost.                       *)
(*                                                                         *)
(* A behaviour is about one system, picked at the start.  An entry is a    *)
(* pair of a slot (an object key, a row, a customer or one of its payment  *)
(* methods, a contact or one of its conversations) and a version.          *)
(***************************************************************************)
EXTENDS Naturals, FiniteSets

CONSTANTS
    Systems,        \* the resolver names modelled in this instance
    Callers,        \* sessions and saga passes that call the resolver
    Slots,          \* places of the system that can hold an entry, in listing order
    OwnSlots,       \* those of the subject; the others belong to a sibling
    Oversized,      \* entries larger than max_object_bytes
    Values,         \* values of a correctable field
    OldValue,       \* the value every field has at the start
    verbsOf,        \* verbsOf[c]: the methods c may call
    corrections,    \* corrections[c]: the value c sends for each category it corrects
    MaxVersion,     \* bound: times one slot is written
    MaxChanges,     \* bound: writes and deletes of the application
    PageSize,       \* entries on a page of a listing
    BatchSize       \* entries in one delete request

Storages == {"s3", "supabase_storage"}
Rooted == {"stripe", "intercom", "resend", "supabase_auth", "memory"}
Rectifying == {"stripe", "memory"}

\* The slot of a customer or contact; its other slots hang below it.
Root == 1

Categories == {"identity", "contact", "financial"}
Fields == {"name", "email", "iban"}

Entries == Slots \X (1..MaxVersion)

ASSUME VendorAssumption ==
    /\ Systems \subseteq Storages \cup Rooted \cup {"supabase_postgrest"}
    /\ Slots \subseteq Nat \ {0} /\ IsFiniteSet(Slots)
    /\ OwnSlots \subseteq Slots
    /\ Root \in OwnSlots
    /\ Oversized \subseteq Entries
    /\ OldValue \in Values
    /\ verbsOf \in [Callers -> SUBSET {"export", "erase", "rectify"}]
    /\ \A c \in Callers : corrections[c] \in UNION {[K -> Values] : K \in SUBSET Categories}
    /\ "application" \notin Callers
    /\ MaxVersion \in Nat \ {0}
    /\ MaxChanges \in Nat
    /\ PageSize \in Nat \ {0}
    /\ BatchSize \in Nat \ {0}

VARIABLES
    system,     \* the system of this behaviour
    allowed,    \* the credentials are good for every request
    held,       \* the entries it holds
    markers,    \* those of them that are delete markers of a versioned bucket
    written,    \* written[s]: versions slot s has had
    profile,    \* the correctable fields of the root
    call,       \* call[c]: the call c is making
    result,     \* result[c]: what its last attempt returned or raised
    changes,    \* writes and deletes of the application so far
    begun,      \* begun[c]: the subject's entries held when an erasure began
    steady,     \* steady[c]: those an export began with and nothing changed since
    took,       \* took[c]: the entries an attempt has removed
    touched     \* touched[c]: the fields others changed during a rectification

store == <<held, markers, written, profile, changes>>
vars == <<system, allowed, held, markers, written, profile, changes, call, result, begun, steady, took,
          touched>>

Verbs == {"export", "erase", "rectify"}

\* A prefix that ends with its delimiter, one that does not, and a blank one.
Refs == {"own/", "own", " "}

Places == {"idle", "starting", "listing", "fetching", "deleting", "parts",
           "updating"}

\* Outcomes of the taxonomy: the runner retries a "retry" and abandons a "rejected".
Results == {"none", "exported", "erased", "absent", "rectified", "consistent", "retry",
            "rejected"}

Failures == {"retry", "rejected"}

NoCall == [verb |-> "export", ref |-> "own/", place |-> "idle", marker |-> 0,
           more |-> FALSE, found |-> {}, todo |-> {}, codes |-> {}, got |-> {},
           drift |-> {}]

TypeOK ==
    /\ system \in Systems
    /\ allowed \in BOOLEAN
    /\ held \subseteq Entries
    /\ markers \subseteq held
    /\ written \in [Slots -> 0..MaxVersion]
    /\ \A e \in held : e[2] <= written[e[1]]
    /\ \A c \in Callers :
         /\ call[c].verb \in Verbs
         /\ call[c].place \in Places
         /\ call[c].found \cup call[c].todo \cup call[c].got \subseteq Entries
         /\ call[c].drift \subseteq Fields
    /\ result \in [Callers -> Results]
    /\ begun \in [Callers -> SUBSET Entries]
    /\ steady \in [Callers -> SUBSET Entries]
    /\ took \in [Callers -> SUBSET Entries]
    /\ profile \in [Fields -> Values]
    /\ touched \in [Callers -> SUBSET Fields]
    /\ changes \in 0..MaxChanges

\* The newest entry of every slot, unless it is a delete marker.
Current == {e \in held \ markers : \A f \in held : f[1] = e[1] => f[2] <= e[2]}

Subjects(E) == {e \in E : e[1] \in OwnSlots}

RootHeld == \E e \in held : e[1] = Root

\* What the resolver can read of the subject: nothing below a missing customer or
\* contact, and of some systems the contact alone.
Exposed ==
    {e \in Subjects(Current) :
        /\ system \in {"stripe", "intercom"} => RootHeld
        /\ system \in {"resend", "supabase_auth", "memory"} => e[1] = Root}

\* A prefix is matched literally: unterminated it matches a sibling too, blank nothing.
Matched(ref) == CASE ref = "own/" -> OwnSlots [] ref = "own" -> Slots [] ref = " " -> {}

\* Listings go by slot, and by version from the newest.
Rank(e) == e[1] * (MaxVersion + 1) + MaxVersion - e[2]

Earliest(E, n) == {e \in E : Cardinality({f \in E : Rank(f) < Rank(e)}) < n}

LastRank(E) == CHOOSE r \in {Rank(e) : e \in E} : \A e \in E : Rank(e) <= r

-----------------------------------------------------------------------------

Init ==
    /\ system \in Systems
    /\ allowed \in BOOLEAN
    /\ written \in [Slots -> 0..1]
    /\ system \in Rooted /\ written[Root] = 0 => \A s \in OwnSlots : written[s] = 0
    /\ held = {<<s, 1>> : s \in {s \in Slots : written[s] = 1}}
    /\ markers = {}
    /\ call = [c \in Callers |-> NoCall]
    /\ result = [c \in Callers |-> "none"]
    /\ begun = [c \in Callers |-> {}]
    /\ steady = [c \in Callers |-> {}]
    /\ took = [c \in Callers |-> {}]
    /\ profile = [f \in Fields |-> OldValue]
    /\ changes = 0
    /\ touched = [c \in Callers |-> {}]

\* The system now holds H, of which M are markers; c removed what is gone.
Holds(H, M) ==
    /\ UNCHANGED system
    /\ held' = H
    /\ markers' = M
    /\ steady' = [c \in Callers |-> steady[c] \cap Exposed']

Remove(c, E) ==
    /\ Holds(held \ E, markers \ E)
    /\ took' = [took EXCEPT ![c] = @ \cup (held \cap E)]

StoreUnchanged == UNCHANGED <<store, steady, took, touched>>

\* c, or the application (c is no caller), has written these fields.
WriteProfile(c, new) ==
    /\ profile' = new
    /\ touched' = [d \in Callers |->
                      IF d = c \/ call[d].verb # "rectify" THEN touched[d]
                      ELSE touched[d] \cup {f \in Fields : new[f] # profile[f]}]

\* The call goes on with this record.
GoOn(c, next) == call' = [call EXCEPT ![c] = next] /\ UNCHANGED <<system, allowed, result, begun>>

\* The call returns, or raises; what it was compared with is forgotten if it failed.
Return(c, outcome, exported) ==
    /\ result' = [result EXCEPT ![c] = outcome]
    /\ call' = [call EXCEPT ![c] = [NoCall EXCEPT !.verb = call[c].verb,
                                                  !.ref = call[c].ref,
                                                  !.got = exported]]
    /\ begun' = [begun EXCEPT ![c] = IF outcome \in Failures THEN {} ELSE @]
    /\ UNCHANGED <<system, allowed>>

Settle(c, outcome) == Return(c, outcome, {})

At(c, verb, place) == call[c].verb = verb /\ call[c].place = place

\* A call is made once, and again by the saga for as long as it ends in a retry.
Start(c, verb, ref) ==
    /\ call' = [call EXCEPT ![c] = [NoCall EXCEPT !.verb = verb, !.ref = ref,
                                                  !.place = "starting"]]
    /\ result' = [result EXCEPT ![c] = "none"]
    /\ begun' = [begun EXCEPT ![c] = IF verb = "erase" THEN Subjects(held) ELSE {}]
    /\ steady' = [steady EXCEPT ![c] = IF verb = "export" THEN Exposed ELSE {}]
    /\ took' = [took EXCEPT ![c] = {}]
    /\ touched' = [touched EXCEPT ![c] = {}]
    /\ UNCHANGED <<system, allowed, store>>

Begin(c) ==
    /\ call[c].place = "idle" /\ result[c] = "none"
    /\ \E verb \in verbsOf[c], ref \in Refs :
         /\ system \notin Storages => ref = "own/"
         /\ verb = "rectify" => system \in Rectifying
         /\ Start(c, verb, ref)

CallAgain(c) ==
    /\ call[c].place = "idle" /\ result[c] = "retry"
    /\ Start(c, call[c].verb, call[c].ref)

\* A request that changed nothing fails; for good only where the credentials are bad.
Refused(c, outcome) ==
    /\ outcome = "rejected" => ~allowed
    /\ Settle(c, outcome)
    /\ StoreUnchanged

\* What goes with a slot: a customer takes its payment methods along, a contact
\* leaves its conversations behind.
With(s) ==
    IF system = "stripe" /\ s = Root THEN Subjects(held) ELSE {e \in held : e[1] = s}

Change == changes < MaxChanges /\ changes' = changes + 1

\* The application, or the subject, writes to a slot.  The id of a deleted customer
\* or intercom contact is never used again, and nothing hangs below a missing root.
Write(s) ==
    /\ Change
    /\ system # "memory"
    /\ written[s] < MaxVersion
    /\ system \in {"stripe", "intercom", "supabase_auth"} => RootHeld
    /\ written' = [written EXCEPT ![s] = @ + 1]
    /\ LET older == IF system = "s3" THEN {} ELSE {e \in held : e[1] = s}
       IN  Holds((held \ older) \cup {<<s, written[s] + 1>>}, markers)
    /\ IF system = "stripe" /\ s = Root
       THEN \E f \in Fields : WriteProfile("application", [profile EXCEPT ![f] = OldValue])
       ELSE UNCHANGED <<profile, touched>>
    /\ UNCHANGED <<system, allowed, call, result, begun, took>>

\* ... or deletes from it: a versioned bucket hides the object behind a marker.
Discard(s) ==
    /\ Change
    /\ system # "memory"
    /\ \E e \in Current : e[1] = s
    /\ IF system = "s3"
       THEN /\ written[s] < MaxVersion
            /\ written' = [written EXCEPT ![s] = @ + 1]
            /\ Holds(held \cup {<<s, written[s] + 1>>},
                     markers \cup {<<s, written[s] + 1>>})
       ELSE /\ Holds(held \ With(s), {})
            /\ UNCHANGED written
    /\ UNCHANGED <<system, allowed, profile, call, result, begun, took, touched>>

=============================================================================

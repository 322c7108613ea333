---------------------------- MODULE VendorsProofs ----------------------------
(***************************************************************************)
(* Proofs about the resolver packages and their systems, for any number of *)
(* calls, slots, versions and values, and every page and batch size.       *)
(***************************************************************************)
EXTENDS Vendors, NaturalBounds, TLAPS

-----------------------------------------------------------------------------
(* Listings.  An entry has its own place in the order of a listing, and a   *)
(* page is a prefix of what is left.                                        *)

LEMMA EntriesFinite == IsFiniteSet(Entries)
<1>1. IsFiniteSet(1..MaxVersion)
  BY FS_Interval, VendorAssumption
<1> QED
  BY <1>1, FS_Product, VendorAssumption DEF Entries

LEMMA Multiples ==
    ASSUME NEW a \in Nat, NEW b \in Nat, NEW m \in Nat, a < b
    PROVE  a * m \in Nat /\ b * m \in Nat /\ a * m + m <= b * m
<1> DEFINE d == b - a - 1
<1>1. d \in Nat /\ b = a + 1 + d
  OBVIOUS
<1>2. d * m \in Nat /\ b * m = a * m + m + d * m
  BY <1>1
<1> QED
  BY <1>2

LEMMA RankNat ==
    ASSUME NEW e \in Entries
    PROVE  Rank(e) \in Nat /\ Rank(e) > 0 /\ e[1] \in Nat \ {0} /\ e[2] \in 1..MaxVersion
<1>1. e[1] \in Nat \ {0} /\ e[2] \in 1..MaxVersion /\ MaxVersion \in Nat \ {0}
  BY VendorAssumption DEF Entries
<1>2. e[1] * (MaxVersion + 1) \in Nat /\ 0 * (MaxVersion + 1) + (MaxVersion + 1) <= e[1] * (MaxVersion + 1)
  BY <1>1, Multiples
<1> QED
  BY <1>1, <1>2 DEF Rank

\* What comes in a later slot comes later.
LEMMA RankBySlot ==
    ASSUME NEW e \in Entries, NEW f \in Entries, e[1] < f[1]
    PROVE  Rank(e) < Rank(f)
<1>1. /\ e[1] \in Nat /\ f[1] \in Nat /\ e[2] \in 1..MaxVersion /\ f[2] \in 1..MaxVersion
      /\ MaxVersion \in Nat
  BY RankNat, VendorAssumption
<1>2. /\ e[1] * (MaxVersion + 1) \in Nat /\ f[1] * (MaxVersion + 1) \in Nat
      /\ e[1] * (MaxVersion + 1) + (MaxVersion + 1) <= f[1] * (MaxVersion + 1)
  BY <1>1, Multiples
<1> QED
  BY <1>1, <1>2 DEF Rank

LEMMA RankIsInjective ==
    ASSUME NEW e \in Entries, NEW f \in Entries, Rank(e) = Rank(f)
    PROVE  e = f
<1>1. e[1] = f[1]
  BY RankBySlot, RankNat
<1>2. e[2] = f[2]
  BY <1>1, RankNat, VendorAssumption DEF Rank
<1> QED
  BY <1>1, <1>2 DEF Entries

LEMMA EarliestIsPrefix ==
    ASSUME NEW E \in SUBSET Entries, NEW n \in Nat, NEW p \in Earliest(E, n),
           NEW e \in E, Rank(e) <= Rank(p)
    PROVE  e \in Earliest(E, n)
<1> DEFINE before(x) == {f \in E : Rank(f) < Rank(x)}
<1>1. IsFiniteSet(before(p))
  BY EntriesFinite, FS_Subset
<1>2. before(e) \in SUBSET before(p)
  BY RankNat DEF Earliest
<1>3. Cardinality(before(e)) <= Cardinality(before(p)) /\ IsFiniteSet(before(e))
  BY <1>1, <1>2, FS_Subset
<1>4. Cardinality(before(e)) \in Nat /\ Cardinality(before(p)) \in Nat
  BY <1>1, <1>3, FS_CardinalityType
<1>5. Cardinality(before(p)) < n
  BY DEF Earliest
<1> HIDE DEF before
<1>6. Cardinality(before(e)) < n
  BY <1>3, <1>4, <1>5
<1> QED
  BY <1>6 DEF Earliest, before

LEMMA FirstOf ==
    ASSUME NEW E \in SUBSET Entries, E # {}
    PROVE  \E e \in E : \A f \in E : Rank(e) <= Rank(f)
<1>1. {Rank(e) : e \in E} \in SUBSET Nat /\ {Rank(e) : e \in E} # {}
  BY RankNat
<1>2. PICK n \in {Rank(e) : e \in E} : \A m \in {Rank(e) : e \in E} : n <= m
  BY <1>1, LeastNat
<1>3. PICK e \in E : n = Rank(e)
  OBVIOUS
<1> QED
  BY <1>2, <1>3

\* A page has entries as long as there are any.
LEMMA EarliestIsNonempty ==
    ASSUME NEW E \in SUBSET Entries, E # {}, NEW n \in Nat \ {0}
    PROVE  Earliest(E, n) # {}
<1>1. PICK e \in E : \A f \in E : Rank(e) <= Rank(f)
  BY FirstOf
<1>2. {f \in E : Rank(f) < Rank(e)} = {}
  BY <1>1, RankNat
<1>3. Cardinality({f \in E : Rank(f) < Rank(e)}) = 0
  BY <1>2, FS_EmptySet
<1> QED
  BY <1>3 DEF Earliest

LEMMA LastRankIs ==
    ASSUME NEW E \in SUBSET Entries, E # {}
    PROVE  /\ LastRank(E) \in Nat
           /\ \E e \in E : Rank(e) = LastRank(E)
           /\ \A e \in E : Rank(e) <= LastRank(E)
<1> DEFINE R == {Rank(e) : e \in E}
           g == [e \in E |-> Rank(e)]
<1>1. IsFiniteSet(E)
  BY EntriesFinite, FS_Subset
<1>2. g \in Surjection(E, R)
  BY DEF Surjection
<1>3. IsFiniteSet(R)
  BY <1>1, <1>2, FS_Surjection
<1>4. R \in SUBSET Nat /\ R # {}
  BY RankNat
<1> HIDE DEF R, g
<1>5. PICK n \in R : \A m \in R : m <= n
  BY <1>3, <1>4, GreatestNat
<1>6. \A e \in E : Rank(e) <= n
  BY <1>5 DEF R
<1>7. LastRank(E) \in R /\ \A e \in E : Rank(e) <= LastRank(E)
  BY <1>5, <1>6 DEF LastRank, R
<1> QED
  BY <1>4, <1>7 DEF R

-----------------------------------------------------------------------------
(* The forms of a step.  A call moves its own record only, and what it does *)
(* to its system is one of three things.                                    *)

Calls == [verb : Verbs, ref : Refs, place : Places, marker : Nat, more : BOOLEAN,
          found : SUBSET Entries, todo : SUBSET Entries, codes : SUBSET Codes,
          got : SUBSET Entries, drift : SUBSET Fields]

Typed == TypeOK /\ call \in [Callers -> Calls]

\* The record of a call goes on, or the call ends.
Moves(c) == (\E next : GoOn(c, next)) \/ (\E outcome, exported : Return(c, outcome, exported))

Starts(c) == \E verb \in Verbs, ref \in Refs : Start(c, verb, ref)

Keeps == StoreUnchanged
Removes(c) == \E E : Remove(c, E) /\ UNCHANGED <<written, profile, changes, touched>>
Rewrites(c) == UpdateCustomer(c) \/ RectifyMemory(c)

LEMMA StorageForm ==
    ASSUME NEW c \in Callers, S3Step(c) \/ DeleteCurrent(c)
    PROVE  Moves(c) /\ (Keeps \/ Removes(c))
<1> USE DEF Settle
<1>1. CASE RefuseThePrefix(c)
  BY <1>1 DEF RefuseThePrefix, Moves, Keeps
<1>2. ASSUME NEW E, ListForErasure(c, E) PROVE Moves(c) /\ Keeps
  BY <1>2 DEF ListForErasure, Moves, Keeps
<1>3. CASE DeleteBatch(c)
  BY <1>3 DEF DeleteBatch, AnsweredBatch, LostBatch, Moves, Removes
<1>4. CASE iter_current_objects(c)
  BY <1>4 DEF iter_current_objects, Moves, Keeps
<1>5. CASE collect_object_records(c)
  BY <1>5 DEF collect_object_records, Moves, Keeps
<1>6. CASE StorageRequestFails(c)
  BY <1>6 DEF StorageRequestFails, Refused, Moves, Keeps
<1> QED
  BY <1>1, <1>2, <1>3, <1>4, <1>5, <1>6
     DEF S3Step, DeleteCurrent, collect_version_identifiers, delete_in_batches

LEMMA SupabaseForm ==
    ASSUME NEW c \in Callers, SupabaseStep(c)
    PROVE  Moves(c) /\ (Keeps \/ Removes(c))
<1> USE DEF Settle
<1>1. CASE DeleteCurrent(c)
  BY <1>1, StorageForm
<1>2. CASE SelectTable(c)
  BY <1>2 DEF SelectTable, Moves, Keeps
<1>3. CASE DeleteRows(c)
  BY <1>3 DEF DeleteRows, Moves, Removes
<1>4. CASE ExportUser(c)
  BY <1>4 DEF ExportUser, Moves, Keeps
<1>5. CASE DeleteUser(c)
  BY <1>5 DEF DeleteUser, Moves, Removes
<1>6. CASE SupabaseRequestFails(c)
  BY <1>6 DEF SupabaseRequestFails, Refused, Moves, Keeps
<1> QED
  BY <1>1, <1>2, <1>3, <1>4, <1>5, <1>6 DEF SupabaseStep

LEMMA ContactForm ==
    ASSUME NEW c \in Callers, ContactStep(c)
    PROVE  Moves(c) /\ (Keeps \/ Removes(c) \/ Rewrites(c))
<1> USE DEF Settle
<1>1. CASE CollectCustomer(c) \/ PagePaymentMethods(c) \/ GetContact(c) \/ SearchConversations(c)
  BY <1>1 DEF CollectCustomer, PagePaymentMethods, GetContact, SearchConversations, Paged, Moves, Keeps
<1>2. CASE DeleteCustomer(c) \/ DeleteContact(c) \/ EraseResend(c) \/ EraseMemory(c)
  BY <1>2 DEF DeleteCustomer, DeleteContact, EraseResend, EraseMemory, Moves, Removes
<1>3. CASE ReadCustomer(c)
  BY <1>3 DEF ReadCustomer, Moves, Keeps
<1>4. CASE UpdateCustomer(c)
  BY <1>4 DEF UpdateCustomer, Moves, Rewrites
<1>5. CASE RectifyMemory(c)
  BY <1>5 DEF RectifyMemory, Moves, Rewrites
<1>6. CASE StripeRequestFails(c) \/ ResendRequestFails(c) \/ IntercomRequestFails(c)
  BY <1>6 DEF StripeRequestFails, ResendRequestFails, IntercomRequestFails, Refused, Moves, Keeps
<1>7. CASE ExportResend(c) \/ ExportMemory(c)
  BY <1>7 DEF ExportResend, ExportMemory, Moves, Keeps
<1> QED
  BY <1>1, <1>2, <1>3, <1>4, <1>5, <1>6, <1>7 DEF ContactStep

LEMMA CallForm ==
    ASSUME NEW c \in Callers, CallStep(c)
    PROVE  Moves(c) /\ (Keeps \/ Removes(c) \/ Rewrites(c))
BY StorageForm, SupabaseForm, ContactForm DEF CallStep

LEMMA StartForm ==
    ASSUME Typed, NEW c \in Callers, Begin(c) \/ CallAgain(c)
    PROVE  Starts(c)
<1>1. CASE Begin(c)
  BY <1>1, VendorAssumption DEF Begin, Starts, Verbs
<1>2. CASE CallAgain(c)
  BY <1>2 DEF CallAgain, Starts, Typed, Calls
<1> QED
  BY <1>1, <1>2

-----------------------------------------------------------------------------
(* What the record of a call can be.                                        *)

Own(E) == \A e \in E : e[1] \in OwnSlots

CallFits(c, r) ==
    /\ r \in Calls
    /\ system \notin Storages => r.ref = "own/"
    /\ r.place \notin {"idle", "starting"} => r.ref = "own/"
    /\ r.verb = "rectify" => system \in Rectifying
    /\ r.drift \subseteq Targets(c)
    /\ Own(r.found) /\ Own(r.todo) /\ Own(r.got)
    /\ \A code \in r.codes : is_nonretryable(code) => ~allowed
    /\ system = "supabase_postgrest" => \E s \in OwnSlots : s > r.marker
    /\ r.place = "fetching" => r.todo # {}

CallsFit == \A c \in Callers : CallFits(c, call[c])

\* The record and the result that a call leaves when it ends, and when it begins.
IsReturned(c, outcome, exported) ==
    /\ call'[c] = [NoCall EXCEPT !.verb = call[c].verb, !.ref = call[c].ref, !.got = exported]
    /\ call'[c].verb = call[c].verb /\ call'[c].ref = call[c].ref
    /\ call'[c].place = "idle" /\ call'[c].got = exported
    /\ result'[c] = outcome
    /\ Own(exported) => CallFits(c, call'[c])

IsStarted(c, verb, ref) ==
    /\ call'[c] = [NoCall EXCEPT !.verb = verb, !.ref = ref, !.place = "starting"]
    /\ call'[c] \in Calls
    /\ call'[c].verb = verb /\ call'[c].ref = ref /\ call'[c].place = "starting"
    /\ call'[c].marker = 0 /\ call'[c].found = {} /\ call'[c].todo = {}
    /\ call'[c].got = {} /\ call'[c].codes = {} /\ call'[c].drift = {}
    /\ result'[c] = "none"

LEMMA ReturnedIs ==
    ASSUME Typed, CallsFit, NEW c \in Callers, NEW outcome, NEW exported \in SUBSET Entries,
           Return(c, outcome, exported)
    PROVE  IsReturned(c, outcome, exported)
<1>1. call'[c] = [NoCall EXCEPT !.verb = call[c].verb, !.ref = call[c].ref, !.got = exported]
  BY DEF Return, Typed
<1> DEFINE r == [NoCall EXCEPT !.verb = call[c].verb, !.ref = call[c].ref, !.got = exported]
<1>2. call[c] \in Calls
  BY DEF Typed
<1>3. /\ r \in Calls /\ r.verb = call[c].verb /\ r.ref = call[c].ref /\ r.got = exported
      /\ r.place = "idle" /\ r.found = {} /\ r.todo = {} /\ r.codes = {} /\ r.drift = {} /\ r.marker = 0
  BY <1>2 DEF NoCall, Calls, Places, Verbs, Refs
<1>4. \E s \in OwnSlots : s > 0
  BY VendorAssumption DEF Root
<1> HIDE DEF r
<1>5. Own(exported) => CallFits(c, r)
  BY <1>3, <1>4 DEF CallFits, CallsFit, Own
<1>6. result'[c] = outcome
  BY DEF Return, Typed, TypeOK
<1> HIDE DEF r
<1> QED
  BY <1>1, <1>3, <1>5, <1>6 DEF r, IsReturned

LEMMA Returned ==
    ASSUME Typed, CallsFit, NEW c \in Callers, NEW outcome, NEW exported \in SUBSET Entries,
           Return(c, outcome, exported)
    PROVE  /\ call'[c] = [NoCall EXCEPT !.verb = call[c].verb, !.ref = call[c].ref, !.got = exported]
           /\ call'[c].verb = call[c].verb /\ call'[c].ref = call[c].ref
           /\ call'[c].place = "idle" /\ call'[c].got = exported
           /\ result'[c] = outcome
           /\ Own(exported) => CallFits(c, call'[c])
BY ReturnedIs DEF IsReturned

LEMMA Settled ==
    ASSUME Typed, CallsFit, NEW c \in Callers, NEW outcome, Settle(c, outcome)
    PROVE  /\ call'[c].verb = call[c].verb /\ call'[c].ref = call[c].ref
           /\ call'[c].place = "idle" /\ call'[c].got = {}
           /\ result'[c] = outcome
           /\ CallFits(c, call'[c])
<1> DEFINE exported == {}
<1>1. Return(c, outcome, exported)
  BY DEF Settle
<1>2. exported \in SUBSET Entries /\ Own(exported) /\ exported = {}
  BY DEF Own
<1> HIDE DEF exported
<1>3. IsReturned(c, outcome, exported)
  BY <1>1, <1>2, ReturnedIs
<1> QED
  BY <1>2, <1>3 DEF IsReturned

LEMMA StartedIs ==
    ASSUME Typed, NEW c \in Callers, NEW verb \in Verbs, NEW ref \in Refs, Start(c, verb, ref)
    PROVE  IsStarted(c, verb, ref)
BY DEF IsStarted, Start, NoCall, Calls, Places, Verbs, Refs, Typed, TypeOK

LEMMA Started ==
    ASSUME Typed, NEW c \in Callers, NEW verb \in Verbs, NEW ref \in Refs, Start(c, verb, ref)
    PROVE  /\ call'[c] = [NoCall EXCEPT !.verb = verb, !.ref = ref, !.place = "starting"]
           /\ call'[c] \in Calls
           /\ call'[c].verb = verb /\ call'[c].ref = ref /\ call'[c].place = "starting"
           /\ call'[c].marker = 0 /\ call'[c].found = {} /\ call'[c].todo = {}
           /\ call'[c].got = {} /\ call'[c].codes = {} /\ call'[c].drift = {}
           /\ result'[c] = "none"
BY StartedIs DEF IsStarted

LEMMA TargetsAreFields ==
    ASSUME NEW c \in Callers
    PROVE  /\ Targets(c) \subseteq Fields
           /\ \A f \in Targets(c) : Target(c, f) \in Values
<1> DEFINE D == DOMAIN FieldOf
<1>1. D \subseteq Categories /\ \A k \in D : FieldOf[k] \in Fields
  BY DEF FieldOf, CategoryToField, RecordOf, Categories, Fields
<1>2. PICK K \in SUBSET Categories : corrections[c] \in [K -> Values]
  BY VendorAssumption
<1> HIDE DEF D
<1>3. Mapped(c) = K \cap D
  BY <1>2 DEF Mapped, D
<1>4. Targets(c) \subseteq Fields
  BY <1>1, <1>3 DEF Targets
<1>5. ASSUME NEW f \in Targets(c) PROVE Target(c, f) \in Values
  <2>1. \E k \in Mapped(c) : FieldOf[k] = f
    BY <1>5 DEF Targets
  <2>2. (CHOOSE k \in Mapped(c) : FieldOf[k] = f) \in Mapped(c)
    BY <2>1
  <2> QED
    BY <1>2, <1>3, <2>2 DEF Target
<1> QED
  BY <1>4, <1>5

LEMMA ListedFits ==
    ASSUME Typed, CallsFit, NEW c \in Callers, NEW E \in SUBSET Entries, Own(E),
           checked_prefix(call[c].ref), system \in Storages
    PROVE  LET next == Listed(c, E)
           IN  /\ CallFits(c, [next EXCEPT !.place = "listing"])
               /\ CallFits(c, [next EXCEPT !.place = "deleting", !.todo = next.found])
               /\ next.todo # {} => CallFits(c, [next EXCEPT !.place = "fetching"])
<1> DEFINE later == {e \in E : Rank(e) > call[c].marker}
           page == Earliest(later, PageSize)
           next == Listed(c, E)
<1>1. call[c] \in Calls /\ CallFits(c, call[c])
  BY DEF Typed, CallsFit
<1>2. page \in SUBSET E
  BY DEF Earliest
<1>3. LastRank(page) \in Nat \/ page = {}
  BY <1>2, LastRankIs
<1>4. next = [call[c] EXCEPT !.found = IF call[c].verb = "erase" THEN @ \cup page ELSE {},
                             !.todo = page, !.more = page # later,
                             !.marker = IF page = {} THEN @ ELSE LastRank(page)]
  BY DEF Listed
<1> HIDE DEF later, page, next
<1>5. /\ next \in Calls
      /\ next.verb = call[c].verb /\ next.ref = call[c].ref /\ next.drift = call[c].drift
      /\ next.codes = call[c].codes /\ next.got = call[c].got
      /\ next.todo = page /\ next.found \subseteq call[c].found \cup page
  BY <1>1, <1>2, <1>3, <1>4 DEF Calls
<1>6. ASSUME NEW r \in Calls, r.ref = call[c].ref, r.verb = call[c].verb, r.drift = call[c].drift,
             r.codes = call[c].codes, r.got = call[c].got, r.found = next.found,
             r.todo = page \/ r.todo = next.found, r.place = "fetching" => r.todo # {}
      PROVE  CallFits(c, r)
  <2>1. Own(page)
    BY <1>2 DEF Own
  <2> QED
    BY <1>1, <1>5, <1>6, <2>1 DEF CallFits, Own, Storages, checked_prefix
<1>7. CallFits(c, [next EXCEPT !.place = "listing"])
  <2> DEFINE r == [next EXCEPT !.place = "listing"]
  <2>1. /\ r \in Calls /\ r.place = "listing" /\ r.todo = next.todo /\ r.found = next.found
        /\ r.verb = next.verb /\ r.ref = next.ref /\ r.drift = next.drift
        /\ r.codes = next.codes /\ r.got = next.got
    BY <1>5 DEF Calls, Places
  <2> HIDE DEF r
  <2>2. CallFits(c, r)
    BY <1>5, <1>6, <2>1
  <2> QED
    BY <2>2 DEF r
<1>8. CallFits(c, [next EXCEPT !.place = "deleting", !.todo = next.found])
  <2> DEFINE r == [next EXCEPT !.place = "deleting", !.todo = next.found]
  <2>1. /\ r \in Calls /\ r.place = "deleting" /\ r.todo = next.found /\ r.found = next.found
        /\ r.verb = next.verb /\ r.ref = next.ref /\ r.drift = next.drift
        /\ r.codes = next.codes /\ r.got = next.got
    BY <1>5 DEF Calls, Places
  <2> HIDE DEF r
  <2>2. CallFits(c, r)
    BY <1>5, <1>6, <2>1
  <2> QED
    BY <2>2 DEF r
<1>9. next.todo # {} => CallFits(c, [next EXCEPT !.place = "fetching"])
  <2> DEFINE r == [next EXCEPT !.place = "fetching"]
  <2>1. /\ r \in Calls /\ r.place = "fetching" /\ r.todo = next.todo /\ r.found = next.found
        /\ r.verb = next.verb /\ r.ref = next.ref /\ r.drift = next.drift
        /\ r.codes = next.codes /\ r.got = next.got
    BY <1>5 DEF Calls, Places
  <2> HIDE DEF r
  <2>2. next.todo # {} => CallFits(c, r)
    BY <1>5, <1>6, <2>1
  <2> QED
    BY <2>2 DEF r
<1> QED
  BY <1>7, <1>8, <1>9 DEF next

\* Each action leaves its call a record that fits.
LEMMA StorageRecord ==
    ASSUME Typed, CallsFit, NEW c \in Callers, S3Step(c) \/ DeleteCurrent(c)
    PROVE  CallFits(c, call'[c]) /\ result'[c] \in Results
<1>0. call \in [Callers -> Calls] /\ call[c] \in Calls /\ CallFits(c, call[c])
      /\ result \in [Callers -> Results] /\ held \subseteq Entries
  BY DEF Typed, TypeOK, CallsFit
<1>1. ASSUME NEW outcome \in Results, Settle(c, outcome)
      PROVE  CallFits(c, call'[c]) /\ result'[c] \in Results
  <2>1. CallFits(c, call'[c]) /\ result'[c] = outcome
    BY <1>1, Settled
  <2> QED
    BY <1>1, <2>1
<1>2. ASSUME NEW next, GoOn(c, next), CallFits(c, next)
      PROVE  CallFits(c, call'[c]) /\ result'[c] \in Results
  BY <1>0, <1>2 DEF GoOn
<1>3. ASSUME NEW code PROVE is_nonretryable(code) <=> code \in {"AccessDenied", "NoSuchBucket", "PermanentRedirect"}
  BY DEF is_nonretryable, NonRetryableCodes
<1>4. CASE RefuseThePrefix(c)
  BY <1>1, <1>4 DEF RefuseThePrefix, Results
<1>5. ASSUME NEW E \in SUBSET held, ListForErasure(c, Under(E, c)), system \in Storages
      PROVE  CallFits(c, call'[c]) /\ result'[c] \in Results
  <2>1. checked_prefix(call[c].ref)
    BY <1>0, <1>5 DEF ListForErasure, Listing, CallFits, checked_prefix
  <2>2. Under(E, c) \in SUBSET Entries /\ Own(Under(E, c))
    BY <1>0, <1>5, <2>1 DEF Under, Own, Matched, checked_prefix
  <2> DEFINE next == Listed(c, Under(E, c))
  <2>3. /\ CallFits(c, [next EXCEPT !.place = "listing"])
        /\ CallFits(c, [next EXCEPT !.place = "deleting", !.todo = next.found])
    BY <1>5, <2>1, <2>2, ListedFits
  <2>4. \/ GoOn(c, [next EXCEPT !.place = "listing"])
        \/ Settle(c, "absent")
        \/ GoOn(c, [next EXCEPT !.place = "deleting", !.todo = next.found])
    BY <1>5 DEF ListForErasure
  <2> HIDE DEF next
  <2> QED
    BY <1>1, <1>2, <2>3, <2>4 DEF Results
<1>6. CASE DeleteBatch(c)
  <2> DEFINE batch == Earliest(call[c].todo, BatchSize)
  <2>1. batch \subseteq call[c].todo /\ call[c].todo \in SUBSET Entries /\ Own(call[c].todo)
        /\ call[c].place = "deleting"
    BY <1>0, <1>6 DEF Earliest, CallFits, Calls, DeleteBatch, At
  <2>2. CASE LostBatch(c, batch)
    BY <1>1, <2>2 DEF LostBatch, Results
  <2>3. CASE AnsweredBatch(c, batch)
    <3> HIDE DEF batch
    <3>1. PICK denied \in (IF allowed THEN {{}} ELSE SUBSET batch) :
            \E busy \in SUBSET (batch \ denied) :
              LET left  == call[c].todo \ batch
                  codes == call[c].codes \cup (IF denied = {} THEN {} ELSE {"AccessDenied"})
                                         \cup (IF busy = {} THEN {} ELSE {"SlowDown"})
              IN  IF left = {} THEN Settle(c, ErasureOutcome(codes))
                  ELSE GoOn(c, [call[c] EXCEPT !.todo = left, !.codes = codes])
      BY <2>3 DEF AnsweredBatch
    <3>2. PICK busy \in SUBSET (batch \ denied) :
            LET left  == call[c].todo \ batch
                codes == call[c].codes \cup (IF denied = {} THEN {} ELSE {"AccessDenied"})
                                       \cup (IF busy = {} THEN {} ELSE {"SlowDown"})
            IN  IF left = {} THEN Settle(c, ErasureOutcome(codes))
                ELSE GoOn(c, [call[c] EXCEPT !.todo = left, !.codes = codes])
      BY <3>1
    <3> DEFINE left == call[c].todo \ batch
               codes == call[c].codes \cup (IF denied = {} THEN {} ELSE {"AccessDenied"})
                                      \cup (IF busy = {} THEN {} ELSE {"SlowDown"})
               r == [call[c] EXCEPT !.todo = left, !.codes = codes]
    <3>3. Settle(c, ErasureOutcome(codes)) \/ GoOn(c, r)
      BY <3>2
    <3>4. codes \in SUBSET Codes /\ \A code \in codes : is_nonretryable(code) => ~allowed
      <4>1. denied # {} => ~allowed
        BY <3>1
      <4>2. call[c].codes \in SUBSET Codes /\ \A code \in call[c].codes : is_nonretryable(code) => ~allowed
        BY <1>0 DEF CallFits, Calls
      <4> QED
        BY <1>3, <4>1, <4>2 DEF Codes, NonRetryableCodes
    <3>5. left \in SUBSET call[c].todo
      OBVIOUS
    <3> HIDE DEF left, codes
    <3>6. /\ r \in Calls /\ r.place = call[c].place /\ r.todo = left /\ r.codes = codes
          /\ r.found = call[c].found /\ r.verb = call[c].verb /\ r.ref = call[c].ref
          /\ r.drift = call[c].drift /\ r.got = call[c].got /\ r.marker = call[c].marker
      BY <1>0, <2>1, <3>4, <3>5 DEF Calls
    <3> HIDE DEF r
    <3>7. CallFits(c, r)
      BY <1>0, <2>1, <3>4, <3>5, <3>6 DEF CallFits, Own
    <3>8. ErasureOutcome(codes) \in Results
      BY DEF ErasureOutcome, Results
    <3> QED
      BY <1>1, <1>2, <3>3, <3>7, <3>8
  <2> QED
    BY <1>6, <2>2, <2>3 DEF DeleteBatch
<1>7. CASE iter_current_objects(c)
  <2>1. checked_prefix(call[c].ref) /\ system \in Storages
    BY <1>0, <1>7 DEF iter_current_objects, Listing, CallFits, checked_prefix
  <2>2. Under(Current, c) \in SUBSET Entries /\ Own(Under(Current, c))
    BY <1>0, <2>1 DEF Under, Current, Own, Matched, checked_prefix
  <2> DEFINE next == Listed(c, Under(Current, c))
  <2>3. next.todo # {} => CallFits(c, [next EXCEPT !.place = "fetching"])
    BY <2>1, <2>2, ListedFits
  <2>4. \/ next.todo # {} /\ GoOn(c, [next EXCEPT !.place = "fetching"])
        \/ Return(c, "exported", call[c].got)
    BY <1>7 DEF iter_current_objects
  <2>5. call[c].got \in SUBSET Entries /\ Own(call[c].got)
    BY <1>0 DEF Calls, CallFits
  <2>6. CASE Return(c, "exported", call[c].got)
    BY <2>5, <2>6, Returned DEF Results
  <2> HIDE DEF next
  <2> QED
    BY <1>2, <2>3, <2>4, <2>6
<1>8. CASE collect_object_records(c)
  <2> DEFINE entry == CHOOSE e \in Earliest(call[c].todo, 1) : TRUE
             left == call[c].todo \ {entry}
             got == call[c].got \cup {f \in Current : f[1] = entry[1]}
  <2>1. /\ call[c].todo \in SUBSET Entries /\ call[c].todo # {} /\ Own(call[c].todo)
        /\ call[c].got \in SUBSET Entries /\ Own(call[c].got) /\ call[c].ref = "own/"
        /\ call[c].place = "fetching" /\ system \in Storages
    BY <1>0, <1>8 DEF CallFits, Calls, collect_object_records, At
  <2>2. entry \in call[c].todo
    <3>1. Earliest(call[c].todo, 1) # {}
      BY <2>1, EarliestIsNonempty
    <3> QED
      BY <3>1 DEF Earliest
  <2>3. \/ Settle(c, "rejected")
        \/ left # {} /\ GoOn(c, [call[c] EXCEPT !.todo = left, !.got = got])
        \/ GoOn(c, [call[c] EXCEPT !.todo = {}, !.got = got, !.place = "listing"])
        \/ Return(c, "exported", got)
    BY <1>8 DEF collect_object_records
  <2> HIDE DEF entry
  <2>4. got \in SUBSET Entries /\ Own(got) /\ left \in SUBSET Entries /\ Own(left)
    BY <1>0, <2>1, <2>2 DEF Own, Current
  <2> HIDE DEF left, got
  <2>5. ASSUME NEW r \in Calls, r.ref = call[c].ref, r.verb = call[c].verb, r.drift = call[c].drift,
               r.codes = call[c].codes, r.got = got, r.found = call[c].found,
               \/ r.todo = left /\ left # {}
               \/ r.todo = {} /\ r.place = "listing"
        PROVE  CallFits(c, r)
    BY <1>0, <2>1, <2>4, <2>5 DEF CallFits, Own, Storages
  <2>6. left # {} => CallFits(c, [call[c] EXCEPT !.todo = left, !.got = got])
    <3> DEFINE r == [call[c] EXCEPT !.todo = left, !.got = got]
    <3>1. /\ r \in Calls /\ r.todo = left /\ r.found = call[c].found /\ r.verb = call[c].verb
          /\ r.ref = call[c].ref /\ r.drift = call[c].drift /\ r.codes = call[c].codes /\ r.got = got
      BY <1>0, <2>4 DEF Calls
    <3> HIDE DEF r
    <3>2. left # {} => CallFits(c, r)
      BY <2>5, <3>1
    <3> QED
      BY <3>2 DEF r
  <2>7. CallFits(c, [call[c] EXCEPT !.todo = {}, !.got = got, !.place = "listing"])
    <3> DEFINE r == [call[c] EXCEPT !.todo = {}, !.got = got, !.place = "listing"]
    <3>1. /\ r \in Calls /\ r.todo = {} /\ r.found = call[c].found /\ r.verb = call[c].verb
          /\ r.ref = call[c].ref /\ r.drift = call[c].drift /\ r.codes = call[c].codes /\ r.got = got
          /\ r.place = "listing"
      BY <1>0, <2>4 DEF Calls, Places
    <3> HIDE DEF r
    <3>2. CallFits(c, r)
      BY <2>5, <3>1
    <3> QED
      BY <3>2 DEF r
  <2>8. CASE Return(c, "exported", got)
    BY <2>4, <2>8, Returned DEF Results
  <2> QED
    BY <1>1, <1>2, <2>3, <2>6, <2>7, <2>8 DEF Results
<1>9. CASE StorageRequestFails(c)
  BY <1>1, <1>9 DEF StorageRequestFails, Refused, Results
<1> QED
  BY <1>4, <1>5, <1>6, <1>7, <1>8, <1>9
     DEF S3Step, DeleteCurrent, collect_version_identifiers, delete_in_batches, Storages, Current

\* The next table is the first after those already served.
LEMMA TableIs ==
    ASSUME NEW c \in Callers, call[c].marker \in Nat, \E s \in OwnSlots : s > call[c].marker
    PROVE  /\ Table(c) \in OwnSlots /\ Table(c) > call[c].marker /\ Table(c) \in Nat
           /\ \A r \in OwnSlots : r > call[c].marker => Table(c) <= r
<1> DEFINE S == {s \in OwnSlots : s > call[c].marker}
<1>1. S \in SUBSET Nat /\ S # {} /\ OwnSlots \subseteq Nat
  BY VendorAssumption
<1>2. PICK s \in S : \A r \in S : s <= r
  BY <1>1, LeastNat
<1>3. s \in OwnSlots /\ s > call[c].marker /\ \A r \in OwnSlots : r > call[c].marker => s <= r
  BY <1>2
<1>4. /\ Table(c) \in OwnSlots /\ Table(c) > call[c].marker
      /\ \A r \in OwnSlots : r > call[c].marker => Table(c) <= r
  BY <1>3 DEF Table
<1> QED
  BY <1>1, <1>4

LEMMA SupabaseRecord ==
    ASSUME Typed, CallsFit, NEW c \in Callers, SupabaseStep(c)
    PROVE  CallFits(c, call'[c]) /\ result'[c] \in Results
<1>0. call \in [Callers -> Calls] /\ call[c] \in Calls /\ CallFits(c, call[c])
      /\ result \in [Callers -> Results] /\ held \subseteq Entries
  BY DEF Typed, TypeOK, CallsFit
<1>1. ASSUME NEW outcome \in Results, Settle(c, outcome)
      PROVE  CallFits(c, call'[c]) /\ result'[c] \in Results
  <2>1. CallFits(c, call'[c]) /\ result'[c] = outcome
    BY <1>1, Settled
  <2> QED
    BY <1>1, <2>1
<1>2. ASSUME NEW next, GoOn(c, next), CallFits(c, next)
      PROVE  CallFits(c, call'[c]) /\ result'[c] \in Results
  BY <1>0, <1>2 DEF GoOn
<1>3. ASSUME NEW got \in SUBSET Entries, Own(got), Return(c, "exported", got)
      PROVE  CallFits(c, call'[c]) /\ result'[c] \in Results
  <2>1. CallFits(c, call'[c]) /\ result'[c] = "exported"
    BY <1>3, Returned
  <2> QED
    BY <2>1 DEF Results
<1>4. ASSUME NEW found \in SUBSET Entries, NEW got \in SUBSET Entries, Own(found), Own(got),
             system = "supabase_postgrest", ~LastTable(c), call[c].place = "starting"
      PROVE  CallFits(c, [call[c] EXCEPT !.marker = Table(c), !.found = found, !.got = got])
  <2> DEFINE r == [call[c] EXCEPT !.marker = Table(c), !.found = found, !.got = got]
  <2>1. Table(c) \in Nat
    BY <1>0, <1>4, TableIs DEF CallFits, Calls
  <2>2. \E s \in OwnSlots : s > Table(c)
    <3>1. OwnSlots \subseteq Nat
      BY VendorAssumption
    <3>2. PICK s \in OwnSlots : ~(s <= Table(c))
      BY <1>4 DEF LastTable
    <3> QED
      BY <2>1, <3>1, <3>2
  <2>3. /\ r \in Calls /\ r.place = call[c].place /\ r.todo = call[c].todo /\ r.codes = call[c].codes
        /\ r.found = found /\ r.verb = call[c].verb /\ r.ref = call[c].ref
        /\ r.drift = call[c].drift /\ r.got = got /\ r.marker = Table(c)
    BY <1>0, <2>1 DEF Calls
  <2> HIDE DEF r
  <2>4. CallFits(c, r)
    BY <1>0, <1>4, <2>2, <2>3 DEF CallFits
  <2> QED
    BY <2>4 DEF r
<1>5. CASE DeleteCurrent(c)
  BY <1>5, StorageRecord
<1>6. ASSUME system = "supabase_postgrest"
      PROVE  /\ RowsOf(held, Table(c)) \in SUBSET Entries /\ Own(RowsOf(held, Table(c)))
             /\ Own(call[c].found \cup RowsOf(held, Table(c))) /\ Own(call[c].got \cup RowsOf(held, Table(c)))
             /\ call[c].found \cup RowsOf(held, Table(c)) \in SUBSET Entries
             /\ call[c].got \cup RowsOf(held, Table(c)) \in SUBSET Entries
  <2>1. Table(c) \in OwnSlots
    BY <1>0, <1>6, TableIs DEF CallFits, Calls
  <2>2. RowsOf(held, Table(c)) \in SUBSET Entries /\ Own(RowsOf(held, Table(c)))
    BY <1>0, <2>1 DEF RowsOf, Own
  <2> QED
    BY <1>0, <2>2 DEF CallFits, Calls, Own
<1>7. CASE SelectTable(c)
  <2> DEFINE got == call[c].got \cup RowsOf(held, Table(c))
  <2>1. system = "supabase_postgrest" /\ call[c].place = "starting"
    BY <1>7 DEF SelectTable
  <2>2. got \in SUBSET Entries /\ Own(got)
    BY <1>6, <2>1
  <2>3. \/ Return(c, "exported", got)
        \/ ~LastTable(c) /\ GoOn(c, [call[c] EXCEPT !.marker = Table(c), !.got = got])
    BY <1>7 DEF SelectTable
  <2> HIDE DEF got
  <2>4. ASSUME ~LastTable(c) PROVE CallFits(c, [call[c] EXCEPT !.marker = Table(c), !.got = got])
    <3>1. call[c].found \in SUBSET Entries /\ Own(call[c].found)
      BY <1>0 DEF CallFits, Calls
    <3>2. CallFits(c, [call[c] EXCEPT !.marker = Table(c), !.found = call[c].found, !.got = got])
      BY <1>4, <2>1, <2>2, <2>4, <3>1
    <3>3. [call[c] EXCEPT !.marker = Table(c), !.found = call[c].found, !.got = got]
            = [call[c] EXCEPT !.marker = Table(c), !.got = got]
      BY <1>0 DEF Calls
    <3> QED
      BY <3>2, <3>3
  <2> QED
    BY <1>2, <1>3, <2>2, <2>3, <2>4
<1>8. CASE DeleteRows(c)
  <2> DEFINE deleted == call[c].found \cup RowsOf(held, Table(c))
  <2>1. system = "supabase_postgrest" /\ call[c].place = "starting"
    BY <1>8 DEF DeleteRows
  <2>2. deleted \in SUBSET Entries /\ Own(deleted)
    BY <1>6, <2>1
  <2>3. \/ Settle(c, "absent") \/ Settle(c, "erased") \/ Settle(c, "retry")
        \/ ~LastTable(c) /\ GoOn(c, [call[c] EXCEPT !.marker = Table(c), !.found = deleted])
    BY <1>8 DEF DeleteRows
  <2> HIDE DEF deleted
  <2>4. ASSUME ~LastTable(c) PROVE CallFits(c, [call[c] EXCEPT !.marker = Table(c), !.found = deleted])
    <3>1. call[c].got \in SUBSET Entries /\ Own(call[c].got)
      BY <1>0 DEF CallFits, Calls
    <3>2. CallFits(c, [call[c] EXCEPT !.marker = Table(c), !.found = deleted, !.got = call[c].got])
      BY <1>4, <2>1, <2>2, <2>4, <3>1
    <3>3. [call[c] EXCEPT !.marker = Table(c), !.found = deleted, !.got = call[c].got]
            = [call[c] EXCEPT !.marker = Table(c), !.found = deleted]
      BY <1>0 DEF Calls
    <3> QED
      BY <3>2, <3>3
  <2> QED
    BY <1>1, <1>2, <2>3, <2>4 DEF Results
<1>9. CASE ExportUser(c)
  <2>1. RowsOf(held, Root) \in SUBSET Entries /\ Own(RowsOf(held, Root))
    BY <1>0, VendorAssumption DEF RowsOf, Own
  <2> QED
    BY <1>3, <1>9, <2>1 DEF ExportUser
<1>10. CASE DeleteUser(c)
  BY <1>1, <1>10 DEF DeleteUser, Results
<1>11. CASE SupabaseRequestFails(c)
  BY <1>1, <1>11 DEF SupabaseRequestFails, Refused, SupabaseOutcome, Results
<1> QED
  BY <1>5, <1>7, <1>8, <1>9, <1>10, <1>11 DEF SupabaseStep

LEMMA ContactRecord ==
    ASSUME Typed, CallsFit, NEW c \in Callers, ContactStep(c)
    PROVE  CallFits(c, call'[c]) /\ result'[c] \in Results
<1>0. call \in [Callers -> Calls] /\ call[c] \in Calls /\ CallFits(c, call[c])
      /\ result \in [Callers -> Results] /\ held \subseteq Entries
  BY DEF Typed, TypeOK, CallsFit
<1>1. ASSUME NEW outcome \in Results, Settle(c, outcome)
      PROVE  CallFits(c, call'[c]) /\ result'[c] \in Results
  <2>1. CallFits(c, call'[c]) /\ result'[c] = outcome
    BY <1>1, Settled
  <2> QED
    BY <1>1, <2>1
<1>2. ASSUME NEW next, GoOn(c, next), CallFits(c, next)
      PROVE  CallFits(c, call'[c]) /\ result'[c] \in Results
  BY <1>0, <1>2 DEF GoOn
<1>3. ASSUME NEW got \in SUBSET Entries, Own(got), Return(c, "exported", got)
      PROVE  CallFits(c, call'[c]) /\ result'[c] \in Results
  <2>1. CallFits(c, call'[c]) /\ result'[c] = "exported"
    BY <1>3, Returned
  <2> QED
    BY <2>1 DEF Results
<1>4. {e \in held : e[1] = Root} \in SUBSET Entries /\ Own({e \in held : e[1] = Root})
  BY <1>0, VendorAssumption DEF Own
<1>5. ASSUME NEW r \in Calls, system \notin Storages, system # "supabase_postgrest",
             r.ref = call[c].ref, r.verb = call[c].verb, r.codes = call[c].codes,
             r.found = call[c].found, r.todo = call[c].todo, Own(r.got), r.drift \subseteq Targets(c),
             r.place # "fetching"
      PROVE  CallFits(c, r)
  BY <1>0, <1>5 DEF CallFits
<1>6. ASSUME system \in {"stripe", "intercom"}
      PROVE  CallFits(c, [call[c] EXCEPT !.place = "parts", !.marker = Rank(<<Root, 1>>),
                                         !.got = {e \in held : e[1] = Root}])
  <2> DEFINE r == [call[c] EXCEPT !.place = "parts", !.marker = Rank(<<Root, 1>>),
                                  !.got = {e \in held : e[1] = Root}]
  <2>1. Rank(<<Root, 1>>) \in Nat
    <3>1. <<Root, 1>> \in Entries
      BY VendorAssumption DEF Entries
    <3> QED
      BY <3>1, RankNat
  <2>2. /\ r \in Calls /\ r.place = "parts" /\ r.todo = call[c].todo /\ r.codes = call[c].codes
        /\ r.found = call[c].found /\ r.verb = call[c].verb /\ r.ref = call[c].ref
        /\ r.drift = call[c].drift /\ r.got = {e \in held : e[1] = Root}
    BY <1>0, <1>4, <2>1 DEF Calls, Places
  <2> HIDE DEF r
  <2>3. CallFits(c, r)
    BY <1>0, <1>4, <1>5, <1>6, <2>2 DEF CallFits, Storages
  <2> QED
    BY <2>3 DEF r
<1>7. ASSUME system \in {"stripe", "intercom"}, call[c].place = "parts", Paged(c)
      PROVE  CallFits(c, call'[c]) /\ result'[c] \in Results
  <2> DEFINE later == {e \in Subjects(held) : e[1] # Root /\ Rank(e) > call[c].marker}
             page == NextParts(c)
             got == call[c].got \cup page
             r == [call[c] EXCEPT !.got = got, !.marker = LastRank(page)]
  <2>1. later \in SUBSET Entries /\ Own(later) /\ page \subseteq later
    BY <1>0 DEF Subjects, Own, NextParts, Earliest
  <2>2. got \in SUBSET Entries /\ Own(got)
    BY <1>0, <2>1 DEF CallFits, Calls, Own
  <2>3. \/ Return(c, "exported", got)
        \/ later # {} /\ GoOn(c, r)
    BY <1>7 DEF Paged
  <2>4. later # {} => page # {}
    BY <2>1, EarliestIsNonempty, VendorAssumption DEF NextParts
  <2> HIDE DEF later, page, got
  <2>5. ASSUME later # {} PROVE CallFits(c, r)
    <3>1. LastRank(page) \in Nat
      BY <2>1, <2>4, <2>5, LastRankIs
    <3>2. /\ r \in Calls /\ r.place = "parts" /\ r.todo = call[c].todo /\ r.codes = call[c].codes
          /\ r.found = call[c].found /\ r.verb = call[c].verb /\ r.ref = call[c].ref
          /\ r.drift = call[c].drift /\ r.got = got
      BY <1>0, <1>7, <2>2, <3>1 DEF Calls
    <3> HIDE DEF r
    <3> QED
      BY <1>0, <1>5, <1>7, <2>2, <3>2 DEF CallFits, Storages
  <2> HIDE DEF r
  <2> QED
    BY <1>2, <1>3, <2>2, <2>3, <2>5
<1>8. CASE CollectCustomer(c) \/ GetContact(c)
  BY <1>1, <1>2, <1>6, <1>8 DEF CollectCustomer, GetContact, Results
<1>9. CASE PagePaymentMethods(c) \/ SearchConversations(c)
  BY <1>1, <1>7, <1>9 DEF PagePaymentMethods, SearchConversations, At, Results
<1>10. CASE DeleteCustomer(c) \/ DeleteContact(c) \/ EraseResend(c) \/ EraseMemory(c)
  BY <1>1, <1>10 DEF DeleteCustomer, DeleteContact, EraseResend, EraseMemory, Results
<1>11. CASE ReadCustomer(c)
  <2> DEFINE drift == {f \in Targets(c) : profile[f] # Target(c, f)}
             r == [call[c] EXCEPT !.place = "updating", !.drift = drift]
  <2>1. system = "stripe" /\ (Settle(c, "consistent") \/ GoOn(c, r))
    BY <1>11 DEF ReadCustomer
  <2>2. drift \subseteq Targets(c) /\ drift \in SUBSET Fields
    BY TargetsAreFields
  <2> HIDE DEF drift
  <2>3. /\ r \in Calls /\ r.place = "updating" /\ r.todo = call[c].todo /\ r.codes = call[c].codes
        /\ r.found = call[c].found /\ r.verb = call[c].verb /\ r.ref = call[c].ref
        /\ r.drift = drift /\ r.got = call[c].got
    BY <1>0, <2>2 DEF Calls, Places
  <2> HIDE DEF r
  <2>4. CallFits(c, r)
    BY <1>0, <1>5, <2>1, <2>2, <2>3 DEF CallFits, Storages
  <2> QED
    BY <1>1, <1>2, <2>1, <2>4 DEF Results
<1>12. CASE UpdateCustomer(c) \/ RectifyMemory(c)
  BY <1>1, <1>12 DEF UpdateCustomer, RectifyMemory, Results
<1>13. CASE StripeRequestFails(c) \/ ResendRequestFails(c) \/ IntercomRequestFails(c)
  BY <1>1, <1>13 DEF StripeRequestFails, ResendRequestFails, IntercomRequestFails, Refused,
     StripeOutcome, ResendOutcome, IntercomOutcome, Results
<1>14. CASE ExportResend(c) \/ ExportMemory(c)
  BY <1>3, <1>4, <1>14 DEF ExportResend, ExportMemory
<1> QED
  BY <1>8, <1>9, <1>10, <1>11, <1>12, <1>13, <1>14 DEF ContactStep

LEMMA StartRecord ==
    ASSUME Typed, CallsFit, NEW c \in Callers, Begin(c) \/ CallAgain(c)
    PROVE  CallFits(c, call'[c]) /\ result'[c] \in Results
<1>0. call \in [Callers -> Calls] /\ call[c] \in Calls /\ CallFits(c, call[c])
      /\ result \in [Callers -> Results]
  BY DEF Typed, TypeOK, CallsFit
<1>1. PICK verb \in Verbs, ref \in Refs :
        /\ Start(c, verb, ref)
        /\ system \notin Storages => ref = "own/"
        /\ verb = "rectify" => system \in Rectifying
  <2>1. CASE Begin(c)
    BY <2>1, VendorAssumption DEF Begin, Verbs
  <2>2. CASE CallAgain(c)
    BY <1>0, <2>2 DEF CallAgain, CallFits, Calls
  <2> QED
    BY <2>1, <2>2
<1>2. \E s \in OwnSlots : s > 0
  BY VendorAssumption DEF Root
<1>3. /\ call'[c] \in Calls
      /\ call'[c].verb = verb /\ call'[c].ref = ref /\ call'[c].place = "starting"
      /\ call'[c].marker = 0 /\ call'[c].found = {} /\ call'[c].todo = {}
      /\ call'[c].got = {} /\ call'[c].codes = {} /\ call'[c].drift = {}
      /\ result'[c] = "none"
  <2>1. IsStarted(c, verb, ref)
    BY <1>1, StartedIs
  <2> QED
    BY <2>1 DEF IsStarted
<1> QED
  BY <1>1, <1>2, <1>3 DEF CallFits, Own, Results

-----------------------------------------------------------------------------
(* The step seen from one call, and from the store.                         *)

SameCall(c) ==
    call'[c] = call[c] /\ result'[c] = result[c] /\ begun'[c] = begun[c] /\ took'[c] = took[c]

LEMMA CallFrame ==
    ASSUME Typed, NEW c \in Callers, NEW d \in Callers, Begin(d) \/ CallAgain(d) \/ CallStep(d)
    PROVE  /\ c # d => SameCall(c)
           /\ system' = system /\ allowed' = allowed
           /\ call' = [call EXCEPT ![d] = call'[d]] /\ result' = [result EXCEPT ![d] = result'[d]]
<1>0. /\ call \in [Callers -> Calls] /\ result \in [Callers -> Results]
      /\ begun \in [Callers -> SUBSET Entries] /\ took \in [Callers -> SUBSET Entries]
  BY DEF Typed, TypeOK
<1>1. CASE Starts(d)
  BY <1>0, <1>1 DEF Starts, Start, SameCall
<1>2. ASSUME Moves(d)
      PROVE  /\ c # d => call'[c] = call[c] /\ result'[c] = result[c] /\ begun'[c] = begun[c]
             /\ system' = system /\ allowed' = allowed
             /\ call' = [call EXCEPT ![d] = call'[d]] /\ result' = [result EXCEPT ![d] = result'[d]]
  <2>1. ASSUME NEW next, GoOn(d, next)
        PROVE  /\ c # d => call'[c] = call[c] /\ result'[c] = result[c] /\ begun'[c] = begun[c]
               /\ system' = system /\ allowed' = allowed
               /\ call' = [call EXCEPT ![d] = call'[d]] /\ result' = [result EXCEPT ![d] = result'[d]]
    BY <1>0, <2>1 DEF GoOn
  <2>2. ASSUME NEW outcome, NEW exported, Return(d, outcome, exported)
        PROVE  /\ c # d => call'[c] = call[c] /\ result'[c] = result[c] /\ begun'[c] = begun[c]
               /\ system' = system /\ allowed' = allowed
               /\ call' = [call EXCEPT ![d] = call'[d]] /\ result' = [result EXCEPT ![d] = result'[d]]
    BY <1>0, <2>2 DEF Return
  <2> QED
    BY <1>2, <2>1, <2>2 DEF Moves
<1>3. ASSUME Keeps \/ Removes(d) \/ Rewrites(d) PROVE c # d => took'[c] = took[c]
  BY <1>0, <1>3 DEF Keeps, StoreUnchanged, Removes, Remove, Rewrites, UpdateCustomer, RectifyMemory
<1> QED
  BY <1>1, <1>2, <1>3, StartForm, CallForm DEF SameCall

LEMMA EnvironmentFrame ==
    ASSUME NEW c \in Callers, Environment \/ UNCHANGED vars
    PROVE  SameCall(c) /\ system' = system /\ allowed' = allowed /\ UNCHANGED <<call, result>>
BY DEF Environment, Write, Discard, Holds, SameCall, vars

\* Only the system of an s3 resolver keeps more than the newest entry of a slot.
Plain ==
    system # "s3" => markers = {} /\ \A e, f \in held : e[1] = f[1] => e = f

Base == Typed /\ CallsFit /\ Plain

LEMMA CorrectedTyped ==
    ASSUME Typed, NEW c \in Callers, NEW fields \in SUBSET Targets(c)
    PROVE  Corrected(c, fields) \in [Fields -> Values]
BY TargetsAreFields DEF Corrected, Typed, TypeOK

\* What a step does to the store.
StoreFits ==
    /\ system' \in Systems /\ allowed' \in BOOLEAN
    /\ held' \subseteq Entries /\ markers' \subseteq held'
    /\ written' \in [Slots -> 0..MaxVersion]
    /\ \A e \in held' : e[2] <= written'[e[1]]
    /\ profile' \in [Fields -> Values] /\ changes' \in 0..MaxChanges
    /\ Plain'

LEMMA StoreStep ==
    ASSUME Base, [Next]_vars
    PROVE  StoreFits
<1>0. /\ system \in Systems /\ allowed \in BOOLEAN
      /\ held \subseteq Entries /\ markers \subseteq held
      /\ written \in [Slots -> 0..MaxVersion]
      /\ \A e \in held : e[2] <= written[e[1]]
      /\ profile \in [Fields -> Values] /\ changes \in 0..MaxChanges
  BY DEF Base, Typed, TypeOK
<1>1. CASE UNCHANGED <<system, allowed, held, markers, written, changes>> /\ profile' \in [Fields -> Values]
  BY <1>0, <1>1 DEF StoreFits, Plain, Base
<1>2. ASSUME NEW E, system' = system, allowed' = allowed, held' = held \ E, markers' = markers \ E,
             UNCHANGED <<written, profile, changes>>
      PROVE  StoreFits
  BY <1>0, <1>2 DEF StoreFits, Plain, Base
<1>3. ASSUME NEW c \in Callers, CallStep(c) PROVE StoreFits
  <2>1. system' = system /\ allowed' = allowed
    BY <1>3, CallFrame DEF Base
  <2>2. CASE Keeps
    BY <1>0, <1>1, <2>1, <2>2 DEF Keeps, StoreUnchanged, store
  <2>3. CASE Removes(c)
    BY <1>2, <2>1, <2>3 DEF Removes, Remove, Holds
  <2>4. CASE UpdateCustomer(c) \/ RectifyMemory(c)
    <3>1. CallFits(c, call[c])
      BY DEF Base, CallsFit
    <3>2. PICK fields \in SUBSET Targets(c) : \/ profile' = Corrected(c, fields)
                                             \/ profile' = profile
      BY <2>4, <3>1 DEF UpdateCustomer, RectifyMemory, WriteProfile, CallFits
    <3>3. profile' \in [Fields -> Values]
      BY <1>0, <3>2, CorrectedTyped DEF Base
    <3> QED
      BY <1>1, <2>1, <2>4, <3>3 DEF UpdateCustomer, RectifyMemory
  <2>5. Keeps \/ Removes(c) \/ UpdateCustomer(c) \/ RectifyMemory(c)
    BY <1>3, CallForm DEF Rewrites
  <2> QED
    BY <2>2, <2>3, <2>4, <2>5
<1>4. ASSUME NEW c \in Callers, Begin(c) \/ CallAgain(c) PROVE StoreFits
  <2>1. Starts(c)
    BY <1>4, StartForm DEF Base
  <2> QED
    BY <1>0, <1>1, <2>1 DEF Starts, Start, store
<1>5. ASSUME NEW s \in OwnSlots, Write(s) PROVE StoreFits
  <2> DEFINE new == <<s, written[s] + 1>>
             older == IF system = "s3" THEN {} ELSE {e \in held : e[1] = s}
  <2>1. /\ s \in Slots /\ MaxVersion \in Nat /\ written[s] \in 0..MaxVersion /\ written[s] < MaxVersion
        /\ written' = [written EXCEPT ![s] = written[s] + 1]
        /\ held' = (held \ older) \cup {new} /\ markers' = markers
        /\ system' = system /\ allowed' = allowed /\ changes' = changes + 1 /\ changes < MaxChanges
    BY <1>0, <1>5, VendorAssumption DEF Write, Holds, Change
  <2>2. new \in Entries /\ new[1] = s /\ new[2] = written[s] + 1
    BY <2>1 DEF Entries
  <2>3. \A e \in held : e \in Entries /\ e[1] \in Slots /\ e[2] \in 1..MaxVersion
    BY <1>0 DEF Entries
  <2>4. written' \in [Slots -> 0..MaxVersion] /\ \A e \in held' : e[2] <= written'[e[1]]
    BY <1>0, <2>1, <2>2, <2>3
  <2>5. profile' \in [Fields -> Values]
    BY <1>0, <1>5, VendorAssumption DEF Write, WriteProfile
  <2>6. changes' \in 0..MaxChanges
    BY <1>0, <2>1, VendorAssumption
  <2>7. markers' \subseteq held' /\ Plain'
    BY <1>0, <2>1, <2>2 DEF Base, Plain
  <2>8. held' \subseteq Entries
    BY <1>0, <2>1, <2>2
  <2> HIDE DEF new, older
  <2> QED
    BY <1>0, <2>1, <2>4, <2>5, <2>6, <2>7, <2>8 DEF StoreFits
<1>6. ASSUME NEW s \in OwnSlots, Discard(s) PROVE StoreFits
  <2>1. /\ system' = system /\ allowed' = allowed /\ changes' = changes + 1 /\ changes < MaxChanges
        /\ profile' = profile
    BY <1>6 DEF Discard, Holds, Change
  <2>2. changes' \in 0..MaxChanges
    BY <1>0, <2>1, VendorAssumption
  <2>3. CASE system = "s3"
    <3> DEFINE new == <<s, written[s] + 1>>
    <3>1. /\ s \in Slots /\ MaxVersion \in Nat /\ written[s] \in 0..MaxVersion /\ written[s] < MaxVersion
          /\ written' = [written EXCEPT ![s] = written[s] + 1]
          /\ held' = held \cup {new} /\ markers' = markers \cup {new}
      BY <1>0, <1>6, <2>3, VendorAssumption DEF Discard, Holds
    <3>2. new \in Entries /\ new[1] = s /\ new[2] = written[s] + 1
      BY <3>1 DEF Entries
    <3>3. \A e \in held : e \in Entries /\ e[1] \in Slots /\ e[2] \in 1..MaxVersion
      BY <1>0 DEF Entries
    <3>4. written' \in [Slots -> 0..MaxVersion] /\ \A e \in held' : e[2] <= written'[e[1]]
      BY <1>0, <3>1, <3>2, <3>3
    <3> HIDE DEF new
    <3> QED
      BY <1>0, <2>1, <2>2, <2>3, <3>1, <3>2, <3>4 DEF StoreFits, Plain
  <2>4. CASE system # "s3"
    <3>1. held' = held \ With(s) /\ markers' = {} /\ written' = written
      BY <1>6, <2>4 DEF Discard, Holds
    <3> QED
      BY <1>0, <2>1, <2>2, <3>1 DEF StoreFits, Base, Plain
  <2> QED
    BY <2>3, <2>4
<1>7. CASE UNCHANGED vars
  BY <1>0, <1>1, <1>7 DEF vars
<1> QED
  BY <1>3, <1>4, <1>5, <1>6, <1>7 DEF Next, Environment

\* What a step does to what the properties remember.
MemoryFits ==
    /\ begun' \in [Callers -> SUBSET Entries]
    /\ steady' \in [Callers -> SUBSET Entries]
    /\ took' \in [Callers -> SUBSET Entries]
    /\ touched' \in [Callers -> SUBSET Fields]

LEMMA TouchedTyped ==
    ASSUME touched \in [Callers -> SUBSET Fields], NEW c, NEW new, WriteProfile(c, new)
    PROVE  touched' \in [Callers -> SUBSET Fields]
BY DEF WriteProfile

LEMMA MovedBegun ==
    ASSUME begun \in [Callers -> SUBSET Entries], NEW c \in Callers, Moves(c)
    PROVE  begun' \in [Callers -> SUBSET Entries]
<1>1. ASSUME NEW next, GoOn(c, next) PROVE begun' \in [Callers -> SUBSET Entries]
  BY <1>1 DEF GoOn
<1>2. ASSUME NEW outcome, NEW exported, Return(c, outcome, exported)
      PROVE  begun' \in [Callers -> SUBSET Entries]
  BY <1>2 DEF Return
<1> QED
  BY <1>1, <1>2 DEF Moves

LEMMA MemoryStep ==
    ASSUME Base, [Next]_vars
    PROVE  MemoryFits
<1>0. /\ held \subseteq Entries
      /\ begun \in [Callers -> SUBSET Entries] /\ steady \in [Callers -> SUBSET Entries]
      /\ took \in [Callers -> SUBSET Entries] /\ touched \in [Callers -> SUBSET Fields]
  BY DEF Base, Typed, TypeOK
<1>1. ASSUME NEW H, NEW M, Holds(H, M) PROVE steady' \in [Callers -> SUBSET Entries]
  BY <1>0, <1>1 DEF Holds
<1>2. ASSUME NEW c \in Callers, CallStep(c) PROVE MemoryFits
  <2>1. begun' \in [Callers -> SUBSET Entries]
    BY <1>0, <1>2, CallForm, MovedBegun
  <2>2. CASE Keeps
    BY <1>0, <2>1, <2>2 DEF Keeps, StoreUnchanged, MemoryFits
  <2>3. CASE Removes(c)
    <3>1. took' \in [Callers -> SUBSET Entries] /\ touched' = touched
      BY <1>0, <2>3 DEF Removes, Remove
    <3>2. steady' \in [Callers -> SUBSET Entries]
      BY <1>1, <2>3 DEF Removes, Remove
    <3> QED
      BY <1>0, <2>1, <3>1, <3>2 DEF MemoryFits
  <2>4. CASE Rewrites(c)
    <3>1. touched' \in [Callers -> SUBSET Fields]
      BY <1>0, <2>4, TouchedTyped DEF Rewrites, UpdateCustomer, RectifyMemory
    <3> QED
      BY <1>0, <2>1, <2>4, <3>1 DEF MemoryFits, Rewrites, UpdateCustomer, RectifyMemory
  <2> QED
    BY <1>2, <2>2, <2>3, <2>4, CallForm
<1>3. ASSUME NEW c \in Callers, Begin(c) \/ CallAgain(c) PROVE MemoryFits
  <2>1. PICK verb \in Verbs, ref \in Refs : Start(c, verb, ref)
    BY <1>3, StartForm DEF Base, Starts
  <2>2. Subjects(held) \subseteq Entries /\ Exposed \subseteq Entries
    BY <1>0 DEF Subjects, Exposed, Current
  <2> QED
    BY <1>0, <2>1, <2>2 DEF MemoryFits, Start
<1>4. ASSUME NEW s \in OwnSlots, Write(s) PROVE MemoryFits
  <2>1. steady' \in [Callers -> SUBSET Entries]
    BY <1>1, <1>4 DEF Write
  <2>2. touched' \in [Callers -> SUBSET Fields]
    BY <1>0, <1>4, TouchedTyped DEF Write
  <2> QED
    BY <1>0, <1>4, <2>1, <2>2 DEF MemoryFits, Write
<1>5. ASSUME NEW s \in OwnSlots, Discard(s) PROVE MemoryFits
  <2>1. steady' \in [Callers -> SUBSET Entries]
    BY <1>1, <1>5 DEF Discard
  <2> QED
    BY <1>0, <1>5, <2>1 DEF MemoryFits, Discard
<1>6. CASE UNCHANGED vars
  BY <1>0, <1>6 DEF vars, MemoryFits
<1> QED
  BY <1>2, <1>3, <1>4, <1>5, <1>6 DEF Next, Environment

LEMMA RecordStep ==
    ASSUME Base, [Next]_vars
    PROVE  /\ call' \in [Callers -> Calls] /\ result' \in [Callers -> Results]
           /\ system' = system /\ allowed' = allowed
           /\ CallsFit'
<1>0. call \in [Callers -> Calls] /\ result \in [Callers -> Results] /\ CallsFit
  BY DEF Base, Typed, TypeOK
<1>1. ASSUME NEW d \in Callers, Begin(d) \/ CallAgain(d) \/ CallStep(d)
      PROVE  /\ call' \in [Callers -> Calls] /\ result' \in [Callers -> Results]
             /\ system' = system /\ allowed' = allowed
             /\ \A c \in Callers : CallFits(c, call'[c])
  <2>1. CallFits(d, call'[d]) /\ result'[d] \in Results
    BY <1>1, StorageRecord, SupabaseRecord, ContactRecord, StartRecord DEF Base, CallStep
  <2>2. /\ system' = system /\ allowed' = allowed
        /\ call' = [call EXCEPT ![d] = call'[d]] /\ result' = [result EXCEPT ![d] = result'[d]]
    BY <1>1, CallFrame DEF Base
  <2>3. call'[d] \in Calls
    BY <2>1 DEF CallFits
  <2> QED
    BY <1>0, <2>1, <2>2, <2>3 DEF CallsFit
<1>2. CASE Environment \/ UNCHANGED vars
  <2>1. UNCHANGED <<call, result, system, allowed>>
    BY <1>2 DEF Environment, Write, Discard, Holds, vars
  <2> QED
    BY <1>0, <2>1 DEF CallsFit, CallFits, Targets, Mapped, FieldOf
<1>3. ASSUME system' = system, allowed' = allowed, NEW c \in Callers, CallFits(c, call'[c])
      PROVE  CallFits(c, call[c])'
  BY <1>3 DEF CallFits, Targets, Mapped, FieldOf
<1> QED
  BY <1>1, <1>2, <1>3 DEF Next, CallsFit

LEMMA BaseStep ==
    ASSUME Base, [Next]_vars
    PROVE  Base'
<1>1. StoreFits /\ MemoryFits
  BY StoreStep, MemoryStep
<1>2. call' \in [Callers -> Calls] /\ result' \in [Callers -> Results] /\ CallsFit'
  BY RecordStep
<1>3. \A c \in Callers :
        /\ call'[c].verb \in Verbs
        /\ call'[c].place \in Places
        /\ call'[c].found \cup call'[c].todo \cup call'[c].got \subseteq Entries
        /\ call'[c].drift \subseteq Fields
  BY <1>2 DEF Calls
<1>4. TypeOK'
  BY <1>1, <1>2, <1>3 DEF TypeOK, StoreFits, MemoryFits
<1> QED
  BY <1>1, <1>2, <1>4 DEF Base, Typed, StoreFits

LEMMA BaseInit ==
    ASSUME Init
    PROVE  Base
<1>1. NoCall \in Calls
  BY DEF NoCall, Calls, Verbs, Refs, Places
<1>2. call \in [Callers -> Calls] /\ \A c \in Callers : call[c] = NoCall
  BY <1>1 DEF Init
<1>3. \E s \in OwnSlots : s > 0
  BY VendorAssumption DEF Root
<1>4. CallsFit
  BY <1>1, <1>2, <1>3 DEF CallsFit, CallFits, NoCall, Own
<1>5. 1 \in 1..MaxVersion /\ 0..1 \subseteq 0..MaxVersion /\ 0 \in 0..MaxChanges
  BY VendorAssumption
<1>6. /\ held \subseteq Entries /\ written \in [Slots -> 0..MaxVersion]
      /\ \A e \in held : e[2] <= written[e[1]]
  BY <1>5 DEF Init, Entries
<1>7. TypeOK
  <2>1. \A c \in Callers :
        /\ call[c].verb \in Verbs
        /\ call[c].place \in Places
        /\ call[c].found \cup call[c].todo \cup call[c].got \subseteq Entries
        /\ call[c].drift \subseteq Fields
    BY <1>2 DEF Calls
  <2>2. /\ result \in [Callers -> Results]
        /\ begun \in [Callers -> SUBSET Entries]
        /\ steady \in [Callers -> SUBSET Entries]
        /\ took \in [Callers -> SUBSET Entries]
        /\ profile \in [Fields -> Values]
        /\ touched \in [Callers -> SUBSET Fields]
    BY VendorAssumption DEF Init, Results
  <2> QED
    BY <1>5, <1>6, <2>1, <2>2 DEF TypeOK, Init
<1>8. Plain
  BY DEF Init, Plain
<1> QED
  BY <1>2, <1>4, <1>7, <1>8 DEF Base, Typed

LEMMA BaseHolds == Spec => []Base
<1>1. Init => Base
  BY BaseInit
<1>2. Base /\ [Next]_vars => Base'
  BY BaseStep
<1> QED
  BY <1>1, <1>2, PTL DEF Spec

\* Every variable keeps its type: the entries held have been written, a delete marker is
\* an entry, and a call is at one of its places with entries in hand.
THEOREM TypeCorrect == Spec => []TypeOK
<1>1. Base => TypeOK
  BY DEF Base, Typed
<1> QED
  BY <1>1, BaseHolds, PTL

-----------------------------------------------------------------------------
(* Whom a request reaches, and what a call is abandoned for.                *)

LEMMA OwnRemovals ==
    ASSUME Base, NEW c \in Callers, CallStep(c), Own(took[c])
    PROVE  Own(took'[c])
<1>0. CallFits(c, call[c]) /\ held \subseteq Entries /\ took \in [Callers -> SUBSET Entries]
  BY DEF Base, CallsFit, Typed, TypeOK
<1>1. CASE Keeps \/ Rewrites(c)
  BY <1>1 DEF Keeps, StoreUnchanged, Rewrites, UpdateCustomer, RectifyMemory
<1>2. ASSUME NEW E, Remove(c, E), Own(E) PROVE Own(took'[c])
  BY <1>0, <1>2 DEF Remove, Own
<1>3. ASSUME NEW E, Own(E) PROVE Own(Reached(E))
  BY <1>3 DEF Own, Reached
<1>4. CASE DeleteBatch(c)
  <2>1. PICK batch : /\ batch \subseteq call[c].todo
                     /\ AnsweredBatch(c, batch) \/ LostBatch(c, batch)
    BY <1>4 DEF DeleteBatch, Earliest
  <2>2. PICK E : E \subseteq batch /\ Remove(c, Reached(E))
    BY <2>1 DEF AnsweredBatch, LostBatch
  <2>3. Own(E)
    BY <1>0, <2>1, <2>2 DEF CallFits, Own
  <2> QED
    BY <1>2, <1>3, <2>2, <2>3
<1>5. CASE DeleteRows(c)
  <2>1. Own(RowsOf(held, Table(c)))
    <3>1. Table(c) \in OwnSlots
      BY <1>0, <1>5, TableIs DEF DeleteRows, CallFits, Calls
    <3> QED
      BY <3>1 DEF RowsOf, Own
  <2> QED
    BY <1>2, <1>5, <2>1 DEF DeleteRows
<1>6. CASE DeleteUser(c)
  <2>1. Own(RowsOf(held, Root))
    BY VendorAssumption DEF RowsOf, Own
  <2> QED
    BY <1>2, <1>6, <2>1 DEF DeleteUser
<1>7. CASE DeleteCustomer(c) \/ DeleteContact(c) \/ EraseResend(c) \/ EraseMemory(c)
  <2>1. Own(With(Root)) /\ Own({})
    BY VendorAssumption DEF With, Subjects, Own
  <2>2. Remove(c, With(Root)) \/ Remove(c, {})
    BY <1>7 DEF DeleteCustomer, DeleteContact, EraseResend, EraseMemory
  <2> QED
    BY <1>2, <2>1, <2>2
<1>8. CASE S3Step(c) \/ SupabaseStep(c) \/ ContactStep(c)
  <2>1. CASE S3Step(c)
    BY <1>1, <1>4, <2>1 DEF S3Step, RefuseThePrefix, collect_version_identifiers, ListForErasure,
       delete_in_batches, iter_current_objects, collect_object_records, StorageRequestFails, Refused,
       Keeps
  <2>2. CASE SupabaseStep(c)
    BY <1>1, <1>4, <1>5, <1>6, <2>2 DEF SupabaseStep, DeleteCurrent, ListForErasure, SelectTable,
       ExportUser, SupabaseRequestFails, Refused, Keeps
  <2>3. CASE ContactStep(c)
    BY <1>1, <1>7, <2>3 DEF ContactStep, CollectCustomer, PagePaymentMethods, ReadCustomer,
       StripeRequestFails, GetContact, SearchConversations, ExportResend, ResendRequestFails,
       IntercomRequestFails, ExportMemory, Refused, Keeps, Rewrites
  <2> QED
    BY <1>8, <2>1, <2>2, <2>3
<1> QED
  BY <1>8 DEF CallStep

\* No request of any resolver, however its calls interleave with the application and with
\* each other, has removed an entry of a sibling.
THEOREM SiblingsAreSafe == Spec => []NothingOfOthers
<1>1. Init => NothingOfOthers
  BY DEF Init, NothingOfOthers
<1>2. ASSUME Base, NothingOfOthers, [Next]_vars PROVE NothingOfOthers'
  <2>1. ASSUME NEW c \in Callers PROVE Own(took'[c])
    <3>0. Own(took[c]) /\ took \in [Callers -> SUBSET Entries]
      BY <1>2 DEF NothingOfOthers, Own, Base, Typed, TypeOK
    <3>1. CASE Environment \/ UNCHANGED vars
      BY <3>0, <3>1, EnvironmentFrame DEF SameCall
    <3>2. ASSUME NEW d \in Callers, Begin(d) \/ CallAgain(d) \/ CallStep(d), c # d PROVE Own(took'[c])
      BY <1>2, <3>0, <3>2, CallFrame DEF SameCall, Base
    <3>3. CASE CallStep(c)
      BY <1>2, <3>0, <3>3, OwnRemovals
    <3>4. CASE Begin(c) \/ CallAgain(c)
      BY <1>2, <3>0, <3>4, StartForm DEF Base, Starts, Start, Own
    <3> QED
      BY <1>2, <3>1, <3>2, <3>3, <3>4 DEF Next
  <2> QED
    BY <2>1 DEF NothingOfOthers, Own
<1> QED
  BY <1>1, <1>2, BaseHolds, PTL DEF Spec

\* A call in progress has no result yet.
Waiting == \A c \in Callers : call[c].place # "idle" => result[c] = "none"

LEMMA CallIsUnderWay ==
    ASSUME NEW c \in Callers, CallStep(c)
    PROVE  call[c].place # "idle"
<1>1. CASE S3Step(c) \/ DeleteCurrent(c)
  BY <1>1 DEF S3Step, RefuseThePrefix, collect_version_identifiers, ListForErasure, DeleteCurrent,
     delete_in_batches, DeleteBatch, iter_current_objects, collect_object_records,
     StorageRequestFails, Listing, At
<1>2. CASE SupabaseStep(c)
  BY <1>1, <1>2 DEF SupabaseStep, SelectTable, DeleteRows, ExportUser, DeleteUser,
     SupabaseRequestFails, At
<1>3. CASE ContactStep(c)
  BY <1>3 DEF ContactStep, CollectCustomer, PagePaymentMethods, DeleteCustomer, ReadCustomer,
     UpdateCustomer, StripeRequestFails, GetContact, SearchConversations, DeleteContact,
     ExportResend, EraseResend, ResendRequestFails, IntercomRequestFails, ExportMemory,
     EraseMemory, RectifyMemory, At
<1> QED
  BY <1>1, <1>2, <1>3 DEF CallStep

\* A call that goes on has no result; one that returns keeps its method and its reference.
LEMMA CallOutcome ==
    ASSUME Base, Waiting, NEW c \in Callers, CallStep(c)
    PROVE  /\ call'[c].place # "idle" => result'[c] = "none"
           /\ result'[c] # "none" => call'[c].verb = call[c].verb /\ call'[c].ref = call[c].ref
<1>0. /\ call \in [Callers -> Calls] /\ result \in [Callers -> Results]
      /\ result[c] = "none" /\ call[c] \in Calls
  BY CallIsUnderWay DEF Base, Typed, TypeOK, Waiting
<1>1. ASSUME NEW next, GoOn(c, next) PROVE result'[c] = "none"
  BY <1>0, <1>1 DEF GoOn
<1>2. ASSUME NEW outcome, NEW exported, Return(c, outcome, exported)
      PROVE  call'[c].place = "idle" /\ call'[c].verb = call[c].verb /\ call'[c].ref = call[c].ref
  BY <1>0, <1>2 DEF Return, NoCall
<1>3. Moves(c)
  BY CallForm
<1> QED
  BY <1>1, <1>2, <1>3 DEF Moves

LEMMA WaitingStep ==
    ASSUME Base, Waiting, [Next]_vars
    PROVE  Waiting'
<1>1. ASSUME NEW c \in Callers PROVE call'[c].place # "idle" => result'[c] = "none"
  <2>1. CASE Environment \/ UNCHANGED vars
    BY <2>1, EnvironmentFrame DEF SameCall, Waiting
  <2>2. ASSUME NEW d \in Callers, Begin(d) \/ CallAgain(d) \/ CallStep(d), c # d
        PROVE  call'[c].place # "idle" => result'[c] = "none"
    BY <2>2, CallFrame DEF SameCall, Base, Waiting
  <2>3. CASE CallStep(c)
    BY <2>3, CallOutcome
  <2>4. CASE Begin(c) \/ CallAgain(c)
    <3>1. result \in [Callers -> Results]
      BY DEF Base, Typed, TypeOK
    <3> QED
      BY <2>4, <3>1, StartForm DEF Base, Starts, Start
  <2> QED
    BY <2>1, <2>2, <2>3, <2>4 DEF Next
<1> QED
  BY <1>1 DEF Waiting

Cause(c) ==
    \/ ~allowed
    \/ ~checked_prefix(call[c].ref)
    \/ call[c].verb = "export" /\ Oversized # {}

LEMMA RejectionCause ==
    ASSUME Base, Waiting, NEW c \in Callers, CallStep(c), result'[c] = "rejected"
    PROVE  Cause(c)
<1>0. /\ call \in [Callers -> Calls] /\ result \in [Callers -> Results]
      /\ result[c] = "none" /\ call[c] \in Calls /\ CallFits(c, call[c])
  BY CallIsUnderWay DEF Base, CallsFit, Typed, TypeOK, Waiting
<1>1. ASSUME NEW next, GoOn(c, next) PROVE FALSE
  BY <1>0, <1>1 DEF GoOn
<1>2. ASSUME NEW outcome, NEW exported, Return(c, outcome, exported) PROVE outcome = "rejected"
  BY <1>0, <1>2 DEF Return
<1>3. ASSUME NEW outcome, Settle(c, outcome) PROVE outcome = "rejected"
  BY <1>2, <1>3 DEF Settle
<1>4. ASSUME NEW outcome, Refused(c, outcome) PROVE Cause(c)
  BY <1>3, <1>4 DEF Refused, Cause
<1>5. ASSUME NEW E, ListForErasure(c, E) PROVE FALSE
  BY <1>1, <1>3, <1>5 DEF ListForErasure
<1>6. CASE DeleteBatch(c)
  <2>1. PICK batch : AnsweredBatch(c, batch)
    BY <1>3, <1>6 DEF DeleteBatch, LostBatch
  <2>2. PICK denied \in (IF allowed THEN {{}} ELSE SUBSET batch), busy \in SUBSET batch :
          LET codes == call[c].codes \cup (IF denied = {} THEN {} ELSE {"AccessDenied"})
                                     \cup (IF busy = {} THEN {} ELSE {"SlowDown"})
          IN  ErasureOutcome(codes) = "rejected"
    BY <1>1, <1>3, <2>1 DEF AnsweredBatch
  <2>3. PICK code \in call[c].codes \cup (IF denied = {} THEN {} ELSE {"AccessDenied"})
                                    \cup (IF busy = {} THEN {} ELSE {"SlowDown"}) :
          is_nonretryable(code)
    BY <2>2 DEF ErasureOutcome
  <2>4. code # "SlowDown"
    BY <2>3 DEF is_nonretryable, NonRetryableCodes
  <2>5. ~allowed
    BY <1>0, <2>2, <2>3, <2>4 DEF CallFits
  <2> QED
    BY <2>5 DEF Cause
<1>7. CASE S3Step(c)
  <2>1. CASE RefuseThePrefix(c)
    BY <2>1 DEF RefuseThePrefix, Cause
  <2>2. CASE iter_current_objects(c)
    BY <1>1, <1>2, <2>2 DEF iter_current_objects
  <2>3. CASE collect_object_records(c)
    <3>1. PICK entry : entry \in Oversized
      BY <1>1, <1>2, <2>3 DEF collect_object_records
    <3> QED
      BY <2>3, <3>1 DEF collect_object_records, At, Cause
  <2>4. CASE StorageRequestFails(c)
    BY <1>4, <2>4 DEF StorageRequestFails
  <2> QED
    BY <1>5, <1>6, <1>7, <2>1, <2>2, <2>3, <2>4 DEF S3Step, collect_version_identifiers, delete_in_batches
<1>8. CASE SupabaseStep(c)
  <2>1. CASE SelectTable(c)
    BY <1>1, <1>2, <2>1 DEF SelectTable
  <2>2. CASE DeleteRows(c)
    BY <1>1, <1>3, <2>2 DEF DeleteRows
  <2>3. CASE ExportUser(c)
    BY <1>2, <2>3 DEF ExportUser
  <2>4. CASE DeleteUser(c)
    BY <1>3, <2>4 DEF DeleteUser
  <2>5. CASE SupabaseRequestFails(c)
    BY <1>4, <2>5 DEF SupabaseRequestFails
  <2> QED
    BY <1>5, <1>6, <1>8, <2>1, <2>2, <2>3, <2>4, <2>5 DEF SupabaseStep, DeleteCurrent
<1>9. CASE ContactStep(c)
  <2>1. CASE CollectCustomer(c) \/ GetContact(c)
    BY <1>1, <1>3, <2>1 DEF CollectCustomer, GetContact
  <2>2. CASE PagePaymentMethods(c) \/ SearchConversations(c)
    BY <1>1, <1>2, <1>3, <2>2 DEF PagePaymentMethods, SearchConversations, Paged
  <2>3. CASE DeleteCustomer(c) \/ DeleteContact(c) \/ EraseResend(c) \/ EraseMemory(c)
    BY <1>3, <2>3 DEF DeleteCustomer, DeleteContact, EraseResend, EraseMemory
  <2>4. CASE ReadCustomer(c)
    BY <1>1, <1>3, <2>4 DEF ReadCustomer
  <2>5. CASE UpdateCustomer(c) \/ RectifyMemory(c)
    BY <1>3, <2>5 DEF UpdateCustomer, RectifyMemory
  <2>6. CASE StripeRequestFails(c) \/ ResendRequestFails(c) \/ IntercomRequestFails(c)
    BY <1>4, <2>6 DEF StripeRequestFails, ResendRequestFails, IntercomRequestFails
  <2>7. CASE ExportResend(c) \/ ExportMemory(c)
    BY <1>2, <2>7 DEF ExportResend, ExportMemory
  <2> QED
    BY <1>9, <2>1, <2>2, <2>3, <2>4, <2>5, <2>6, <2>7 DEF ContactStep
<1> QED
  BY <1>7, <1>8, <1>9 DEF CallStep

\* A call is abandoned only where a repetition could not have succeeded: bad credentials, a
\* malformed reference or, for an export, an object over the cap.  A status, an error
\* type or a code of the taxonomies never makes a passing failure final.
THEOREM AbandonedWithCause == Spec => []RejectedForCause
<1> DEFINE Inv == Waiting /\ RejectedForCause
<1>1. Init => Inv
  BY DEF Init, Waiting, RejectedForCause, NoCall
<1>2. ASSUME Base, Inv, [Next]_vars PROVE Inv'
  <2>1. ASSUME NEW c \in Callers, result'[c] = "rejected" PROVE Cause(c)'
    <3>1. CASE Environment \/ UNCHANGED vars
      BY <1>2, <2>1, <3>1, EnvironmentFrame DEF SameCall, RejectedForCause, Cause
    <3>2. ASSUME NEW d \in Callers, Begin(d) \/ CallAgain(d) \/ CallStep(d), c # d PROVE Cause(c)'
      BY <1>2, <2>1, <3>2, CallFrame DEF SameCall, Base, RejectedForCause, Cause
    <3>3. CASE CallStep(c)
      BY <1>2, <2>1, <3>3, CallOutcome, CallFrame, RejectionCause DEF Base, Cause
    <3>4. CASE Begin(c) \/ CallAgain(c)
      <4>1. result \in [Callers -> Results]
        BY <1>2 DEF Base, Typed, TypeOK
      <4> QED
        BY <1>2, <2>1, <3>4, <4>1, StartForm DEF Base, Starts, Start
    <3> QED
      BY <1>2, <3>1, <3>2, <3>3, <3>4 DEF Next
  <2> QED
    BY <1>2, <2>1, WaitingStep DEF RejectedForCause, Cause
<1> QED
  BY <1>1, <1>2, BaseHolds, PTL DEF Spec

-----------------------------------------------------------------------------
(* What a rectification leaves.                                             *)

Rectified == {"rectified", "consistent"}

\* The field is corrected, or someone else has changed it since.
Right(c, f) == profile[f] = Target(c, f) \/ f \in touched[c]

\* An update under way has left out only the fields that were right when it read them.
FieldsAreRight ==
    \A c \in Callers :
        /\ result[c] \in Rectified =>
             /\ call[c].verb = "rectify"
             /\ RootHeld => \A f \in Targets(c) : Right(c, f)
        /\ call[c].place = "updating" =>
             /\ call[c].verb = "rectify"
             /\ \A f \in Targets(c) \ call[c].drift : Right(c, f)

\* No other call answers as a rectification does, or is about to.
LEMMA OnlyRectifications ==
    ASSUME Base, Waiting, NEW c \in Callers, CallStep(c),
           ~ReadCustomer(c), ~UpdateCustomer(c), ~RectifyMemory(c)
    PROVE  call'[c].place # "updating" /\ result'[c] \notin Rectified
<1>0. /\ call \in [Callers -> Calls] /\ result \in [Callers -> Results]
      /\ result[c] = "none" /\ call[c] \in Calls
  BY CallIsUnderWay DEF Base, Typed, TypeOK, Waiting
<1> DEFINE Other == call'[c].place # "updating" /\ result'[c] \notin Rectified
<1>1. ASSUME NEW next, GoOn(c, next), next.place # "updating" PROVE Other
  BY <1>0, <1>1 DEF GoOn, Rectified
<1>2. ASSUME NEW outcome, NEW exported, Return(c, outcome, exported), outcome \notin Rectified
      PROVE  Other
  BY <1>0, <1>2 DEF Return, NoCall
<1>3. ASSUME NEW outcome, Settle(c, outcome), outcome \notin Rectified PROVE Other
  BY <1>2, <1>3 DEF Settle
<1>4. ASSUME NEW outcome \in Failures, Refused(c, outcome) PROVE Other
  BY <1>3, <1>4 DEF Refused, Rectified, Failures
<1> SUFFICES Other
  OBVIOUS
<1> HIDE DEF Other
<1>5. ASSUME NEW E, ListForErasure(c, E) PROVE Other
  <2> DEFINE next == Listed(c, E)
             more == [next EXCEPT !.place = "listing"]
             on == [next EXCEPT !.place = "deleting", !.todo = next.found]
  <2>1. GoOn(c, more) \/ GoOn(c, on) \/ Settle(c, "absent")
    BY <1>5 DEF ListForErasure
  <2>2. more.place = "listing" /\ on.place = "deleting"
    BY <1>0 DEF Listed, Calls
  <2> HIDE DEF more, on
  <2> QED
    BY <1>1, <1>3, <2>1, <2>2 DEF Rectified
<1>6. CASE DeleteBatch(c)
  <2>1. \/ \E next : next.place = call[c].place /\ GoOn(c, next)
        \/ \E codes : Settle(c, ErasureOutcome(codes))
        \/ Settle(c, "retry")
    BY <1>0, <1>6 DEF DeleteBatch, AnsweredBatch, LostBatch, Calls
  <2> QED
    BY <1>1, <1>3, <1>6, <2>1 DEF DeleteBatch, At, Rectified, ErasureOutcome
<1>7. CASE S3Step(c)
  <2>1. CASE RefuseThePrefix(c)
    BY <1>3, <2>1 DEF RefuseThePrefix, Rectified
  <2>2. CASE iter_current_objects(c)
    <3> DEFINE next == Listed(c, Under(Current, c))
    <3>1. GoOn(c, [next EXCEPT !.place = "fetching"]) \/ \E got : Return(c, "exported", got)
      BY <2>2 DEF iter_current_objects
    <3>2. [next EXCEPT !.place = "fetching"].place = "fetching"
      BY <1>0 DEF Listed, Calls
    <3> HIDE DEF next
    <3>3. \/ \E other : other.place = "fetching" /\ GoOn(c, other)
          \/ \E got : Return(c, "exported", got)
      BY <3>1, <3>2
    <3> QED
      BY <1>1, <1>2, <3>3 DEF Rectified
  <2>3. CASE collect_object_records(c)
    <3> DEFINE entry == CHOOSE e \in Earliest(call[c].todo, 1) : TRUE
               left == call[c].todo \ {entry}
               got == call[c].got \cup {f \in Current : f[1] = entry[1]}
               more == [call[c] EXCEPT !.todo = left, !.got = got]
               on == [call[c] EXCEPT !.todo = {}, !.got = got, !.place = "listing"]
    <3>1. Settle(c, "rejected") \/ GoOn(c, more) \/ GoOn(c, on) \/ Return(c, "exported", got)
      BY <2>3 DEF collect_object_records
    <3>2. more.place = "fetching" /\ on.place = "listing"
      BY <1>0, <2>3 DEF collect_object_records, At, Calls
    <3> HIDE DEF left, got, more, on
    <3> QED
      BY <1>1, <1>2, <1>3, <3>1, <3>2 DEF Rectified
  <2>4. CASE StorageRequestFails(c)
    BY <1>4, <2>4 DEF StorageRequestFails, Failures
  <2> QED
    BY <1>5, <1>6, <1>7, <2>1, <2>2, <2>3, <2>4 DEF S3Step, collect_version_identifiers, delete_in_batches
<1>8. CASE SupabaseStep(c)
  <2>1. CASE SelectTable(c) \/ DeleteRows(c)
    <3>1. \/ \E next : next.place = "starting" /\ GoOn(c, next)
          \/ \E got : Return(c, "exported", got)
          \/ \E outcome \in {"absent", "erased", "retry"} : Settle(c, outcome)
      BY <1>0, <2>1 DEF SelectTable, DeleteRows, Calls
    <3> QED
      BY <1>1, <1>2, <1>3, <3>1 DEF Rectified
  <2>2. CASE ExportUser(c)
    BY <1>2, <2>2 DEF ExportUser, Rectified
  <2>3. CASE DeleteUser(c)
    BY <1>3, <2>3 DEF DeleteUser, Rectified
  <2>4. CASE SupabaseRequestFails(c)
    BY <1>4, <2>4 DEF SupabaseRequestFails, SupabaseOutcome, Failures
  <2> QED
    BY <1>5, <1>6, <1>8, <2>1, <2>2, <2>3, <2>4 DEF SupabaseStep, DeleteCurrent
<1>9. CASE ContactStep(c)
  <2>1. CASE CollectCustomer(c) \/ GetContact(c) \/ PagePaymentMethods(c) \/ SearchConversations(c)
    <3>1. \/ \E next : next.place = "parts" /\ GoOn(c, next)
          \/ \E got : Return(c, "exported", got)
          \/ Settle(c, "exported")
      BY <1>0, <2>1 DEF CollectCustomer, GetContact, PagePaymentMethods, SearchConversations, Paged, At, Calls
    <3> QED
      BY <1>1, <1>2, <1>3, <3>1 DEF Rectified
  <2>2. CASE DeleteCustomer(c) \/ DeleteContact(c) \/ EraseResend(c) \/ EraseMemory(c)
    BY <1>3, <2>2 DEF DeleteCustomer, DeleteContact, EraseResend, EraseMemory, Rectified
  <2>3. CASE StripeRequestFails(c) \/ ResendRequestFails(c) \/ IntercomRequestFails(c)
    BY <1>4, <2>3 DEF StripeRequestFails, ResendRequestFails, IntercomRequestFails, StripeOutcome,
       ResendOutcome, IntercomOutcome, Failures
  <2>4. CASE ExportResend(c) \/ ExportMemory(c)
    BY <1>2, <2>4 DEF ExportResend, ExportMemory, Rectified
  <2> QED
    BY <1>9, <2>1, <2>2, <2>3, <2>4 DEF ContactStep
<1> QED
  BY <1>7, <1>8, <1>9 DEF CallStep

\* What others do to a field while c rectifies.
LEMMA OthersTouch ==
    ASSUME Base, NEW c \in Callers, call[c].verb = "rectify", NEW f \in Fields,
           \/ Environment
           \/ UNCHANGED vars
           \/ CallStep(c) /\ ~UpdateCustomer(c) /\ ~RectifyMemory(c)
           \/ \E d \in Callers \ {c} : Begin(d) \/ CallAgain(d) \/ CallStep(d)
    PROVE  /\ profile'[f] = profile[f] \/ f \in touched'[c]
           /\ touched[c] \subseteq touched'[c]
<1>0. touched \in [Callers -> SUBSET Fields]
  BY DEF Base, Typed, TypeOK
<1>1. ASSUME NEW w, NEW new, WriteProfile(w, new), w # c
      PROVE  /\ profile'[f] = profile[f] \/ f \in touched'[c]
             /\ touched[c] \subseteq touched'[c]
  BY <1>0, <1>1 DEF WriteProfile
<1>2. CASE profile' = profile /\ touched'[c] = touched[c]
  BY <1>2
<1>3. CASE Environment
  <2>1. CASE \E s \in OwnSlots : Write(s)
    BY <1>1, <1>2, <2>1, VendorAssumption DEF Write
  <2>2. CASE \E s \in OwnSlots : Discard(s)
    BY <1>2, <2>2 DEF Discard
  <2> QED
    BY <1>3, <2>1, <2>2 DEF Environment
<1>4. ASSUME NEW d \in Callers \ {c}, Begin(d) \/ CallAgain(d) PROVE profile' = profile /\ touched'[c] = touched[c]
  <2>1. PICK verb \in Verbs, ref \in Refs : Start(d, verb, ref)
    BY <1>4, StartForm DEF Base, Starts
  <2>2. touched' = [touched EXCEPT ![d] = {}]
    BY <2>1 DEF Start
  <2>3. profile' = profile
    BY <2>1 DEF Start, store
  <2> QED
    BY <1>0, <2>2, <2>3
<1>5. ASSUME NEW d \in Callers, CallStep(d), ~UpdateCustomer(d), ~RectifyMemory(d)
      PROVE  profile' = profile /\ touched'[c] = touched[c]
  BY <1>5, CallForm DEF Keeps, StoreUnchanged, store, Removes, Rewrites
<1>6. ASSUME NEW d \in Callers \ {c}, UpdateCustomer(d) \/ RectifyMemory(d)
      PROVE  /\ profile'[f] = profile[f] \/ f \in touched'[c]
             /\ touched[c] \subseteq touched'[c]
  BY <1>1, <1>2, <1>6 DEF UpdateCustomer, RectifyMemory
<1> QED
  BY <1>2, <1>3, <1>4, <1>5, <1>6 DEF vars

\* The customer of stripe, and the record of the double, do not come back.
LEMMA RootStaysGone ==
    ASSUME Base, [Next]_vars, system \in Rectifying, ~RootHeld
    PROVE  ~RootHeld'
<1>1. CASE held' \subseteq held
  BY <1>1 DEF RootHeld
<1>2. ASSUME NEW c \in Callers, CallStep(c) PROVE held' \subseteq held
  <2>1. CASE Keeps
    BY <2>1 DEF Keeps, StoreUnchanged, store
  <2>2. CASE Removes(c)
    BY <2>2 DEF Removes, Remove, Holds
  <2>3. CASE Rewrites(c)
    BY <2>3 DEF Rewrites, UpdateCustomer, RectifyMemory
  <2> QED
    BY <1>2, <2>1, <2>2, <2>3, CallForm
<1>3. ASSUME NEW c \in Callers, Begin(c) \/ CallAgain(c) PROVE held' \subseteq held
  BY <1>3, StartForm DEF Base, Starts, Start, store
<1>4. ASSUME NEW s \in OwnSlots, Write(s) PROVE FALSE
  BY <1>4 DEF Write, Rectifying
<1>5. ASSUME NEW s \in OwnSlots, Discard(s) PROVE held' \subseteq held
  BY <1>5 DEF Discard, Holds, Rectifying
<1>6. CASE UNCHANGED vars
  BY <1>1, <1>6 DEF vars
<1> QED
  BY <1>1, <1>2, <1>3, <1>4, <1>5, <1>6 DEF Next, Environment

LEMMA TargetStays ==
    ASSUME system' = system, NEW c, NEW f
    PROVE  Targets(c)' = Targets(c) /\ Target(c, f)' = Target(c, f)
BY DEF Targets, Target, Mapped, FieldOf

\* What was right stays right while others act.
LEMMA RightStays ==
    ASSUME Base, [Next]_vars, NEW c \in Callers, call[c].verb = "rectify", NEW f \in Targets(c), Right(c, f),
           \/ Environment
           \/ UNCHANGED vars
           \/ CallStep(c) /\ ~UpdateCustomer(c) /\ ~RectifyMemory(c)
           \/ \E d \in Callers \ {c} : Begin(d) \/ CallAgain(d) \/ CallStep(d)
    PROVE  Right(c, f)'
<1>1. f \in Fields /\ system' = system
  BY TargetsAreFields, RecordStep
<1>2. (profile'[f] = profile[f] \/ f \in touched'[c]) /\ touched[c] \subseteq touched'[c]
  BY <1>1, OthersTouch
<1>3. Target(c, f)' = Target(c, f)
  BY <1>1, TargetStays
<1> QED
  BY <1>2, <1>3 DEF Right

\* What the steps of a rectification itself leave.
LEMMA RectificationStep ==
    ASSUME Base, Waiting, FieldsAreRight, [Next]_vars, NEW c \in Callers,
           ReadCustomer(c) \/ UpdateCustomer(c) \/ RectifyMemory(c)
    PROVE  /\ result'[c] \in Rectified =>
                /\ call'[c].verb = "rectify"
                /\ RootHeld' => \A f \in Targets(c)' : Right(c, f)'
           /\ call'[c].place = "updating" =>
                /\ call'[c].verb = "rectify"
                /\ \A f \in Targets(c)' \ call'[c].drift : Right(c, f)'
<1> DEFINE AllRight == \A f \in Targets(c)' : Right(c, f)'
<1>0. /\ call \in [Callers -> Calls] /\ result \in [Callers -> Results]
      /\ call[c] \in Calls /\ touched \in [Callers -> SUBSET Fields]
      /\ profile \in [Fields -> Values] /\ call[c].verb = "rectify" /\ CallFits(c, call[c])
      /\ call[c].place \in {"starting", "updating"} /\ result[c] = "none"
  BY DEF Base, Typed, TypeOK, CallsFit, ReadCustomer, UpdateCustomer, RectifyMemory, At, Waiting
<1>1. /\ system' = system /\ Targets(c)' = Targets(c) /\ Targets(c) \subseteq Fields
      /\ \A f : Target(c, f)' = Target(c, f)
  BY RecordStep, TargetStays, TargetsAreFields
<1>2. ASSUME NEW outcome, Settle(c, outcome)
      PROVE  /\ call'[c].verb = "rectify" /\ call'[c].place = "idle" /\ result'[c] = outcome
  BY <1>0, <1>2 DEF Settle, Return, NoCall
<1>3. ASSUME NEW fields \in SUBSET Targets(c), profile' = Corrected(c, fields), touched'[c] = touched[c],
             \A f \in Targets(c) \ fields : Right(c, f)
      PROVE  AllRight
  <2>1. ASSUME NEW f \in Targets(c) PROVE profile'[f] = Target(c, f) \/ f \in touched'[c]
    <3>1. profile'[f] = IF f \in fields THEN Target(c, f) ELSE profile[f]
      BY <1>1, <1>3 DEF Corrected
    <3> QED
      BY <1>3, <3>1 DEF Right
  <2> QED
    BY <1>1, <2>1 DEF Right
<1>4. ASSUME profile' = profile, touched'[c] = touched[c], NEW f, Right(c, f) PROVE Right(c, f)'
  BY <1>1, <1>4 DEF Right
<1>5. CASE ReadCustomer(c)
  <2> DEFINE drift == {f \in Targets(c) : profile[f] # Target(c, f)}
             next == [call[c] EXCEPT !.place = "updating", !.drift = drift]
  <2>1. /\ \/ Settle(c, "consistent") /\ (Targets(c) = {} \/ ~RootHeld \/ drift = {})
           \/ GoOn(c, next)
        /\ profile' = profile /\ touched'[c] = touched[c] /\ held' = held
    BY <1>5 DEF ReadCustomer, StoreUnchanged, store
  <2>2. \A f \in Targets(c) \ drift : Right(c, f)'
    BY <1>4, <2>1 DEF Right
  <2>3. next.verb = "rectify" /\ next.drift = drift /\ next.place = "updating"
    BY <1>0 DEF Calls
  <2> HIDE DEF drift, next
  <2>4. CASE Settle(c, "consistent") /\ (Targets(c) = {} \/ ~RootHeld \/ drift = {})
    BY <1>1, <1>2, <2>1, <2>2, <2>4 DEF RootHeld
  <2>5. CASE GoOn(c, next)
    <3>1. call'[c] = next /\ result'[c] = "none"
      BY <1>0, <2>5 DEF GoOn
    <3> QED
      BY <1>1, <2>2, <2>3, <3>1 DEF Rectified
  <2> QED
    BY <2>1, <2>4, <2>5
<1>6. CASE UpdateCustomer(c)
  <2>1. \E outcome : Settle(c, outcome)
    BY <1>6 DEF UpdateCustomer
  <2>2. call'[c].place # "updating" /\ call'[c].verb = "rectify"
    BY <1>2, <2>1
  <2>3. CASE RootHeld
    <3>1. profile' = Corrected(c, call[c].drift) /\ touched'[c] = touched[c]
      BY <1>0, <1>6, <2>3 DEF UpdateCustomer, WriteProfile
    <3>2. \A f \in Targets(c) \ call[c].drift : Right(c, f)
      BY <1>6 DEF UpdateCustomer, At, FieldsAreRight
    <3>3. AllRight
      BY <1>0, <1>3, <3>1, <3>2 DEF CallFits
    <3> QED
      BY <2>2, <3>3
  <2>4. CASE ~RootHeld
    <3>1. ~RootHeld'
      BY <1>6, <2>4 DEF UpdateCustomer, RootHeld
    <3> QED
      BY <2>2, <3>1
  <2> QED
    BY <2>3, <2>4
<1>7. CASE RectifyMemory(c)
  <2>1. \E outcome : Settle(c, outcome)
    BY <1>7 DEF RectifyMemory
  <2>2. call'[c].place # "updating" /\ call'[c].verb = "rectify"
    BY <1>2, <2>1
  <2>3. CASE RootHeld
    <3>1. profile' = Corrected(c, Targets(c)) /\ touched'[c] = touched[c]
      BY <1>0, <1>7, <2>3 DEF RectifyMemory, WriteProfile
    <3>2. AllRight
      BY <1>3, <3>1
    <3> QED
      BY <2>2, <3>2
  <2>4. CASE ~RootHeld
    <3>1. ~RootHeld'
      BY <1>7, <2>4 DEF RectifyMemory, RootHeld
    <3> QED
      BY <2>2, <3>1
  <2> QED
    BY <2>3, <2>4
<1> QED
  BY <1>5, <1>6, <1>7

LEMMA FieldsStep ==
    ASSUME Base, Waiting, FieldsAreRight, [Next]_vars
    PROVE  FieldsAreRight'
<1>0. system' = system /\ \A c \in Callers : Targets(c)' = Targets(c)
  BY RecordStep, TargetStays
<1>1. ASSUME NEW c \in Callers
      PROVE  /\ result'[c] \in Rectified =>
                  /\ call'[c].verb = "rectify"
                  /\ RootHeld' => \A f \in Targets(c)' : Right(c, f)'
             /\ call'[c].place = "updating" =>
                  /\ call'[c].verb = "rectify"
                  /\ \A f \in Targets(c)' \ call'[c].drift : Right(c, f)'
  <2>1. CASE ReadCustomer(c) \/ UpdateCustomer(c) \/ RectifyMemory(c)
    BY <1>1, <2>1, RectificationStep
  <2>2. CASE CallStep(c) /\ ~ReadCustomer(c) /\ ~UpdateCustomer(c) /\ ~RectifyMemory(c)
    BY <2>2, OnlyRectifications
  <2>3. CASE Begin(c) \/ CallAgain(c)
    <3>1. PICK verb \in Verbs, ref \in Refs : Start(c, verb, ref)
      BY <2>3, StartForm DEF Base, Starts
    <3>2. call'[c].place = "starting" /\ result'[c] = "none"
      BY <3>1, Started DEF Base
    <3> QED
      BY <3>2 DEF Rectified
  <2>4. CASE \/ Environment
             \/ UNCHANGED vars
             \/ \E d \in Callers \ {c} : Begin(d) \/ CallAgain(d) \/ CallStep(d)
    <3>1. call'[c] = call[c] /\ result'[c] = result[c]
      BY <2>4, CallFrame, EnvironmentFrame DEF SameCall, Base
    <3>2. ASSUME call[c].verb = "rectify", NEW f \in Targets(c), Right(c, f) PROVE Right(c, f)'
      BY <2>4, <3>2, RightStays
    <3>3. ASSUME call[c].verb = "rectify", RootHeld' PROVE RootHeld
      BY <3>3, RootStaysGone DEF Base, CallsFit, CallFits
    <3>4. ASSUME result'[c] \in Rectified
          PROVE  /\ call'[c].verb = "rectify"
                 /\ RootHeld' => \A f \in Targets(c)' : Right(c, f)'
      BY <1>0, <3>1, <3>2, <3>3, <3>4 DEF FieldsAreRight
    <3>5. ASSUME call'[c].place = "updating"
          PROVE  /\ call'[c].verb = "rectify"
                 /\ \A f \in Targets(c)' \ call'[c].drift : Right(c, f)'
      BY <1>0, <3>1, <3>2, <3>5 DEF FieldsAreRight
    <3> QED
      BY <3>4, <3>5
  <2> QED
    BY <2>1, <2>2, <2>3, <2>4 DEF Next
<1> QED
  BY <1>1 DEF FieldsAreRight

\* A rectification that reports success has left every field it maps corrected, except those
\* that someone else changed after the call began.
THEOREM CorrectionsHold == Spec => []RectificationsHold
<1> DEFINE Inv == Waiting /\ FieldsAreRight
<1>1. Init => Inv
  BY DEF Init, Waiting, FieldsAreRight, NoCall, Rectified
<1>2. Base /\ Inv /\ [Next]_vars => Inv'
  BY WaitingStep, FieldsStep
<1>3. Inv => RectificationsHold
  BY DEF FieldsAreRight, RectificationsHold, Rectified, Right
<1> QED
  BY <1>1, <1>2, <1>3, BaseHolds, PTL DEF Spec

-----------------------------------------------------------------------------
(* What an export has seen.                                                 *)

\* After a page there is nothing left, or what is left comes later than the page.
LEMMA PageSplits ==
    ASSUME NEW E \in SUBSET Entries, NEW n \in Nat \ {0}, NEW e \in E, e \notin Earliest(E, n)
    PROVE  /\ Earliest(E, n) # {} /\ Earliest(E, n) # E
           /\ LastRank(Earliest(E, n)) \in Nat /\ Rank(e) > LastRank(Earliest(E, n))
<1> DEFINE page == Earliest(E, n)
<1>1. page \in SUBSET E /\ page \in SUBSET Entries
  BY DEF Earliest
<1>2. page # {}
  BY EarliestIsNonempty
<1>3. PICK p \in page : Rank(p) = LastRank(page) /\ LastRank(page) \in Nat
  BY <1>1, <1>2, LastRankIs
<1>4. ~(Rank(e) <= Rank(p))
  BY <1>3, EarliestIsPrefix
<1>5. Rank(e) \in Nat
  BY RankNat
<1> QED
  BY <1>2, <1>3, <1>4, <1>5

\* What is ahead of a call whose record is r.
Ahead(r) ==
    {e \in Entries :
        /\ system \in Storages /\ r.place # "fetching" => Rank(e) > r.marker
        /\ system \in Storages /\ r.place = "fetching" => e \in r.todo \/ (r.more /\ Rank(e) > r.marker)
        /\ r.place = "parts" => e[1] # Root /\ Rank(e) > r.marker
        /\ system = "supabase_postgrest" => e[1] > r.marker}

SteadyIsExposed == \A c \in Callers : steady[c] \subseteq Exposed

\* Whatever was there all along has been read or is ahead.
Exporting(c) ==
    /\ call[c].verb = "export" /\ call[c].place # "idle" => steady[c] \subseteq call[c].got \cup Ahead(call[c])
    /\ result[c] = "exported" => steady[c] \subseteq call[c].got

LEMMA SteadyStep ==
    ASSUME Base, SteadyIsExposed, [Next]_vars
    PROVE  /\ SteadyIsExposed'
           /\ \A c \in Callers : ~Begin(c) /\ ~CallAgain(c) => steady'[c] \subseteq steady[c]
<1>0. steady \in [Callers -> SUBSET Entries] /\ system' = system
  BY RecordStep DEF Base, Typed, TypeOK
<1> DEFINE Good == /\ \A c \in Callers : steady'[c] \subseteq Exposed'
                   /\ \A c \in Callers : ~Begin(c) /\ ~CallAgain(c) => steady'[c] \subseteq steady[c]
<1> SUFFICES Good
  BY DEF SteadyIsExposed
<1>1. ASSUME NEW H, NEW M, Holds(H, M) PROVE Good
  BY <1>0, <1>1 DEF Holds
<1>2. CASE held' = held /\ markers' = markers /\ steady' = steady
  BY <1>0, <1>2 DEF Exposed, Current, Subjects, RootHeld, SteadyIsExposed
<1>3. ASSUME NEW c \in Callers, CallStep(c) PROVE Good
  <2>1. CASE Keeps
    BY <1>2, <2>1 DEF Keeps, StoreUnchanged, store
  <2>2. CASE Removes(c)
    BY <1>1, <2>2 DEF Removes, Remove
  <2>3. CASE Rewrites(c)
    BY <1>2, <2>3 DEF Rewrites, UpdateCustomer, RectifyMemory
  <2> QED
    BY <1>3, <2>1, <2>2, <2>3, CallForm
<1>4. ASSUME NEW c \in Callers, Begin(c) \/ CallAgain(c) PROVE Good
  <2>1. PICK verb \in Verbs, ref \in Refs : Start(c, verb, ref)
    BY <1>4, StartForm DEF Base, Starts
  <2>2. held' = held /\ markers' = markers
    BY <2>1 DEF Start, store
  <2>3. Exposed' = Exposed
    BY <1>0, <2>2 DEF Exposed, Current, Subjects, RootHeld
  <2>4. PICK new \in {Exposed, {}} : steady' = [steady EXCEPT ![c] = new]
    BY <2>1 DEF Start
  <2>5. \A d \in Callers : steady'[d] \subseteq Exposed'
    BY <1>0, <2>3, <2>4 DEF SteadyIsExposed
  <2>6. \A d \in Callers : d # c => steady'[d] = steady[d]
    BY <1>0, <2>4
  <2> QED
    BY <1>4, <2>5, <2>6
<1>5. ASSUME NEW s \in OwnSlots, Write(s) \/ Discard(s) PROVE Good
  BY <1>1, <1>5 DEF Write, Discard
<1>6. CASE UNCHANGED vars
  BY <1>2, <1>6 DEF vars
<1> QED
  BY <1>3, <1>4, <1>5, <1>6 DEF Next, Environment

\* Ways on and out of an export.
LEMMA ExportGoesOn ==
    ASSUME Base, Waiting, NEW c \in Callers, CallStep(c), NEW next, GoOn(c, next), Keeps,
           steady[c] \subseteq next.got \cup Ahead(next)
    PROVE  Exporting(c)'
<1>1. call \in [Callers -> Calls] /\ result[c] = "none"
  BY CallIsUnderWay DEF Base, Typed, TypeOK, Waiting
<1>2. call'[c] = next /\ result'[c] = "none" /\ system' = system /\ steady' = steady
  BY <1>1 DEF GoOn, Keeps, StoreUnchanged
<1>3. Ahead(call[c])' = Ahead(next)
  BY <1>2 DEF Ahead
<1> QED
  BY <1>2, <1>3 DEF Exporting

LEMMA ExportReturns ==
    ASSUME Base, Waiting, NEW c \in Callers, CallStep(c), NEW outcome, NEW got, Return(c, outcome, got),
           outcome = "exported" => Keeps /\ steady[c] \subseteq got
    PROVE  Exporting(c)'
<1>1. call \in [Callers -> Calls] /\ result \in [Callers -> Results]
  BY DEF Base, Typed, TypeOK
<1>2. call'[c].place = "idle" /\ call'[c].got = got /\ result'[c] = outcome
  BY <1>1 DEF Return, NoCall
<1>3. outcome = "exported" => steady' = steady
  BY DEF Keeps, StoreUnchanged
<1> QED
  BY <1>2, <1>3 DEF Exporting

LEMMA ExportFails ==
    ASSUME Base, Waiting, NEW c \in Callers, CallStep(c), NEW outcome, Settle(c, outcome),
           outcome = "exported" => Keeps /\ steady[c] = {}
    PROVE  Exporting(c)'
<1>1. PICK got : got = {}
  OBVIOUS
<1>2. Return(c, outcome, got)
  BY <1>1 DEF Settle
<1> QED
  BY <1>1, <1>2, ExportReturns

LEMMA OtherCallGoesOn ==
    ASSUME Base, Waiting, NEW c \in Callers, CallStep(c), NEW next, GoOn(c, next), next.verb # "export"
    PROVE  Exporting(c)'
<1>1. call \in [Callers -> Calls] /\ result[c] = "none"
  BY CallIsUnderWay DEF Base, Typed, TypeOK, Waiting
<1>2. call'[c] = next /\ result'[c] = "none"
  BY <1>1 DEF GoOn
<1> QED
  BY <1>2 DEF Exporting

\* A page of the current objects, with what was there all along in it or behind it.
LEMMA ExportPage ==
    ASSUME Base, Waiting, SteadyIsExposed, NEW c \in Callers, Exporting(c), iter_current_objects(c)
    PROVE  Exporting(c)'
<1> DEFINE E == Under(Current, c)
           later == {e \in E : Rank(e) > call[c].marker}
           page == Earliest(later, PageSize)
           next == [call[c] EXCEPT !.found = IF call[c].verb = "erase" THEN @ \cup page ELSE {},
                                   !.todo = page, !.more = page # later,
                                   !.marker = IF page = {} THEN @ ELSE LastRank(page)]
           on == [next EXCEPT !.place = "fetching"]
<1>0. /\ call[c] \in Calls /\ call[c].verb = "export" /\ call[c].place \in {"starting", "listing"}
      /\ call[c].ref = "own/" /\ system \in Storages /\ CallStep(c) /\ Keeps /\ held \subseteq Entries
  BY DEF Base, Typed, TypeOK, iter_current_objects, Listing, checked_prefix, CallsFit, CallFits, CallStep,
     S3Step, Keeps
<1>1. steady[c] \subseteq call[c].got \cup {e \in Entries : Rank(e) > call[c].marker}
  BY <1>0 DEF Exporting, Ahead
<1>2. steady[c] \subseteq E
  BY <1>0 DEF SteadyIsExposed, Exposed, Subjects, Under, Matched
<1>3. later \in SUBSET Entries
  BY <1>0 DEF Under, Current
<1>4. steady[c] \ call[c].got \subseteq later
  BY <1>1, <1>2
<1>5. IF page = {} THEN Return(c, "exported", call[c].got) ELSE GoOn(c, on)
  <2>1. Listed(c, E) = next
    BY DEF Listed
  <2>2. next.todo = page
    BY <1>0 DEF Calls
  <2>3. IF Listed(c, E).todo = {} THEN Return(c, "exported", call[c].got)
        ELSE GoOn(c, [Listed(c, E) EXCEPT !.place = "fetching"])
    BY DEF iter_current_objects
  <2> HIDE DEF next
  <2> QED
    BY <2>1, <2>2, <2>3
<1>6. /\ on.got = call[c].got /\ on.place = "fetching" /\ on.todo = page /\ (page # later => on.more)
      /\ page # {} => on.marker = LastRank(page)
  BY <1>0 DEF Calls
<1> HIDE DEF E, on, next
<1>7. CASE page = {}
  <2>1. later = {}
    BY <1>3, <1>7, EarliestIsNonempty, VendorAssumption
  <2> QED
    BY <1>0, <1>4, <1>5, <1>7, <2>1, ExportReturns
<1>8. CASE page # {}
  <2>1. ASSUME NEW e \in later, e \notin page
        PROVE  page # later /\ Rank(e) > LastRank(page) /\ e \in Entries
    BY <1>3, <2>1, PageSplits, VendorAssumption
  <2> HIDE DEF page, later
  <2>2. ASSUME NEW e \in steady[c], e \notin on.got PROVE e \in Ahead(on)
    <3>1. e \in later
      BY <1>4, <1>6, <2>2
    <3>2. e \in Entries
      BY <1>3, <3>1
    <3>3. e \in page \/ (page # later /\ Rank(e) > LastRank(page))
      <4>1. CASE e \in page
        BY <4>1
      <4>2. CASE e \notin page
        BY <2>1, <3>1, <4>2
      <4> QED
        BY <4>1, <4>2
    <3>4. e \in on.todo \/ (on.more /\ Rank(e) > on.marker)
      BY <1>6, <1>8, <3>3
    <3>5. system # "supabase_postgrest"
      BY <1>0 DEF Storages
    <3> QED
      BY <1>6, <3>2, <3>4, <3>5 DEF Ahead
  <2> QED
    BY <1>0, <1>5, <1>8, <2>2, ExportGoesOn
<1> QED
  BY <1>7, <1>8

LEMMA ExportObject ==
    ASSUME Base, Waiting, SteadyIsExposed, NEW c \in Callers, Exporting(c), collect_object_records(c)
    PROVE  Exporting(c)'
<1> DEFINE entry == CHOOSE e \in Earliest(call[c].todo, 1) : TRUE
           left == call[c].todo \ {entry}
           got == call[c].got \cup {f \in Current : f[1] = entry[1]}
           more == [call[c] EXCEPT !.todo = left, !.got = got]
           on == [call[c] EXCEPT !.todo = {}, !.got = got, !.place = "listing"]
<1>0. /\ call[c] \in Calls /\ call[c].verb = "export" /\ call[c].place = "fetching"
      /\ system \in Storages /\ CallStep(c) /\ Keeps /\ held \subseteq Entries
      /\ system # "supabase_postgrest"
  BY DEF Base, Typed, TypeOK, collect_object_records, At, CallStep, S3Step, Keeps, Storages
<1>1. \/ Settle(c, "rejected")
      \/ left # {} /\ GoOn(c, more)
      \/ left = {} /\ call[c].more /\ GoOn(c, on)
      \/ left = {} /\ ~call[c].more /\ Return(c, "exported", got)
  BY DEF collect_object_records
<1>2. /\ more.place = "fetching" /\ more.todo = left /\ more.got = got /\ more.more = call[c].more
      /\ more.marker = call[c].marker
      /\ on.place = "listing" /\ on.got = got /\ on.marker = call[c].marker
  BY <1>0 DEF Calls
<1>3. ASSUME NEW e \in steady[c], e \notin got
      PROVE  e \in Entries /\ (e \in left \/ (call[c].more /\ Rank(e) > call[c].marker))
  <2>1. e \in Ahead(call[c])
    BY <1>0, <1>3 DEF Exporting
  <2>2. e \in Current
    BY <1>3 DEF SteadyIsExposed, Exposed, Subjects
  <2>3. e # entry
    BY <1>3, <2>2
  <2> QED
    BY <1>0, <2>1, <2>3 DEF Ahead
<1> HIDE DEF left, got, more, on
<1>4. steady[c] \subseteq more.got \cup Ahead(more)
  BY <1>0, <1>2, <1>3 DEF Ahead
<1>5. left = {} => steady[c] \subseteq on.got \cup Ahead(on)
  BY <1>0, <1>2, <1>3 DEF Ahead
<1>6. left = {} /\ ~call[c].more => steady[c] \subseteq got
  BY <1>3
<1> QED
  BY <1>0, <1>1, <1>4, <1>5, <1>6, ExportGoesOn, ExportReturns, ExportFails

\* The parts of a contact or customer, page by page.
LEMMA ExportParts ==
    ASSUME Base, Waiting, SteadyIsExposed, NEW c \in Callers, Exporting(c), CallStep(c), Keeps,
           system \in {"stripe", "intercom"}, At(c, "export", "parts"), Paged(c)
    PROVE  Exporting(c)'
<1> DEFINE later == {e \in Subjects(held) : e[1] # Root /\ Rank(e) > call[c].marker}
           page == NextParts(c)
           got == call[c].got \cup page
           on == [call[c] EXCEPT !.got = got, !.marker = LastRank(page)]
<1>0. call[c] \in Calls /\ call[c].place = "parts" /\ call[c].verb = "export" /\ held \subseteq Entries
  BY DEF Base, Typed, TypeOK, At
<1>1. /\ later \in SUBSET Entries /\ page = Earliest(later, PageSize) /\ PageSize \in Nat \ {0}
      /\ page \subseteq later
  BY <1>0, VendorAssumption DEF Subjects, NextParts, Earliest
<1>2. \/ later \ page = {} /\ Return(c, "exported", got)
      \/ later \ page # {} /\ GoOn(c, on)
  BY DEF Paged
<1>3. on.got = got /\ on.place = "parts" /\ on.marker = LastRank(page)
  BY <1>0 DEF Calls
<1>4. ASSUME NEW e \in steady[c], e \notin call[c].got PROVE e \in later /\ e \in Entries
  <2>1. e \in Subjects(held)
    BY <1>4 DEF SteadyIsExposed, Exposed, Subjects, Current
  <2>2. e[1] # Root /\ Rank(e) > call[c].marker
    BY <1>0, <1>4 DEF Exporting, Ahead
  <2> QED
    BY <1>1, <2>1, <2>2
<1>5. ASSUME NEW e \in later, e \notin page
      PROVE  e[1] # Root /\ Rank(e) > LastRank(page) /\ e \in Entries
  <2>1. e[1] # Root
    OBVIOUS
  <2> HIDE DEF later, page
  <2>2. Rank(e) > LastRank(page) /\ e \in Entries
    BY <1>1, <1>5, PageSplits
  <2> QED
    BY <2>1, <2>2
<1> HIDE DEF later, page, on
<1>6. later \ page = {} => steady[c] \subseteq got
  BY <1>4
<1>7. steady[c] \subseteq on.got \cup Ahead(on)
  <2>1. ASSUME NEW e \in steady[c], e \notin got PROVE e \in Ahead(on)
    <3>1. e \in later /\ e \notin page
      BY <1>4, <2>1
    <3>2. e[1] # Root /\ Rank(e) > on.marker /\ e \in Entries
      BY <1>3, <1>5, <3>1
    <3>3. system \notin Storages /\ system # "supabase_postgrest"
      BY DEF Storages
    <3> QED
      BY <1>3, <3>2, <3>3 DEF Ahead
  <2> HIDE DEF got
  <2> QED
    BY <1>3, <2>1
<1> HIDE DEF got
<1> QED
  BY <1>2, <1>6, <1>7, ExportGoesOn, ExportReturns

\* The contact or customer itself, which comes before its parts.
LEMMA ExportRoot ==
    ASSUME Base, Waiting, SteadyIsExposed, NEW c \in Callers, Exporting(c),
           CollectCustomer(c) \/ GetContact(c)
    PROVE  Exporting(c)'
<1> DEFINE on == [call[c] EXCEPT !.place = "parts", !.marker = Rank(<<Root, 1>>),
                                 !.got = {e \in held : e[1] = Root}]
<1>0. /\ call[c] \in Calls /\ CallStep(c) /\ Keeps /\ system \in {"stripe", "intercom"}
      /\ held \subseteq Entries
  BY DEF Base, Typed, TypeOK, CollectCustomer, GetContact, CallStep, ContactStep, Keeps
<1>1. IF RootHeld THEN GoOn(c, on) ELSE Settle(c, "exported")
  BY DEF CollectCustomer, GetContact
<1>2. on.got = {e \in held : e[1] = Root} /\ on.place = "parts" /\ on.marker = Rank(<<Root, 1>>)
  BY <1>0 DEF Calls
<1> HIDE DEF on
<1>3. ASSUME NEW e \in steady[c] PROVE e \in held /\ RootHeld
  BY <1>0, <1>3 DEF SteadyIsExposed, Exposed, Subjects, Current
<1>4. CASE RootHeld
  <2>1. ASSUME NEW e \in steady[c], e \notin on.got PROVE e \in Ahead(on)
    <3>1. e \in Entries /\ e[1] # Root
      BY <1>0, <1>2, <1>3, <2>1
    <3>2. <<Root, 1>> \in Entries /\ <<Root, 1>>[1] = Root
      BY VendorAssumption DEF Entries
    <3>3. Root < e[1]
      BY <3>1, RankNat DEF Root
    <3>4. Rank(<<Root, 1>>) < Rank(e)
      BY <3>1, <3>2, <3>3, RankBySlot
    <3>5. Rank(<<Root, 1>>) \in Nat /\ Rank(e) \in Nat
      BY <3>1, <3>2, RankNat
    <3>6. system \notin Storages /\ system # "supabase_postgrest"
      BY <1>0 DEF Storages
    <3> QED
      BY <1>2, <3>1, <3>4, <3>5, <3>6 DEF Ahead
  <2> QED
    BY <1>0, <1>1, <1>4, <2>1, ExportGoesOn
<1>5. CASE ~RootHeld
  BY <1>0, <1>1, <1>3, <1>5, ExportFails
<1> QED
  BY <1>4, <1>5

LEMMA ExportTable ==
    ASSUME Base, Waiting, SteadyIsExposed, NEW c \in Callers, Exporting(c), SelectTable(c)
    PROVE  Exporting(c)'
<1> DEFINE got == call[c].got \cup RowsOf(held, Table(c))
           on == [call[c] EXCEPT !.marker = Table(c), !.got = got]
<1>0. /\ call[c] \in Calls /\ call[c].verb = "export" /\ call[c].place = "starting"
      /\ CallStep(c) /\ Keeps /\ system = "supabase_postgrest" /\ held \subseteq Entries
      /\ CallFits(c, call[c])
  BY DEF Base, Typed, TypeOK, CallsFit, SelectTable, CallStep, SupabaseStep, Keeps
<1>1. IF LastTable(c) THEN Return(c, "exported", got) ELSE GoOn(c, on)
  BY DEF SelectTable
<1>2. on.got = got /\ on.place = "starting" /\ on.marker = Table(c)
  BY <1>0 DEF Calls
<1>3. /\ Table(c) \in OwnSlots /\ Table(c) \in Nat
      /\ \A r \in OwnSlots : r > call[c].marker => Table(c) <= r
  BY <1>0, TableIs DEF CallFits, Calls
<1>4. ASSUME NEW e \in steady[c], e \notin got
      PROVE  e \in Entries /\ e[1] > Table(c) /\ ~LastTable(c)
  <2>1. e \in held /\ e[1] \in OwnSlots /\ e \in Entries
    BY <1>0, <1>4 DEF SteadyIsExposed, Exposed, Subjects, Current
  <2>2. e[1] > call[c].marker
    BY <1>0, <1>4 DEF Exporting, Ahead
  <2>3. e[1] # Table(c)
    BY <1>4, <2>1 DEF RowsOf
  <2>4. Table(c) <= e[1] /\ e[1] \in Nat
    BY <1>3, <2>1, <2>2, RankNat
  <2> QED
    BY <1>3, <2>1, <2>3, <2>4 DEF LastTable
<1> HIDE DEF got, on
<1>5. LastTable(c) => steady[c] \subseteq got
  BY <1>4
<1>6. steady[c] \subseteq on.got \cup Ahead(on)
  BY <1>0, <1>2, <1>4 DEF Ahead, Storages
<1> QED
  BY <1>0, <1>1, <1>5, <1>6, ExportGoesOn, ExportReturns

\* The systems that answer for the contact alone.
LEMMA ExportContact ==
    ASSUME Base, Waiting, SteadyIsExposed, NEW c \in Callers, CallStep(c),
           ExportUser(c) \/ ExportResend(c) \/ ExportMemory(c)
    PROVE  Exporting(c)'
<1> DEFINE got == {e \in held : e[1] = Root}
<1>1. Return(c, "exported", got) /\ Keeps /\ system \in {"resend", "supabase_auth", "memory"}
  BY DEF ExportUser, ExportResend, ExportMemory, RowsOf, Keeps
<1>2. steady[c] \subseteq got
  BY <1>1 DEF SteadyIsExposed, Exposed, Subjects, Current
<1> HIDE DEF got
<1> QED
  BY <1>1, <1>2, ExportReturns

LEMMA ExportCall ==
    ASSUME Base, Waiting, SteadyIsExposed, NEW c \in Callers, Exporting(c), CallStep(c)
    PROVE  Exporting(c)'
<1>0. call[c] \in Calls
  BY DEF Base, Typed
<1>1. ASSUME NEW outcome, Settle(c, outcome), outcome # "exported" PROVE Exporting(c)'
  BY <1>1, ExportFails
<1>2. ASSUME NEW next, GoOn(c, next), next.verb # "export" PROVE Exporting(c)'
  BY <1>2, OtherCallGoesOn
<1>3. ASSUME NEW outcome \in Failures, Refused(c, outcome) PROVE Exporting(c)'
  BY <1>1, <1>3 DEF Refused, Failures
<1>4. ASSUME NEW E, ListForErasure(c, E) PROVE Exporting(c)'
  <2> DEFINE next == Listed(c, E)
             more == [next EXCEPT !.place = "listing"]
             on == [next EXCEPT !.place = "deleting", !.todo = next.found]
  <2>1. GoOn(c, more) \/ GoOn(c, on) \/ Settle(c, "absent")
    BY <1>4 DEF ListForErasure
  <2>2. more.verb = call[c].verb /\ on.verb = call[c].verb /\ call[c].verb = "erase"
    BY <1>0, <1>4 DEF Listed, Calls, ListForErasure
  <2> HIDE DEF more, on
  <2> QED
    BY <1>1, <1>2, <2>1, <2>2
<1>5. CASE DeleteBatch(c)
  <2>1. \/ \E next : next.verb = call[c].verb /\ GoOn(c, next)
        \/ \E codes : Settle(c, ErasureOutcome(codes))
        \/ Settle(c, "retry")
    BY <1>0, <1>5 DEF DeleteBatch, AnsweredBatch, LostBatch, Calls
  <2> QED
    BY <1>1, <1>2, <1>5, <2>1 DEF DeleteBatch, At, ErasureOutcome
<1>6. CASE S3Step(c)
  <2>1. CASE RefuseThePrefix(c)
    BY <1>1, <2>1 DEF RefuseThePrefix
  <2>2. CASE StorageRequestFails(c)
    BY <1>3, <2>2 DEF StorageRequestFails, Failures
  <2> QED
    BY <1>4, <1>5, <1>6, <2>1, <2>2, ExportPage, ExportObject
       DEF S3Step, collect_version_identifiers, delete_in_batches
<1>7. CASE SupabaseStep(c)
  <2>1. CASE DeleteRows(c)
    <3>1. \/ \E next : next.verb = "erase" /\ GoOn(c, next)
          \/ \E outcome \in {"absent", "erased", "retry"} : Settle(c, outcome)
      BY <1>0, <2>1 DEF DeleteRows, Calls
    <3> QED
      BY <1>1, <1>2, <3>1
  <2>2. CASE DeleteUser(c)
    BY <1>1, <2>2 DEF DeleteUser
  <2>3. CASE SupabaseRequestFails(c)
    BY <1>3, <2>3 DEF SupabaseRequestFails, SupabaseOutcome, Failures
  <2> QED
    BY <1>4, <1>5, <1>7, <2>1, <2>2, <2>3, ExportTable, ExportContact DEF SupabaseStep, DeleteCurrent
<1>8. CASE ContactStep(c)
  <2>1. CASE PagePaymentMethods(c)
    <3>1. Keeps /\ system = "stripe" /\ At(c, "export", "parts") /\ CallStep(c)
      BY <2>1 DEF PagePaymentMethods, Keeps
    <3>2. RootHeld => Exporting(c)'
      BY <2>1, <3>1, ExportParts DEF PagePaymentMethods
    <3>3. ~RootHeld => steady[c] = {}
      BY <3>1 DEF SteadyIsExposed, Exposed
    <3> QED
      BY <2>1, <3>1, <3>2, <3>3, ExportFails DEF PagePaymentMethods
  <2>2. CASE SearchConversations(c)
    BY <2>2, ExportParts DEF SearchConversations, Keeps
  <2>3. CASE DeleteCustomer(c) \/ DeleteContact(c) \/ EraseResend(c) \/ EraseMemory(c)
    BY <1>1, <2>3 DEF DeleteCustomer, DeleteContact, EraseResend, EraseMemory
  <2>4. CASE ReadCustomer(c)
    <3> DEFINE drift == {f \in Targets(c) : profile[f] # Target(c, f)}
               next == [call[c] EXCEPT !.place = "updating", !.drift = drift]
    <3>1. Settle(c, "consistent") \/ GoOn(c, next)
      BY <2>4 DEF ReadCustomer
    <3>2. next.verb = "rectify"
      BY <1>0, <2>4 DEF ReadCustomer, At, Calls
    <3> HIDE DEF next
    <3> QED
      BY <1>1, <1>2, <3>1, <3>2
  <2>5. CASE UpdateCustomer(c) \/ RectifyMemory(c)
    BY <1>1, <2>5 DEF UpdateCustomer, RectifyMemory
  <2>6. CASE StripeRequestFails(c) \/ ResendRequestFails(c) \/ IntercomRequestFails(c)
    BY <1>3, <2>6 DEF StripeRequestFails, ResendRequestFails, IntercomRequestFails, StripeOutcome,
       ResendOutcome, IntercomOutcome, Failures
  <2> QED
    BY <1>8, <2>1, <2>2, <2>3, <2>4, <2>5, <2>6, ExportRoot, ExportContact DEF ContactStep
<1> QED
  BY <1>6, <1>7, <1>8 DEF CallStep

LEMMA ExportStep ==
    ASSUME Base, Waiting, SteadyIsExposed, NEW c \in Callers, Exporting(c), [Next]_vars
    PROVE  Exporting(c)'
<1>0. system' = system
  BY RecordStep
<1>1. CASE CallStep(c)
  BY <1>1, ExportCall
<1>2. CASE Begin(c) \/ CallAgain(c)
  <2>1. PICK verb \in Verbs, ref \in Refs : Start(c, verb, ref)
    BY <1>2, StartForm DEF Base, Starts
  <2>2. /\ call'[c].place = "starting" /\ call'[c].marker = 0 /\ call'[c] \in Calls /\ result'[c] = "none"
        /\ call'[c].got = {}
    BY <2>1, Started DEF Base
  <2>3. steady' \in [Callers -> SUBSET Entries]
    BY MemoryStep DEF MemoryFits
  <2>4. ASSUME NEW e \in Entries
        PROVE  Rank(e) > call'[c].marker /\ e[1] > call'[c].marker
    BY <2>2, RankNat
  <2>5. Entries \subseteq Ahead(call[c])'
    BY <1>0, <2>2, <2>4 DEF Ahead
  <2> QED
    BY <2>2, <2>3, <2>5 DEF Exporting
<1>3. CASE \/ Environment
           \/ UNCHANGED vars
           \/ \E d \in Callers \ {c} : Begin(d) \/ CallAgain(d) \/ CallStep(d)
  <2>1. call'[c] = call[c] /\ result'[c] = result[c]
    BY <1>3, CallFrame, EnvironmentFrame DEF SameCall, Base
  <2>2. ~Begin(c) /\ ~CallAgain(c) => steady'[c] \subseteq steady[c]
    BY SteadyStep
  <2>3. Ahead(call[c])' = Ahead(call[c])
    BY <1>0, <2>1 DEF Ahead
  <2>4. CASE ~Begin(c) /\ ~CallAgain(c)
    BY <2>1, <2>2, <2>3, <2>4 DEF Exporting
  <2> QED
    BY <1>2, <2>4
<1> QED
  BY <1>1, <1>2, <1>3 DEF Next

\* An export that returns has read every entry that was there from its start to its end,
\* on whatever page or in whatever table it was, and nothing of a sibling's.
THEOREM ExportsTellAll == Spec => []ExportsAreWhole
<1> DEFINE Inv == Waiting /\ SteadyIsExposed /\ \A c \in Callers : Exporting(c)
<1>1. Init => Inv
  BY DEF Init, Waiting, SteadyIsExposed, Exporting, NoCall
<1>2. Base /\ Inv /\ [Next]_vars => Inv'
  <2>1. ASSUME Base, Inv, [Next]_vars PROVE Waiting' /\ SteadyIsExposed'
    BY <2>1, WaitingStep, SteadyStep
  <2>2. ASSUME Base, Inv, [Next]_vars, NEW c \in Callers PROVE Exporting(c)'
    BY <2>2, ExportStep
  <2> QED
    BY <2>1, <2>2
<1>3. Base /\ Inv => ExportsAreWhole
  BY DEF ExportsAreWhole, Exporting, Base, CallsFit, CallFits, Own
<1> QED
  BY <1>1, <1>2, <1>3, BaseHolds, PTL DEF Spec

-----------------------------------------------------------------------------
(* What an erasure has removed.                                             *)

\* What the subject had when the attempt began and still has.
Surviving(c) == begun[c] \cap held

\* What an erasure whose record is r has still to remove.
Pending(r) ==
    {e \in Entries :
        /\ system \in Storages /\ r.place \in {"starting", "listing"} => e \in r.found \/ Rank(e) > r.marker
        /\ system \in Storages /\ r.place = "deleting" /\ r.codes = {} => e \in r.todo
        /\ system = "supabase_postgrest" => e[1] > r.marker}

\* What it can have removed.
Removable(r) ==
    IF system \in Storages /\ r.place = "deleting" THEN Entries
    ELSE IF system = "supabase_postgrest" THEN r.found ELSE {}

\* An entry written later has a version of its own.
BegunIsOld == \A c \in Callers : \A e \in begun[c] : e[1] \in OwnSlots /\ e[2] <= written[e[1]]

\* The customer goes with everything below it.
CustomerGoesWhole == system = "stripe" /\ ~RootHeld => Subjects(held) = {}

Gone(c) ==
    /\ result[c] \in {"erased", "absent"} =>
         \A e \in Surviving(c) : system \in Rooted \ {"stripe"} /\ e[1] # Root
    /\ result[c] = "absent" => took[c] = {}

Erasing(c) ==
    /\ call[c].verb = "erase" /\ call[c].place # "idle" =>
         /\ Surviving(c) \subseteq Pending(call[c])
         /\ took[c] \subseteq Removable(call[c])
    /\ Gone(c)

\* New entries have new versions.
LEMMA NewIsNewer ==
    ASSUME Base, [Next]_vars
    PROVE  /\ \A e \in held' : e \in held \/ e[2] > written[e[1]]
           /\ \A s \in Slots : written[s] <= written'[s]
<1>0. written \in [Slots -> 0..MaxVersion] /\ held \subseteq Entries /\ MaxVersion \in Nat
  BY VendorAssumption DEF Base, Typed, TypeOK
<1>1. ASSUME held' \subseteq held, written' = written
      PROVE  /\ \A e \in held' : e \in held \/ e[2] > written[e[1]]
             /\ \A s \in Slots : written[s] <= written'[s]
  BY <1>0, <1>1
<1>2. ASSUME NEW s \in Slots, written' = [written EXCEPT ![s] = @ + 1],
             held' \subseteq held \cup {<<s, written[s] + 1>>}
      PROVE  /\ \A e \in held' : e \in held \/ e[2] > written[e[1]]
             /\ \A r \in Slots : written[r] <= written'[r]
  <2>1. ASSUME NEW e \in held', e \notin held PROVE e[2] > written[e[1]]
    <3>1. e = <<s, written[s] + 1>>
      BY <1>2, <2>1
    <3>2. e[1] = s /\ e[2] = written[s] + 1
      BY <3>1
    <3> QED
      BY <1>0, <1>2, <3>2
  <2>2. ASSUME NEW r \in Slots PROVE written[r] <= written'[r]
    BY <1>0, <1>2
  <2> QED
    BY <2>1, <2>2
<1>3. ASSUME NEW c \in Callers, CallStep(c) PROVE held' \subseteq held /\ written' = written
  <2>1. CASE Keeps
    BY <2>1 DEF Keeps, StoreUnchanged, store
  <2>2. CASE Removes(c)
    BY <2>2 DEF Removes, Remove, Holds
  <2>3. CASE Rewrites(c)
    BY <2>3 DEF Rewrites, UpdateCustomer, RectifyMemory
  <2> QED
    BY <1>3, <2>1, <2>2, <2>3, CallForm
<1>4. ASSUME NEW c \in Callers, Begin(c) \/ CallAgain(c) PROVE held' \subseteq held /\ written' = written
  BY <1>4, StartForm DEF Base, Starts, Start, store
<1>5. ASSUME NEW s \in OwnSlots, Write(s)
      PROVE  s \in Slots /\ written' = [written EXCEPT ![s] = @ + 1] /\ held' \subseteq held \cup {<<s, written[s] + 1>>}
  BY <1>5, VendorAssumption DEF Write, Holds
<1>6. ASSUME NEW s \in OwnSlots, Discard(s), system = "s3"
      PROVE  s \in Slots /\ written' = [written EXCEPT ![s] = @ + 1] /\ held' \subseteq held \cup {<<s, written[s] + 1>>}
  BY <1>6, VendorAssumption DEF Discard, Holds
<1>7. ASSUME NEW s \in OwnSlots, Discard(s), system # "s3" PROVE held' \subseteq held /\ written' = written
  BY <1>7 DEF Discard, Holds
<1>8. CASE UNCHANGED vars
  BY <1>1, <1>8 DEF vars
<1> QED
  BY <1>1, <1>2, <1>3, <1>4, <1>5, <1>6, <1>7, <1>8 DEF Next, Environment

LEMMA BegunStep ==
    ASSUME Base, BegunIsOld, [Next]_vars
    PROVE  BegunIsOld' /\ \A c \in Callers : Begin(c) \/ CallAgain(c) \/ Surviving(c)' \subseteq Surviving(c)
<1>0. /\ written \in [Slots -> 0..MaxVersion] /\ written' \in [Slots -> 0..MaxVersion]
      /\ begun \in [Callers -> SUBSET Entries] /\ held \subseteq Entries /\ held' \subseteq Entries
      /\ \A e \in held : e[2] <= written[e[1]]
      /\ MaxVersion \in Nat
  BY StoreStep, VendorAssumption DEF Base, Typed, TypeOK, StoreFits
<1>1. /\ \A e \in held' : e \in held \/ e[2] > written[e[1]]
      /\ \A s \in Slots : written[s] <= written'[s]
  BY NewIsNewer
<1>2. \A e \in Entries : e[1] \in Slots /\ e[2] \in 1..MaxVersion
  BY DEF Entries
<1>3. ASSUME NEW e \in Entries, e[2] <= written[e[1]] PROVE e[2] <= written'[e[1]]
  <2>1. written[e[1]] \in 0..MaxVersion /\ written'[e[1]] \in 0..MaxVersion /\ written[e[1]] <= written'[e[1]]
        /\ e[2] \in 1..MaxVersion
    BY <1>0, <1>1, <1>2
  <2> QED
    BY <1>3, <2>1
<1>4. ASSUME NEW e \in Entries, e[2] <= written[e[1]], e \in held' PROVE e \in held
  <2>1. written[e[1]] \in 0..MaxVersion /\ e[2] \in 1..MaxVersion
    BY <1>0, <1>2
  <2>2. ~(e[2] > written[e[1]])
    BY <1>4, <2>1
  <2> QED
    BY <1>1, <1>4, <2>2
<1>5. ASSUME NEW c \in Callers, begun'[c] \subseteq begun[c]
      PROVE  /\ \A e \in begun'[c] : e[1] \in OwnSlots /\ e[2] <= written'[e[1]]
             /\ Surviving(c)' \subseteq Surviving(c)
  BY <1>0, <1>3, <1>4, <1>5 DEF BegunIsOld, Surviving
<1>6. ASSUME NEW c \in Callers, ~Begin(c), ~CallAgain(c) PROVE begun'[c] \subseteq begun[c]
  <2>1. CASE CallStep(c)
    <3>1. Moves(c)
      BY <2>1, CallForm
    <3>2. ASSUME NEW next, GoOn(c, next) PROVE begun'[c] \subseteq begun[c]
      BY <3>2 DEF GoOn
    <3>3. ASSUME NEW outcome, NEW exported, Return(c, outcome, exported) PROVE begun'[c] \subseteq begun[c]
      BY <1>0, <3>3 DEF Return
    <3> QED
      BY <3>1, <3>2, <3>3 DEF Moves
  <2>2. CASE \/ Environment
             \/ UNCHANGED vars
             \/ \E d \in Callers \ {c} : Begin(d) \/ CallAgain(d) \/ CallStep(d)
    BY <2>2, CallFrame, EnvironmentFrame DEF SameCall, Base
  <2> QED
    BY <1>6, <2>1, <2>2 DEF Next
<1>7. ASSUME NEW c \in Callers, Begin(c) \/ CallAgain(c)
      PROVE  \A e \in begun'[c] : e[1] \in OwnSlots /\ e[2] <= written'[e[1]]
  <2>1. PICK verb \in Verbs, ref \in Refs : Start(c, verb, ref)
    BY <1>7, StartForm DEF Base, Starts
  <2>2. begun'[c] \subseteq Subjects(held)
    BY <1>0, <2>1 DEF Start
  <2> QED
    BY <1>0, <1>3, <2>2 DEF Subjects
<1> QED
  BY <1>5, <1>6, <1>7 DEF BegunIsOld

LEMMA StripeRemoves ==
    ASSUME NEW c \in Callers, CallStep(c), system = "stripe"
    PROVE  held' = held \/ held' = held \ Subjects(held)
<1>1. ~S3Step(c) /\ ~SupabaseStep(c)
  BY DEF S3Step, RefuseThePrefix, collect_version_identifiers, delete_in_batches, iter_current_objects,
     collect_object_records, StorageRequestFails, Storages, SupabaseStep, DeleteCurrent, SelectTable,
     DeleteRows, ExportUser, DeleteUser, SupabaseRequestFails
<1>2. CASE CollectCustomer(c) \/ PagePaymentMethods(c) \/ ReadCustomer(c) \/ StripeRequestFails(c)
  BY <1>2 DEF CollectCustomer, PagePaymentMethods, ReadCustomer, StripeRequestFails, Refused,
     StoreUnchanged, store
<1>3. CASE UpdateCustomer(c)
  BY <1>3 DEF UpdateCustomer
<1>4. CASE DeleteCustomer(c)
  <2>1. With(Root) = Subjects(held)
    BY DEF With
  <2> QED
    BY <1>4, <2>1 DEF DeleteCustomer, Remove, Holds
<1> QED
  BY <1>1, <1>2, <1>3, <1>4 DEF CallStep, ContactStep, GetContact, SearchConversations, DeleteContact,
     ExportResend, EraseResend, ResendRequestFails, IntercomRequestFails, ExportMemory, EraseMemory,
     RectifyMemory

LEMMA CustomerStep ==
    ASSUME Base, CustomerGoesWhole, [Next]_vars
    PROVE  CustomerGoesWhole'
<1> SUFFICES ASSUME system = "stripe", ~RootHeld' PROVE Subjects(held)' = {}
  <2>1. system' = system
    BY RecordStep
  <2> QED
    BY <2>1 DEF CustomerGoesWhole
<1>0. \A E : Subjects(E) = {e \in E : e[1] \in OwnSlots}
  BY DEF Subjects
<1>1. CASE held' = held
  BY <1>1 DEF CustomerGoesWhole, RootHeld, Subjects
<1>2. CASE held' = held \ Subjects(held)
  BY <1>2 DEF Subjects
<1>3. ASSUME NEW c \in Callers, Begin(c) \/ CallAgain(c) PROVE held' = held
  BY <1>3, StartForm DEF Base, Starts, Start, store
<1>4. ASSUME NEW s \in OwnSlots, Write(s) PROVE FALSE
  <2>1. PICK e \in held : e[1] = Root
    BY <1>4 DEF Write, RootHeld
  <2>2. held' = (held \ {f \in held : f[1] = s}) \cup {<<s, written[s] + 1>>}
    BY <1>4 DEF Write, Holds
  <2>3. <<s, written[s] + 1>>[1] = s
    OBVIOUS
  <2> QED
    BY <2>1, <2>2, <2>3 DEF RootHeld
<1>5. ASSUME NEW s \in OwnSlots, Discard(s) PROVE Subjects(held)' = {}
  <2>1. held' = held \ With(s)
    BY <1>5 DEF Discard, Holds
  <2>2. CASE s = Root
    BY <2>1, <2>2 DEF With, Subjects
  <2>3. CASE s # Root
    <3>1. held' = held \ {e \in held : e[1] = s}
      BY <2>1, <2>3 DEF With
    <3>2. ~RootHeld
      BY <2>3, <3>1 DEF RootHeld
    <3> QED
      BY <3>1, <3>2 DEF CustomerGoesWhole, Subjects
  <2> QED
    BY <2>2, <2>3
<1>6. CASE UNCHANGED vars
  BY <1>1, <1>6 DEF vars
<1> QED
  BY <1>1, <1>2, <1>3, <1>4, <1>5, <1>6, StripeRemoves DEF Next, Environment

\* Ways on and out of an erasure.
LEMMA ErasureEnds ==
    ASSUME Base, NEW c \in Callers, CallStep(c), NEW outcome, Settle(c, outcome),
           outcome \in {"erased", "absent"} =>
             \A e \in begun[c] : e \in held' => system \in Rooted \ {"stripe"} /\ e[1] # Root,
           outcome = "absent" => took'[c] = {}
    PROVE  Erasing(c)'
<1>1. /\ call \in [Callers -> Calls] /\ result \in [Callers -> Results]
      /\ begun \in [Callers -> SUBSET Entries]
  BY DEF Base, Typed, TypeOK
<1>2. /\ call'[c].place = "idle" /\ result'[c] = outcome /\ begun'[c] \subseteq begun[c] /\ system' = system
  BY <1>1 DEF Settle, Return, NoCall
<1> QED
  BY <1>2 DEF Erasing, Gone, Surviving

LEMMA NoErasureEnds ==
    ASSUME Base, NEW c \in Callers, NEW outcome, NEW exported, Return(c, outcome, exported),
           outcome \notin {"erased", "absent"}
    PROVE  Erasing(c)'
<1>1. call \in [Callers -> Calls] /\ result \in [Callers -> Results]
  BY DEF Base, Typed, TypeOK
<1>2. call'[c].place = "idle" /\ result'[c] = outcome
  BY <1>1 DEF Return, NoCall
<1> QED
  BY <1>2 DEF Erasing, Gone

LEMMA ErasureGoesOn ==
    ASSUME Base, Waiting, NEW c \in Callers, CallStep(c), NEW next, GoOn(c, next),
           next.verb = "erase" =>
             /\ \A e \in begun[c] : e \in held' => e \in Pending(next)
             /\ took'[c] \subseteq Removable(next)
    PROVE  Erasing(c)'
<1>1. call \in [Callers -> Calls] /\ result[c] = "none"
  BY CallIsUnderWay DEF Base, Typed, TypeOK, Waiting
<1>2. call'[c] = next /\ result'[c] = "none" /\ system' = system /\ begun' = begun
  BY <1>1 DEF GoOn
<1>3. Pending(call[c])' = Pending(next) /\ Removable(call[c])' = Removable(next)
  BY <1>2 DEF Pending, Removable
<1> QED
  BY <1>2, <1>3 DEF Erasing, Gone, Surviving

\* In all systems but s3, what is current is what is held.
LEMMA CurrentIsHeld ==
    ASSUME Base, system # "s3"
    PROVE  Current = held
<1>1. \A e \in held : e[2] \in Nat
  <2>1. held \subseteq Entries
    BY DEF Base, Typed, TypeOK
  <2> QED
    BY <2>1, RankNat
<1> QED
  BY <1>1 DEF Base, Plain, Current

LEMMA ErasurePage ==
    ASSUME Base, Waiting, BegunIsOld, NEW c \in Callers, Erasing(c), CallStep(c), NEW E, ListForErasure(c, E),
           E = Under(held, c), system \in Storages
    PROVE  Erasing(c)'
<1> DEFINE later == {e \in E : Rank(e) > call[c].marker}
           page == Earliest(later, PageSize)
           next == [call[c] EXCEPT !.found = IF call[c].verb = "erase" THEN @ \cup page ELSE {},
                                   !.todo = page, !.more = page # later,
                                   !.marker = IF page = {} THEN @ ELSE LastRank(page)]
           more == [next EXCEPT !.place = "listing"]
           on == [next EXCEPT !.place = "deleting", !.todo = next.found]
           found == call[c].found \cup page
<1>0. /\ call[c] \in Calls /\ call[c].verb = "erase" /\ call[c].place \in {"starting", "listing"}
      /\ call[c].ref = "own/" /\ held \subseteq Entries /\ begun[c] \subseteq Entries
      /\ held' = held /\ took' = took /\ system # "supabase_postgrest"
  BY DEF Base, Typed, TypeOK, ListForErasure, Listing, checked_prefix, CallsFit, CallFits, StoreUnchanged,
     store, Storages
<1>1. ASSUME NEW e \in begun[c], e \in held
      PROVE  e \in Entries /\ (e \in call[c].found \/ Rank(e) > call[c].marker)
  BY <1>0, <1>1 DEF Erasing, Surviving, Pending
<1>2. took[c] = {}
  BY <1>0 DEF Erasing, Removable, Storages
<1>3. ASSUME NEW e \in begun[c], e \in held PROVE e \in E
  BY <1>0, <1>3 DEF BegunIsOld, Under, Matched
<1>4. later \in SUBSET Entries
  BY <1>0 DEF Under
<1>5. ASSUME NEW e \in begun[c], e \in held, e \notin found PROVE e \in later /\ e \notin page
  BY <1>1, <1>3, <1>5
<1>6. next.found = found /\ next.marker = (IF page = {} THEN call[c].marker ELSE LastRank(page))
      /\ next.codes = call[c].codes
      /\ (page # later => next.more) /\ (page = later => ~next.more)
  BY <1>0 DEF Calls
<1>7. /\ more.place = "listing" /\ more.found = next.found /\ more.marker = next.marker
      /\ on.place = "deleting" /\ on.todo = next.found
  BY <1>0 DEF Calls
<1>8. \/ next.more /\ GoOn(c, more)
      \/ ~next.more /\ next.found = {} /\ Settle(c, "absent")
      \/ ~next.more /\ GoOn(c, on)
  <2>1. Listed(c, E) = next
    BY DEF Listed
  <2>2. LET n == Listed(c, E)
        IN  CASE n.more -> GoOn(c, [n EXCEPT !.place = "listing"])
              [] ~n.more /\ n.found = {} -> Settle(c, "absent")
              [] OTHER -> GoOn(c, [n EXCEPT !.place = "deleting", !.todo = n.found])
    BY DEF ListForErasure
  <2> HIDE DEF next
  <2>3. CASE next.more
    BY <2>1, <2>2, <2>3
  <2>4. CASE ~next.more /\ next.found = {}
    BY <2>1, <2>2, <2>4
  <2>5. CASE ~next.more /\ next.found # {}
    BY <2>1, <2>2, <2>5
  <2> QED
    BY <2>3, <2>4, <2>5
<1>9. ASSUME NEW e \in later, e \notin page
      PROVE  page # later /\ page # {} /\ Rank(e) > LastRank(page)
  BY <1>4, <1>9, PageSplits, VendorAssumption
<1> HIDE DEF page, later, found, next, more, on
<1>10. CASE next.more /\ GoOn(c, more)
  <2>1. ASSUME NEW e \in begun[c], e \in held PROVE e \in Pending(more)
    <3>1. e \in found \/ Rank(e) > next.marker
      BY <1>5, <1>6, <1>9, <2>1
    <3> QED
      BY <1>0, <1>1, <1>6, <1>7, <2>1, <3>1 DEF Pending
  <2> QED
    BY <1>0, <1>2, <1>10, <2>1, ErasureGoesOn
<1>11. ASSUME ~next.more, NEW e \in begun[c], e \in held PROVE e \in next.found /\ e \in Entries
  BY <1>1, <1>5, <1>6, <1>9, <1>11
<1>12. CASE ~next.more /\ next.found = {} /\ Settle(c, "absent")
  BY <1>0, <1>2, <1>11, <1>12, ErasureEnds
<1>13. CASE ~next.more /\ GoOn(c, on)
  <2>1. ASSUME NEW e \in begun[c], e \in held PROVE e \in Pending(on)
    BY <1>0, <1>7, <1>11, <1>13, <2>1 DEF Pending
  <2> QED
    BY <1>0, <1>2, <1>13, <2>1, ErasureGoesOn
<1> QED
  BY <1>8, <1>10, <1>12, <1>13

LEMMA ErasureBatch ==
    ASSUME Base, Waiting, NEW c \in Callers, Erasing(c), CallStep(c), DeleteBatch(c), system \in Storages
    PROVE  Erasing(c)'
<1>0. /\ call[c] \in Calls /\ call[c].verb = "erase" /\ call[c].place = "deleting"
      /\ held \subseteq Entries /\ begun[c] \subseteq Entries /\ took' \in [Callers -> SUBSET Entries]
      /\ system # "supabase_postgrest"
  BY MemoryStep DEF Base, Typed, TypeOK, DeleteBatch, At, Storages, MemoryFits, Next
<1>1. PICK batch : AnsweredBatch(c, batch) \/ LostBatch(c, batch)
  BY DEF DeleteBatch
<1>2. CASE LostBatch(c, batch)
  <2>1. Settle(c, "retry")
    BY <1>2 DEF LostBatch
  <2> QED
    BY <2>1, ErasureEnds
<1>3. ASSUME AnsweredBatch(c, batch) PROVE Erasing(c)'
  <2> DEFINE left == call[c].todo \ batch
             codesOf(denied, busy) == call[c].codes \cup (IF denied = {} THEN {} ELSE {"AccessDenied"})
                                                    \cup (IF busy = {} THEN {} ELSE {"SlowDown"})
  <2>1. PICK denied \in SUBSET batch, busy \in SUBSET batch :
          /\ Remove(c, Reached(batch \ (denied \cup busy)))
          /\ IF left = {} THEN Settle(c, ErasureOutcome(codesOf(denied, busy)))
             ELSE GoOn(c, [call[c] EXCEPT !.todo = left, !.codes = codesOf(denied, busy)])
    BY <1>3 DEF AnsweredBatch
  <2> DEFINE codes == codesOf(denied, busy)
             next == [call[c] EXCEPT !.todo = left, !.codes = codes]
  <2>2. ASSUME codes = {}, NEW e \in begun[c], e \in held' PROVE e \in left /\ e \in Entries
    <3>1. call[c].codes = {} /\ denied = {} /\ busy = {}
      BY <2>2
    <3>2. batch \ (denied \cup busy) = batch
      BY <3>1
    <3>3. held' = held \ Reached(batch)
      BY <2>1, <3>2 DEF Remove, Holds
    <3>4. e \in held /\ e \notin batch
      BY <2>2, <3>3 DEF Reached
    <3>5. e \in call[c].todo /\ e \in Entries
      BY <1>0, <2>2, <3>1, <3>4 DEF Erasing, Surviving, Pending
    <3> QED
      BY <3>4, <3>5
  <2>3. next.todo = left /\ next.codes = codes /\ next.place = "deleting" /\ next.verb = "erase"
    BY <1>0 DEF Calls
  <2> HIDE DEF codes, left, next
  <2>4. CASE left = {}
    <3>1. Settle(c, ErasureOutcome(codes))
      BY <2>1, <2>4 DEF codes
    <3>2. ErasureOutcome(codes) # "absent" /\ (ErasureOutcome(codes) = "erased" => codes = {})
      BY DEF ErasureOutcome
    <3> QED
      BY <2>2, <2>4, <3>1, <3>2, ErasureEnds
  <2>5. CASE left # {}
    <3>1. GoOn(c, next)
      BY <2>1, <2>5 DEF next, codes
    <3>2. ASSUME NEW e \in begun[c], e \in held' PROVE e \in Pending(next)
      BY <1>0, <2>2, <2>3, <3>2 DEF Pending
    <3>3. took'[c] \subseteq Removable(next)
      BY <1>0, <2>3 DEF Removable
    <3> QED
      BY <3>1, <3>2, <3>3, ErasureGoesOn
  <2> QED
    BY <2>4, <2>5
<1> QED
  BY <1>1, <1>2, <1>3

LEMMA ErasureTable ==
    ASSUME Base, Waiting, BegunIsOld, NEW c \in Callers, Erasing(c), CallStep(c), DeleteRows(c)
    PROVE  Erasing(c)'
<1> DEFINE rows == RowsOf(held, Table(c))
           deleted == call[c].found \cup rows
           next == [call[c] EXCEPT !.marker = Table(c), !.found = deleted]
<1>0. /\ call[c] \in Calls /\ call[c].verb = "erase" /\ call[c].place = "starting"
      /\ system = "supabase_postgrest" /\ held \subseteq Entries /\ begun[c] \subseteq Entries
      /\ took \in [Callers -> SUBSET Entries] /\ CallFits(c, call[c])
  BY DEF Base, Typed, TypeOK, CallsFit, DeleteRows
<1>1. /\ Table(c) \in OwnSlots /\ Table(c) \in Nat
      /\ \A r \in OwnSlots : r > call[c].marker => Table(c) <= r
  BY <1>0, TableIs DEF CallFits, Calls
<1>2. /\ held' = held \ rows /\ took' = [took EXCEPT ![c] = @ \cup (held \cap rows)]
      /\ \/ LastTable(c) /\ Settle(c, IF deleted = {} THEN "absent" ELSE "erased")
         \/ ~LastTable(c) /\ GoOn(c, next)
         \/ Settle(c, "retry")
  BY DEF DeleteRows, Remove, Holds
<1>3. took'[c] \subseteq deleted
  <2>1. took[c] \subseteq call[c].found
    BY <1>0 DEF Erasing, Removable, Storages
  <2> QED
    BY <1>0, <1>2, <2>1
<1>4. ASSUME NEW e \in begun[c], e \in held'
      PROVE  e \in Entries /\ e[1] > Table(c) /\ ~LastTable(c)
  <2>1. e \in held /\ e[1] # Table(c) /\ e \in Entries /\ e[1] \in OwnSlots
    BY <1>0, <1>2, <1>4 DEF RowsOf, BegunIsOld
  <2>2. e[1] > call[c].marker
    BY <1>0, <1>4, <2>1 DEF Erasing, Surviving, Pending
  <2>3. Table(c) <= e[1] /\ e[1] \in Nat
    BY <1>1, <2>1, <2>2, RankNat
  <2> QED
    BY <1>1, <2>1, <2>3 DEF LastTable
<1>5. next.marker = Table(c) /\ next.found = deleted
  BY <1>0 DEF Calls
<1> HIDE DEF rows, deleted, next
<1>6. CASE LastTable(c) /\ Settle(c, IF deleted = {} THEN "absent" ELSE "erased")
  BY <1>3, <1>4, <1>6, ErasureEnds
<1>7. CASE ~LastTable(c) /\ GoOn(c, next)
  <2>1. ASSUME NEW e \in begun[c], e \in held' PROVE e \in Pending(next)
    BY <1>0, <1>4, <1>5, <2>1 DEF Pending, Storages
  <2>2. took'[c] \subseteq Removable(next)
    BY <1>0, <1>3, <1>5 DEF Removable, Storages
  <2> QED
    BY <1>7, <2>1, <2>2, ErasureGoesOn
<1>8. CASE Settle(c, "retry")
  BY <1>8, ErasureEnds
<1> QED
  BY <1>2, <1>6, <1>7, <1>8

\* The systems of which the contact alone is erased, and stripe.
LEMMA ErasureOfContact ==
    ASSUME Base, Waiting, BegunIsOld, CustomerGoesWhole, NEW c \in Callers, Erasing(c), CallStep(c),
           DeleteUser(c) \/ DeleteCustomer(c) \/ DeleteContact(c) \/ EraseResend(c) \/ EraseMemory(c)
    PROVE  Erasing(c)'
<1> DEFINE E == IF system = "stripe" /\ ~RootHeld THEN {} ELSE With(Root)
<1>0. /\ call[c].verb = "erase" /\ call[c].place = "starting"
      /\ system \in {"supabase_auth", "stripe", "intercom", "resend", "memory"}
      /\ took \in [Callers -> SUBSET Entries]
      /\ With(Root) = IF system = "stripe" THEN Subjects(held) ELSE {e \in held : e[1] = Root}
  BY DEF Base, Typed, TypeOK, DeleteUser, DeleteCustomer, DeleteContact, EraseResend, EraseMemory, At, With
<1>1. /\ Remove(c, E)
      /\ Settle(c, IF RootHeld THEN "erased" ELSE "absent") \/ Settle(c, "retry")
  BY <1>0 DEF DeleteUser, DeleteCustomer, DeleteContact, EraseResend, EraseMemory, RowsOf
<1>2. held' = held \ E /\ took' = [took EXCEPT ![c] = @ \cup (held \cap E)]
  BY <1>1 DEF Remove, Holds
<1>3. took[c] = {}
  BY <1>0 DEF Erasing, Removable, Storages
<1>4. ~RootHeld => held \cap E = {}
  BY <1>0 DEF RootHeld
<1>5. ~RootHeld => took'[c] = {}
  BY <1>0, <1>2, <1>3, <1>4
<1>6. ASSUME NEW e \in begun[c], e \in held' PROVE system \in Rooted \ {"stripe"} /\ e[1] # Root
  <2>1. CASE system = "stripe"
    <3>1. Subjects(held) \cap held' = {}
      BY <1>0, <1>2, <2>1 DEF CustomerGoesWhole
    <3>2. e \in Subjects(held)
      BY <1>2, <1>6 DEF BegunIsOld, Subjects
    <3> QED
      BY <1>6, <3>1, <3>2
  <2>2. CASE system # "stripe"
    BY <1>0, <1>2, <1>6, <2>2 DEF Rooted
  <2> QED
    BY <2>1, <2>2
<1> HIDE DEF E
<1>7. CASE Settle(c, "retry")
  BY <1>7, ErasureEnds
<1>8. CASE Settle(c, IF RootHeld THEN "erased" ELSE "absent")
  BY <1>5, <1>6, <1>8, ErasureEnds
<1> QED
  BY <1>1, <1>7, <1>8

LEMMA ErasureCall ==
    ASSUME Base, Waiting, BegunIsOld, CustomerGoesWhole, NEW c \in Callers, Erasing(c), CallStep(c)
    PROVE  Erasing(c)'
<1>0. call[c] \in Calls
  BY DEF Base, Typed
<1>1. ASSUME NEW outcome, Settle(c, outcome), outcome \notin {"erased", "absent"} PROVE Erasing(c)'
  BY <1>1, NoErasureEnds DEF Settle
<1>2. ASSUME NEW next, GoOn(c, next), next.verb # "erase" PROVE Erasing(c)'
  BY <1>2, ErasureGoesOn
<1>3. ASSUME NEW outcome \in Failures, Refused(c, outcome) PROVE Erasing(c)'
  BY <1>1, <1>3 DEF Refused, Failures
<1>4. ASSUME NEW got, Return(c, "exported", got) PROVE Erasing(c)'
  BY <1>4, NoErasureEnds
<1>5. CASE S3Step(c)
  <2>1. CASE RefuseThePrefix(c)
    BY <1>1, <2>1 DEF RefuseThePrefix
  <2>2. CASE StorageRequestFails(c)
    BY <1>3, <2>2 DEF StorageRequestFails, Failures
  <2>3. CASE collect_version_identifiers(c)
    BY <2>3, ErasurePage DEF collect_version_identifiers, Storages
  <2>4. CASE delete_in_batches(c)
    BY <2>4, ErasureBatch DEF delete_in_batches, Storages
  <2>5. CASE iter_current_objects(c)
    <3> DEFINE next == Listed(c, Under(Current, c))
               on == [next EXCEPT !.place = "fetching"]
    <3>1. GoOn(c, on) \/ Return(c, "exported", call[c].got)
      BY <2>5 DEF iter_current_objects
    <3>2. on.verb = "export"
      BY <1>0, <2>5 DEF Listed, Calls, iter_current_objects
    <3> HIDE DEF on
    <3> QED
      BY <1>2, <1>4, <3>1, <3>2
  <2>6. CASE collect_object_records(c)
    <3> DEFINE entry == CHOOSE e \in Earliest(call[c].todo, 1) : TRUE
               left == call[c].todo \ {entry}
               got == call[c].got \cup {f \in Current : f[1] = entry[1]}
               more == [call[c] EXCEPT !.todo = left, !.got = got]
               on == [call[c] EXCEPT !.todo = {}, !.got = got, !.place = "listing"]
    <3>1. Settle(c, "rejected") \/ GoOn(c, more) \/ GoOn(c, on) \/ Return(c, "exported", got)
      BY <2>6 DEF collect_object_records
    <3>2. more.verb = "export" /\ on.verb = "export"
      BY <1>0, <2>6 DEF collect_object_records, At, Calls
    <3> HIDE DEF left, got, more, on
    <3> QED
      BY <1>1, <1>2, <1>4, <3>1, <3>2
  <2> QED
    BY <1>5, <2>1, <2>2, <2>3, <2>4, <2>5, <2>6 DEF S3Step
<1>6. CASE SupabaseStep(c)
  <2>1. CASE DeleteCurrent(c)
    <3>1. system = "supabase_storage" /\ Current = held
      BY <2>1, CurrentIsHeld DEF DeleteCurrent
    <3>2. DeleteBatch(c) \/ ListForErasure(c, Under(held, c))
      BY <2>1, <3>1 DEF DeleteCurrent
    <3> QED
      BY <3>1, <3>2, ErasurePage, ErasureBatch DEF Storages
  <2>2. CASE SelectTable(c)
    <3> DEFINE got == call[c].got \cup RowsOf(held, Table(c))
               next == [call[c] EXCEPT !.marker = Table(c), !.got = got]
    <3>1. Return(c, "exported", got) \/ GoOn(c, next)
      BY <2>2 DEF SelectTable
    <3>2. next.verb = "export"
      BY <1>0, <2>2 DEF SelectTable, Calls
    <3> HIDE DEF got, next
    <3> QED
      BY <1>2, <1>4, <3>1, <3>2
  <2>3. CASE ExportUser(c)
    BY <1>4, <2>3 DEF ExportUser
  <2>4. CASE SupabaseRequestFails(c)
    BY <1>3, <2>4 DEF SupabaseRequestFails, SupabaseOutcome, Failures
  <2> QED
    BY <1>6, <2>1, <2>2, <2>3, <2>4, ErasureTable, ErasureOfContact DEF SupabaseStep
<1>7. CASE ContactStep(c)
  <2>1. CASE CollectCustomer(c) \/ GetContact(c) \/ PagePaymentMethods(c) \/ SearchConversations(c)
    <3>1. \/ \E next : next.verb = "export" /\ GoOn(c, next)
          \/ \E got : Return(c, "exported", got)
          \/ Settle(c, "exported")
      BY <1>0, <2>1 DEF CollectCustomer, GetContact, PagePaymentMethods, SearchConversations, Paged, At, Calls
    <3> QED
      BY <1>1, <1>2, <1>4, <3>1
  <2>2. CASE ReadCustomer(c)
    <3> DEFINE drift == {f \in Targets(c) : profile[f] # Target(c, f)}
               next == [call[c] EXCEPT !.place = "updating", !.drift = drift]
    <3>1. Settle(c, "consistent") \/ GoOn(c, next)
      BY <2>2 DEF ReadCustomer
    <3>2. next.verb = "rectify"
      BY <1>0, <2>2 DEF ReadCustomer, At, Calls
    <3> HIDE DEF next
    <3> QED
      BY <1>1, <1>2, <3>1, <3>2
  <2>3. CASE UpdateCustomer(c) \/ RectifyMemory(c)
    BY <1>1, <2>3 DEF UpdateCustomer, RectifyMemory
  <2>4. CASE StripeRequestFails(c) \/ ResendRequestFails(c) \/ IntercomRequestFails(c)
    BY <1>3, <2>4 DEF StripeRequestFails, ResendRequestFails, IntercomRequestFails, StripeOutcome,
       ResendOutcome, IntercomOutcome, Failures
  <2>5. CASE ExportResend(c) \/ ExportMemory(c)
    BY <1>4, <2>5 DEF ExportResend, ExportMemory
  <2> QED
    BY <1>7, <2>1, <2>2, <2>3, <2>4, <2>5, ErasureOfContact DEF ContactStep
<1> QED
  BY <1>5, <1>6, <1>7 DEF CallStep

LEMMA ErasureStep ==
    ASSUME Base, Waiting, BegunIsOld, CustomerGoesWhole, NEW c \in Callers, Erasing(c), [Next]_vars
    PROVE  Erasing(c)'
<1>0. system' = system
  BY RecordStep
<1>1. CASE CallStep(c)
  BY <1>1, ErasureCall
<1>2. CASE Begin(c) \/ CallAgain(c)
  <2>1. PICK verb \in Verbs, ref \in Refs : Start(c, verb, ref)
    BY <1>2, StartForm DEF Base, Starts
  <2>2. /\ call'[c].place = "starting" /\ call'[c].marker = 0 /\ result'[c] = "none"
    BY <2>1, Started DEF Base
  <2>3. took'[c] = {} /\ begun' \in [Callers -> SUBSET Entries]
    BY <2>1, MemoryStep DEF Start, Base, Typed, TypeOK, MemoryFits
  <2>4. ASSUME NEW e \in Entries
        PROVE  Rank(e) > call'[c].marker /\ e[1] > call'[c].marker
    BY <2>2, RankNat
  <2>5. Entries \subseteq Pending(call[c])'
    BY <1>0, <2>2, <2>4 DEF Pending
  <2> QED
    BY <2>2, <2>3, <2>5 DEF Erasing, Gone, Surviving
<1>3. CASE \/ Environment
           \/ UNCHANGED vars
           \/ \E d \in Callers \ {c} : Begin(d) \/ CallAgain(d) \/ CallStep(d)
  <2>1. call'[c] = call[c] /\ result'[c] = result[c] /\ took'[c] = took[c]
    BY <1>3, CallFrame, EnvironmentFrame DEF SameCall, Base
  <2>2. Pending(call[c])' = Pending(call[c]) /\ Removable(call[c])' = Removable(call[c])
    BY <1>0, <2>1 DEF Pending, Removable
  <2>3. CASE ~Begin(c) /\ ~CallAgain(c)
    <3>1. Surviving(c)' \subseteq Surviving(c)
      BY <2>3, BegunStep
    <3> QED
      BY <1>0, <2>1, <2>2, <3>1 DEF Erasing, Gone
  <2> QED
    BY <1>2, <2>3
<1> QED
  BY <1>1, <1>2, <1>3 DEF Next

LEMMA CustomerInit ==
    ASSUME Init
    PROVE  CustomerGoesWhole
<1>1. CASE system = "stripe" /\ ~RootHeld
  <2>1. held = {<<s, 1>> : s \in {s \in Slots : written[s] = 1}} /\ written \in [Slots -> 0..1]
    BY DEF Init
  <2>2. Root \in Slots /\ OwnSlots \subseteq Slots
    BY VendorAssumption
  <2>3. written[Root] # 1
    <3>1. ASSUME written[Root] = 1 PROVE FALSE
      <4>1. <<Root, 1>> \in held /\ <<Root, 1>>[1] = Root
        BY <2>1, <2>2, <3>1
      <4> QED
        BY <1>1, <4>1 DEF RootHeld
    <3> QED
      BY <3>1
  <2>4. written[Root] = 0
    BY <2>1, <2>2, <2>3
  <2>5. \A s \in OwnSlots : written[s] = 0
    BY <1>1, <2>4 DEF Init, Rooted
  <2> QED
    BY <2>1, <2>5 DEF CustomerGoesWhole, Subjects
<1> QED
  BY <1>1 DEF CustomerGoesWhole

\* What an erasure reports is true of the entries the subject had when the attempt began:
\* after a success none of them is left, whatever was listed, written, deleted, retried or
\* lost meanwhile, and an attempt that reports nothing to erase has removed nothing.
THEOREM ErasuresTellTheTruth == Spec => []ErasuresReportTruly
<1> DEFINE Inv == Waiting /\ BegunIsOld /\ CustomerGoesWhole /\ \A c \in Callers : Erasing(c)
<1>1. Init => Inv
  <2>1. ASSUME Init PROVE Waiting /\ BegunIsOld /\ \A c \in Callers : Erasing(c)
    BY <2>1 DEF Init, Waiting, BegunIsOld, Erasing, Gone, NoCall
  <2> QED
    BY <2>1, CustomerInit
<1>2. Base /\ Inv /\ [Next]_vars => Inv'
  <2>1. ASSUME Base, Inv, [Next]_vars PROVE Waiting' /\ BegunIsOld' /\ CustomerGoesWhole'
    BY <2>1, WaitingStep, BegunStep, CustomerStep
  <2>2. ASSUME Base, Inv, [Next]_vars, NEW c \in Callers PROVE Erasing(c)'
    BY <2>2, ErasureStep
  <2> QED
    BY <2>1, <2>2
<1>3. Inv => ErasuresReportTruly
  BY DEF ErasuresReportTruly, Erasing, Gone, Surviving
<1> QED
  BY <1>1, <1>2, <1>3, BaseHolds, PTL DEF Spec

==============================================================================

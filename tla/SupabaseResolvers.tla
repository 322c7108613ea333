-------------------------- MODULE SupabaseResolvers --------------------------
(***************************************************************************)
(* The three effaced-supabase resolvers: a storage bucket behind an S3     *)
(* gateway, rows of declared tables behind PostgREST, and a user of        *)
(* GoTrue.                                                                 *)
(***************************************************************************)
EXTENDS S3Resolver

Statuses == {400, 403, 429, 500, 503}

\* Callers handle an absent subject before this taxonomy.
SupabaseOutcome(status) ==
    IF 400 <= status /\ status < 500 /\ status # 429 THEN "rejected" ELSE "retry"

\* Storage: the current objects are listed and deleted by key.
DeleteCurrent(c) ==
    /\ system = "supabase_storage"
    /\ \/ ListForErasure(c, Under(Current, c))
       \/ DeleteBatch(c)

-----------------------------------------------------------------------------

\* PostgREST: one request per declared table, in their order; here a table is a slot.
Table(c) == CHOOSE s \in OwnSlots :
    /\ s > call[c].marker
    /\ \A r \in OwnSlots : r > call[c].marker => s <= r

LastTable(c) == \A s \in OwnSlots : s <= Table(c)

RowsOf(E, s) == {e \in E : e[1] = s}

SelectTable(c) ==
    /\ system = "supabase_postgrest"
    /\ call[c].verb = "export" /\ call[c].place = "starting"
    /\ LET got == call[c].got \cup RowsOf(held, Table(c))
       IN  IF LastTable(c) THEN Return(c, "exported", got)
           ELSE GoOn(c, [call[c] EXCEPT !.marker = Table(c), !.got = got])
    /\ StoreUnchanged

\* Whether rows were deleted is known of the last table alone.
DeleteRowsByLast(c) ==
    /\ system = "supabase_postgrest"
    /\ call[c].verb = "erase" /\ call[c].place = "starting"
    /\ LET deleted == RowsOf(held, Table(c))
       IN  /\ Remove(c, deleted)
           /\ \/ IF LastTable(c) THEN Settle(c, IF deleted = {} THEN "absent" ELSE "erased")
                 ELSE GoOn(c, [call[c] EXCEPT !.marker = Table(c)])
              \/ Settle(c, "retry")
    /\ UNCHANGED <<written, profile, changes, touched>>

\* found keeps whether any table so far had a row to delete.
DeleteRows(c) ==
    /\ system = "supabase_postgrest"
    /\ call[c].verb = "erase" /\ call[c].place = "starting"
    /\ LET deleted == call[c].found \cup RowsOf(held, Table(c))
       IN  /\ Remove(c, RowsOf(held, Table(c)))
           /\ \/ IF LastTable(c) THEN Settle(c, IF deleted = {} THEN "absent" ELSE "erased")
                 ELSE GoOn(c, [call[c] EXCEPT !.marker = Table(c), !.found = deleted])
              \/ Settle(c, "retry")
    /\ UNCHANGED <<written, profile, changes, touched>>

-----------------------------------------------------------------------------

\* GoTrue: one request; a 404 is an empty export, or an erasure already done.
ExportUser(c) ==
    /\ system = "supabase_auth"
    /\ At(c, "export", "starting")
    /\ Return(c, "exported", RowsOf(held, Root))
    /\ StoreUnchanged

\* A 404 of the deletion is left to the taxonomy.
DeleteUserMissing(c) ==
    /\ system = "supabase_auth"
    /\ At(c, "erase", "starting")
    /\ Remove(c, RowsOf(held, Root))
    /\ Settle(c, IF RootHeld THEN "erased" ELSE SupabaseOutcome(404)) \/ Settle(c, "retry")
    /\ UNCHANGED <<written, profile, changes, touched>>

DeleteUser(c) ==
    /\ system = "supabase_auth"
    /\ At(c, "erase", "starting")
    /\ Remove(c, RowsOf(held, Root))
    /\ Settle(c, IF RootHeld THEN "erased" ELSE "absent") \/ Settle(c, "retry")
    /\ UNCHANGED <<written, profile, changes, touched>>

SupabaseRequestFails(c) ==
    /\ system \in {"supabase_postgrest", "supabase_auth"}
    /\ call[c].place = "starting"
    /\ \E status \in Statuses : Refused(c, SupabaseOutcome(status))

SupabaseStep(c) ==
    \/ DeleteCurrent(c)
    \/ SelectTable(c)
    \/ DeleteRows(c)
    \/ ExportUser(c)
    \/ DeleteUser(c)
    \/ SupabaseRequestFails(c)

=============================================================================

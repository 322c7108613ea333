----------------------------- MODULE S3Resolver -----------------------------
(***************************************************************************)
(* The effaced-s3 resolver: objects below a key prefix, listed page by     *)
(* page, fetched one by one and deleted batch by batch.  An erasure goes   *)
(* through every version and delete marker, an export through the current  *)
(* objects.                                                                *)
(***************************************************************************)
EXTENDS VendorCalls

NonRetryableCodes == {"AccessDenied", "NoSuchBucket", "PermanentRedirect"}

Codes == NonRetryableCodes \cup {"SlowDown", "InternalError"}

\* Unknown codes are transient.
is_nonretryable(code) == code \in NonRetryableCodes

\* A prefix is accepted for not being blank alone.
PrefixNotBlank(ref) == ref # " "

\* Refuses a prefix that is blank or not terminated before any request is made.
checked_prefix(ref) == ref = "own/"

RefuseThePrefix(c) ==
    /\ system \in Storages
    /\ call[c].place = "starting"
    /\ ~checked_prefix(call[c].ref)
    /\ Settle(c, "rejected")
    /\ StoreUnchanged

Listing(c) ==
    \/ call[c].place = "starting" /\ checked_prefix(call[c].ref)
    \/ call[c].place = "listing"

\* The call after the next page of a listing of E.
Listed(c, E) ==
    LET later == {e \in E : Rank(e) > call[c].marker}
        page  == Earliest(later, PageSize)
    IN  [call[c] EXCEPT !.found = IF call[c].verb = "erase" THEN @ \cup page ELSE {},
                        !.todo = page,
                        !.more = page # later,
                        !.marker = IF page = {} THEN @ ELSE LastRank(page)]

Under(E, c) == {e \in E : e[1] \in Matched(call[c].ref)}

\* A listing for an erasure is complete before anything is deleted.
ListForErasure(c, E) ==
    /\ call[c].verb = "erase" /\ Listing(c)
    /\ LET next == Listed(c, E)
       IN  CASE next.more -> GoOn(c, [next EXCEPT !.place = "listing"])
             [] ~next.more /\ next.found = {} -> Settle(c, "absent")
             [] OTHER -> GoOn(c, [next EXCEPT !.place = "deleting", !.todo = next.found])
    /\ StoreUnchanged

collect_version_identifiers(c) ==
    /\ system = "s3"
    /\ ListForErasure(c, Under(held, c))

\* An erasure ends by the codes its batches reported.
ErasureOutcome(codes) ==
    IF codes = {} THEN "erased"
    ELSE IF \A code \in codes : is_nonretryable(code) THEN "rejected" ELSE "retry"

\* Versions go one by one, under the name and the id they were listed with; a key takes
\* along what was written under it since.
Reached(batch) ==
    IF system = "s3" THEN batch ELSE {e \in held : \E f \in batch : f[1] = e[1]}

\* One batch, of which Reached(batch) disappears.  Some keys are refused for good and
\* some for now, the rest is deleted, and the next batch follows whatever happened.
AnsweredBatch(c, batch) ==
    \E denied \in (IF allowed THEN {{}} ELSE SUBSET batch) : \E busy \in SUBSET (batch \ denied) :
        LET left  == call[c].todo \ batch
            codes == call[c].codes \cup (IF denied = {} THEN {} ELSE {"AccessDenied"})
                                   \cup (IF busy = {} THEN {} ELSE {"SlowDown"})
        IN  /\ Remove(c, Reached(batch \ (denied \cup busy)))
            /\ IF left = {} THEN Settle(c, ErasureOutcome(codes))
               ELSE GoOn(c, [call[c] EXCEPT !.todo = left, !.codes = codes])

\* The batch is deleted and its answer does not arrive.
LostBatch(c, batch) ==
    /\ Remove(c, Reached(batch))
    /\ Settle(c, "retry")

DeleteBatch(c) ==
    /\ At(c, "erase", "deleting")
    /\ LET batch == Earliest(call[c].todo, BatchSize)
       IN  AnsweredBatch(c, batch) \/ LostBatch(c, batch)
    /\ UNCHANGED <<written, profile, changes, touched>>

delete_in_batches(c) ==
    /\ system = "s3"
    /\ DeleteBatch(c)

\* The next page of an export; its objects are fetched before the page after it.
iter_current_objects(c) ==
    /\ system \in Storages
    /\ call[c].verb = "export" /\ Listing(c)
    /\ LET next == Listed(c, Under(Current, c))
       IN  IF next.todo = {} THEN Return(c, "exported", call[c].got)
           ELSE GoOn(c, [next EXCEPT !.place = "fetching"])
    /\ StoreUnchanged

\* The export ends with the objects of its first page.
FetchOnePage(c) ==
    /\ system \in Storages
    /\ At(c, "export", "fetching")
    /\ LET entry == CHOOSE e \in Earliest(call[c].todo, 1) : TRUE
           left  == call[c].todo \ {entry}
           got   == call[c].got \cup {f \in Current : f[1] = entry[1]}
       IN  IF entry \in Oversized THEN Settle(c, "rejected")
           ELSE IF left # {} THEN GoOn(c, [call[c] EXCEPT !.todo = left, !.got = got])
           ELSE Return(c, "exported", got)
    /\ StoreUnchanged

\* One object: too large for the cap it fails the export, gone since the listing it
\* is skipped, and written to since then it is read as it is now.
collect_object_records(c) ==
    /\ system \in Storages
    /\ At(c, "export", "fetching")
    /\ LET entry == CHOOSE e \in Earliest(call[c].todo, 1) : TRUE
           left  == call[c].todo \ {entry}
           got   == call[c].got \cup {f \in Current : f[1] = entry[1]}
       IN  IF entry \in Oversized THEN Settle(c, "rejected")
           ELSE IF left # {} THEN GoOn(c, [call[c] EXCEPT !.todo = left, !.got = got])
           ELSE IF call[c].more
                THEN GoOn(c, [call[c] EXCEPT !.todo = {}, !.got = got, !.place = "listing"])
                ELSE Return(c, "exported", got)
    /\ StoreUnchanged

\* A whole request fails with a code.
StorageRequestFails(c) ==
    /\ system \in Storages
    /\ Listing(c) \/ call[c].place \in {"fetching", "deleting"}
    /\ \E code \in Codes : Refused(c, IF is_nonretryable(code) THEN "rejected" ELSE "retry")

S3Step(c) ==
    \/ RefuseThePrefix(c)
    \/ collect_version_identifiers(c)
    \/ delete_in_batches(c)
    \/ iter_current_objects(c)
    \/ collect_object_records(c)
    \/ StorageRequestFails(c)

=============================================================================

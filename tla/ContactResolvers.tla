-------------------------- MODULE ContactResolvers --------------------------
(***************************************************************************)
(* The resolvers of systems that keep a subject as one contact or          *)
(* customer: effaced-stripe, effaced-intercom, effaced-resend and the      *)
(* InMemoryResolver that stands for them in tests.                         *)
(***************************************************************************)
EXTENDS VendorCalls

StripeErrors == {"AuthenticationError", "PermissionError", "InvalidRequestError",
                 "RateLimitError", "APIConnectionError"}

\* An InvalidRequestError that says the object is missing is told apart before this.
StripeOutcome(error) ==
    IF error \in {"AuthenticationError", "PermissionError", "InvalidRequestError"}
    THEN "rejected" ELSE "retry"

\* The customer first, then its payment methods by page.  A customer that is gone by
\* then makes the whole export empty.
CollectCustomer(c) ==
    /\ system = "stripe"
    /\ At(c, "export", "starting")
    /\ IF RootHeld
       THEN GoOn(c, [call[c] EXCEPT !.place = "parts", !.marker = Rank(<<Root, 1>>),
                                    !.got = {e \in held : e[1] = Root}])
       ELSE Settle(c, "exported")
    /\ StoreUnchanged

\* The parts of the contact that a page shows after those already read.
NextParts(c) ==
    Earliest({e \in Subjects(held) : e[1] # Root /\ Rank(e) > call[c].marker}, PageSize)

Paged(c) ==
    LET page == NextParts(c)
        got  == call[c].got \cup page
        rest == {e \in Subjects(held) : e[1] # Root /\ Rank(e) > call[c].marker} \ page
    IN  IF rest = {} THEN Return(c, "exported", got)
        ELSE GoOn(c, [call[c] EXCEPT !.got = got, !.marker = LastRank(page)])

PagePaymentMethods(c) ==
    /\ system = "stripe"
    /\ At(c, "export", "parts")
    /\ IF RootHeld THEN Paged(c) ELSE Settle(c, "exported")
    /\ StoreUnchanged

DeleteCustomer(c) ==
    /\ system = "stripe"
    /\ At(c, "erase", "starting")
    /\ Remove(c, IF RootHeld THEN With(Root) ELSE {})
    /\ Settle(c, IF RootHeld THEN "erased" ELSE "absent") \/ Settle(c, "retry")
    /\ UNCHANGED <<written, profile, changes, touched>>

\* Only these categories name one field of a customer; the others are not rectified.
CategoryToField == [identity |-> "name", contact |-> "email"]

\* The test double holds a record of every category.
RecordOf == [identity |-> "name", contact |-> "email", financial |-> "iban"]

FieldOf == IF system = "stripe" THEN CategoryToField ELSE RecordOf

Mapped(c) == DOMAIN corrections[c] \cap DOMAIN FieldOf

Targets(c) == {FieldOf[k] : k \in Mapped(c)}

Target(c, f) == corrections[c][CHOOSE k \in Mapped(c) : FieldOf[k] = f]

\* The customer is read first, and only what drifts from its correction is written.
ReadCustomer(c) ==
    /\ system = "stripe"
    /\ At(c, "rectify", "starting")
    /\ LET drift == {f \in Targets(c) : profile[f] # Target(c, f)}
       IN  IF Targets(c) = {} \/ ~RootHeld \/ drift = {} THEN Settle(c, "consistent")
           ELSE GoOn(c, [call[c] EXCEPT !.place = "updating", !.drift = drift])
    /\ StoreUnchanged

Corrected(c, fields) ==
    [f \in Fields |-> IF f \in fields THEN Target(c, f) ELSE profile[f]]

\* The update sends one of the fields that drift.
UpdateOneField(c) ==
    /\ system = "stripe"
    /\ At(c, "rectify", "updating")
    /\ IF RootHeld
       THEN /\ WriteProfile(c, Corrected(c, {CHOOSE f \in call[c].drift : TRUE}))
            /\ Settle(c, "rectified") \/ Settle(c, "retry")
       ELSE /\ Settle(c, "consistent")
            /\ UNCHANGED <<profile, touched>>
    /\ UNCHANGED <<held, markers, written, changes, steady, took>>

UpdateCustomer(c) ==
    /\ system = "stripe"
    /\ At(c, "rectify", "updating")
    /\ IF RootHeld
       THEN /\ WriteProfile(c, Corrected(c, call[c].drift))
            /\ Settle(c, "rectified") \/ Settle(c, "retry")
       ELSE /\ Settle(c, "consistent")
            /\ UNCHANGED <<profile, touched>>
    /\ UNCHANGED <<held, markers, written, changes, steady, took>>

StripeRequestFails(c) ==
    /\ system = "stripe"
    /\ call[c].place \in {"starting", "parts", "updating"}
    /\ \E error \in StripeErrors : Refused(c, StripeOutcome(error))

-----------------------------------------------------------------------------

\* The contact, and then its conversations page by page.
GetContact(c) ==
    /\ system = "intercom"
    /\ At(c, "export", "starting")
    /\ IF RootHeld
       THEN GoOn(c, [call[c] EXCEPT !.place = "parts", !.marker = Rank(<<Root, 1>>),
                                    !.got = {e \in held : e[1] = Root}])
       ELSE Settle(c, "exported")
    /\ StoreUnchanged

\* The search for conversations does not fail when the contact is gone by then.
SearchConversations(c) ==
    /\ system = "intercom"
    /\ At(c, "export", "parts")
    /\ Paged(c)
    /\ StoreUnchanged

DeleteContact(c) ==
    /\ system = "intercom"
    /\ At(c, "erase", "starting")
    /\ Remove(c, With(Root))
    /\ Settle(c, IF RootHeld THEN "erased" ELSE "absent") \/ Settle(c, "retry")
    /\ UNCHANGED <<written, profile, changes, touched>>

ExportResend(c) ==
    /\ system = "resend"
    /\ At(c, "export", "starting")
    /\ Return(c, "exported", {e \in held : e[1] = Root})
    /\ StoreUnchanged

EraseResend(c) ==
    /\ system = "resend"
    /\ At(c, "erase", "starting")
    /\ Remove(c, With(Root))
    /\ Settle(c, IF RootHeld THEN "erased" ELSE "absent") \/ Settle(c, "retry")
    /\ UNCHANGED <<written, profile, changes, touched>>

Answers == {400, 429, 500}

\* Both packages translate what is left after a 404 by its status alone.
IntercomOutcome(status) ==
    IF 400 <= status /\ status < 500 /\ status # 429 THEN "rejected" ELSE "retry"

IntercomRequestFails(c) ==
    /\ system = "intercom"
    /\ call[c].place \in {"starting", "parts"}
    /\ \E status \in Answers : Refused(c, IntercomOutcome(status))

ResendOutcome(status) ==
    IF 400 <= status /\ status < 500 /\ status # 429 THEN "rejected" ELSE "retry"

ResendRequestFails(c) ==
    /\ system = "resend"
    /\ call[c].place = "starting"
    /\ \E status \in Answers : Refused(c, ResendOutcome(status))

-----------------------------------------------------------------------------

\* The test double answers in one step and never fails by itself.
ExportMemory(c) ==
    /\ system = "memory"
    /\ At(c, "export", "starting")
    /\ Return(c, "exported", {e \in held : e[1] = Root})
    /\ StoreUnchanged

EraseMemory(c) ==
    /\ system = "memory"
    /\ At(c, "erase", "starting")
    /\ Remove(c, With(Root))
    /\ Settle(c, IF RootHeld THEN "erased" ELSE "absent")
    /\ UNCHANGED <<written, profile, changes, touched>>

\* Every record of a corrected category is replaced; no change is consistency.
RectifyMemory(c) ==
    /\ system = "memory"
    /\ At(c, "rectify", "starting")
    /\ LET new == IF RootHeld THEN Corrected(c, Targets(c)) ELSE profile
       IN  /\ WriteProfile(c, new)
           /\ Settle(c, IF new = profile THEN "consistent" ELSE "rectified")
    /\ UNCHANGED <<held, markers, written, changes, steady, took>>

ContactStep(c) ==
    \/ CollectCustomer(c) \/ PagePaymentMethods(c) \/ DeleteCustomer(c)
    \/ ReadCustomer(c) \/ UpdateCustomer(c) \/ StripeRequestFails(c)
    \/ GetContact(c) \/ SearchConversations(c) \/ DeleteContact(c)
    \/ ExportResend(c) \/ EraseResend(c) \/ ResendRequestFails(c)
    \/ IntercomRequestFails(c) \/ ExportMemory(c) \/ EraseMemory(c) \/ RectifyMemory(c)

=============================================================================

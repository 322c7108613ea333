----------------------------- MODULE MCPlanning -----------------------------
(* Users, their orders, and notes that have an author, an editor and an order. *)
EXTENDS Planning

CONSTANTS user, order, note

Key(from, to, name) == [from |-> from, to |-> to, name |-> name]

Customer == Key(order, user, "customer")
Author   == Key(note, user, "author")
Editor   == Key(note, user, "editor")
About    == Key(note, order, "about")
Parent   == Key(note, note, "parent")
Latest   == Key(user, order, "latest")

Along(k)   == [key |-> k, back |-> FALSE]
Against(k) == [key |-> k, back |-> TRUE]

MCTables == {user, order, note}

MCKeys == {Customer, Author, Editor, About, Parent, Latest}

MCLayouts ==
    {{Customer, Author, About, Parent}, {Customer, Author, About, Editor},
     {Customer, Editor, About, Parent}, {Customer, Author, About, Latest},
     {Author, Editor, Parent}}

ReversedLayouts == {{Latest, Author}}

MCMappings == {MCTables, {user, note}, {order, note}}

MCLinks ==
    [t \in MCTables |->
       CASE t = user  -> {<<>>, NoLink}
         [] t = order -> {<<Along(Customer)>>, NoLink, <<>>}
         [] t = note  -> {<<Along(Author)>>, <<Along(Editor)>>, <<Along(About), Along(Customer)>>,
                          <<Along(Parent), Along(Author)>>, <<Along(About)>>, NoLink}]

ReversedLinks ==
    [t \in MCTables |->
       CASE t = user  -> {<<>>}
         [] t = order -> {<<Against(Latest)>>}
         [] t = note  -> {<<Along(Author)>>}]

Nothing == [c \in {} |-> "none"]

Owned == [name |-> "delete"]

MCContents ==
    [t \in MCTables |->
       {Nothing, Owned, [name |-> "anonymize"], [name |-> "delete", total |-> "none"]}
         \cup (IF t = user THEN {} ELSE {[name |-> "delete", total |-> "retain"]})]

ReversedContents == [t \in MCTables |-> {Owned, [name |-> "anonymize"]}]

Own == <<1, 2>>

Straight == [k \in MCKeys |-> IF k = Parent THEN <<0, 1>> ELSE Own]

\* Row 2 of a table refers to rows of the subject, and the subject's to another's.
Crossed ==
    [k \in MCKeys |-> CASE k = Editor -> <<2, 1>>
                        [] k = About  -> <<1, 1>>
                        [] k = Parent -> <<2, 0>>
                        [] OTHER      -> Own]

MCPointings == {Straight, Crossed}

=============================================================================

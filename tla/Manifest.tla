------------------------------ MODULE Manifest ------------------------------
(***************************************************************************)
(* From annotated models to a subject graph: the data map, the two linters *)
(* and the two resolvers.  A path of a subject link is a sequence of hops, *)
(* each along a foreign key or, by an ORM relationship, against it.        *)
(***************************************************************************)
EXTENDS Naturals, Sequences, FiniteSets

CONSTANTS
    Tables,
    Keys,       \* foreign keys a schema may have, as [from, to, name]
    Layouts,    \* the sets of foreign keys modelled
    Mappings,   \* the sets of tables with an ORM mapper
    Links,      \* Links[t]: subject links the model of t may declare
    Contents,   \* Contents[t]: its other columns, each with its annotation
    NoLink      \* no subject link at all

Strategies == {"delete", "anonymize", "retain"}

Hops == [key : Keys, back : BOOLEAN]

ASSUME ManifestAssumption ==
    /\ IsFiniteSet(Tables) /\ NoLink # <<>>
    /\ \A k \in Keys : k.from \in Tables /\ k.to \in Tables
    /\ \A layout \in Layouts : layout \subseteq Keys /\ IsFiniteSet(layout)
    /\ Mappings \subseteq SUBSET Tables
    /\ \A t \in Tables :
         /\ Links[t] \subseteq Seq(Hops) \cup {NoLink}
         /\ \A content \in Contents[t] :
              \A c \in DOMAIN content : content[c] \in Strategies \cup {"none"}

VARIABLES
    keys,       \* the foreign keys of the schema
    mapped,     \* the tables with an ORM mapper
    link,       \* link[t]: the subject link of t
    content     \* content[t]: its columns that are no key

schema == <<keys, mapped, link, content>>

Annotated(t) == {c \in DOMAIN content[t] : content[t][c] # "none"}

\* The tables with an annotation.
collect_data_map == {t \in Tables : link[t] # NoLink \/ Annotated(t) # {}}

\* Every other table, and every other column that is no key.
lint_completeness ==
    {<<t>> : t \in Tables \ collect_data_map}
      \cup UNION {{<<t, c>> : c \in DOMAIN content[t] \ Annotated(t)} : t \in collect_data_map}

SubjectTables == {t \in collect_data_map : link[t] = <<>>}

Subject == CHOOSE t \in SubjectTables : TRUE

Near(hop) == IF hop.back THEN hop.key.to ELSE hop.key.from

Far(hop) == IF hop.back THEN hop.key.from ELSE hop.key.to

\* The table that hop i of a path starts from.
At(t, path, i) == IF i = 1 THEN t ELSE Far(path[i - 1])

EndsAt(path, s) == path # <<>> => Far(path[Len(path)]) = s

\* Every segment names a relationship of the mapper it has come to.
_resolve_path(t, s) ==
    /\ link[t] # NoLink
    /\ t \in mapped
    /\ \A i \in DOMAIN link[t] :
         /\ link[t][i].key \in keys
         /\ Near(link[t][i]) = At(t, link[t], i)
         /\ Far(link[t][i]) \in mapped
    /\ EndsAt(link[t], s)

\* The foreign keys from a table to the one that a segment names.
matches(t, segment) == {k \in keys : k.from = t /\ k.to = Far(segment)}

\* Mutant: the first of several foreign keys is taken.
_resolve_path_any_fk(t, s) ==
    /\ link[t] # NoLink
    /\ \A i \in DOMAIN link[t] : matches(At(t, link[t], i), link[t][i]) # {}
    /\ EndsAt(link[t], s)

\* The same walk without mappers: a single foreign key to every table it names.
_resolve_path_fk(t, s) ==
    /\ link[t] # NoLink
    /\ \A i \in DOMAIN link[t] : Cardinality(matches(At(t, link[t], i), link[t][i])) = 1
    /\ EndsAt(link[t], s)

\* The hops of a path that resolves.
hops(how, t) ==
    IF how = "orm" THEN link[t]
    ELSE [i \in DOMAIN link[t] |->
            [key |-> CHOOSE k \in matches(At(t, link[t], i), link[t][i]) : TRUE,
             back |-> FALSE]]

\* A key within a table does not order it.
_fk_edges(graph) == {k \in keys : k.from \in graph /\ k.to \in graph /\ k.from # k.to}

\* The tables that come off the sorter in its first n rounds: those whose children
\* all came off in the rounds before.
fk_safe_deletion_order(graph) ==
    LET children(t) == {k.from : k \in {k \in _fk_edges(graph) : k.to = t}}
        sorted[n \in 0..Cardinality(graph)] ==
            IF n = 0 THEN {} ELSE {t \in graph : children(t) \subseteq sorted[n - 1]}
    IN  sorted

Cyclic(graph) == fk_safe_deletion_order(graph)[Cardinality(graph)] # graph

resolve_subject_graph ==
    /\ Cardinality(SubjectTables) = 1
    /\ \A t \in collect_data_map : _resolve_path(t, Subject)
    /\ ~Cyclic(collect_data_map)

resolve_subject_graph_from_fk ==
    /\ Cardinality(SubjectTables) = 1
    /\ \A t \in collect_data_map : _resolve_path_fk(t, Subject)
    /\ ~Cyclic(collect_data_map)

\* The Django adapter has tables of annotated models only: a key of theirs to another
\* model refers to nothing, and nothing is built.
build_metadata ==
    \A k \in keys : k.from \in collect_data_map => k.to \in collect_data_map

from_base == resolve_subject_graph

from_manifest == resolve_subject_graph_from_fk

from_models == build_metadata /\ resolve_subject_graph_from_fk

Resolves(how) ==
    \/ how = "orm" /\ from_base
    \/ how = "fk" /\ from_manifest
    \/ how = "django" /\ from_models

\* Mutant: cycles among the tables that are reached are not looked for.
LintOnlyPaths ==
    IF Cardinality(SubjectTables) # 1 THEN {"subject tables"}
    ELSE {"subject table is not mapped" : t \in {Subject} \ mapped}
           \cup {t \in collect_data_map \ {Subject} : ~_resolve_path(t, Subject)}

\* The anchor first, then every path for itself, then cycles of what is reached.
lint_reachability ==
    IF Cardinality(SubjectTables) # 1 THEN {"subject tables"}
    ELSE LET failing == {t \in collect_data_map \ {Subject} : ~_resolve_path(t, Subject)}
         IN  failing
               \cup {"subject table is not mapped" : t \in {Subject} \ mapped}
               \cup {"cycle" : c \in {c \in {TRUE} : Cyclic(collect_data_map \ failing)}}

=============================================================================

--------------------------- MODULE PlanningProofs ---------------------------
(***************************************************************************)
(* Proofs about resolution, planning, execution and verification, for      *)
(* every schema, every declaration and every content of the tables.        *)
(***************************************************************************)
EXTENDS Planning, NaturalBounds

\* What was declared, and what the rows refer to.
SchemaOK ==
    /\ keys \in Layouts /\ mapped \in Mappings
    /\ \A t \in Tables : link[t] \in Links[t] /\ content[t] \in Contents[t]
    /\ how \in {"orm", "fk", "django"}
    /\ points \in Pointings

\* What no step changes.
Declarations == <<schema, how, points>>

LEMMA SchemaFacts ==
    ASSUME SchemaOK
    PROVE  /\ IsFiniteSet(keys) /\ keys \subseteq Keys
           /\ \A k \in keys : k.from \in Tables /\ k.to \in Tables
           /\ \A t \in Tables : link[t] # NoLink => link[t] \in Seq(Hops)
           /\ \A k \in keys : \A i \in Ids : points[k][i] \in Ids \cup {0}
BY ManifestAssumption, PlanningAssumption DEF SchemaOK

LEMMA GraphIsFinite ==
    /\ Graph \subseteq Tables /\ IsFiniteSet(Graph) /\ Cardinality(Graph) \in Nat
    /\ SubjectTables \subseteq Graph /\ IsFiniteSet(SubjectTables)
<1>1. Graph \subseteq Tables /\ SubjectTables \subseteq Graph
  BY DEF Graph, collect_data_map, SubjectTables
<1>2. IsFiniteSet(Graph) /\ IsFiniteSet(SubjectTables)
  BY <1>1, FS_Subset, ManifestAssumption
<1> QED
  BY <1>1, <1>2, FS_CardinalityType

\* A set with one element is that element's.
LEMMA OneElement ==
    ASSUME NEW S, IsFiniteSet(S), Cardinality(S) = 1
    PROVE  \E x \in S : \A y \in S : y = x
BY FS_Singleton

-----------------------------------------------------------------------------
(* The two resolvers and the linter.                                       *)

\* Where exactly one table declares the empty link, it is the subject table.
LEMMA TheSubject ==
    ASSUME Cardinality(SubjectTables) = 1
    PROVE  /\ Subject \in Graph /\ link[Subject] = <<>>
           /\ \A t \in Graph : link[t] = <<>> => t = Subject
<1>1. PICK s \in SubjectTables : \A t \in SubjectTables : t = s
  BY GraphIsFinite, OneElement
<1>2. Subject \in SubjectTables
  BY <1>1 DEF Subject
<1> QED
  BY <1>1, <1>2, GraphIsFinite DEF SubjectTables, Graph

\* The linter's findings are what resolution would raise.
LEMMA LintForetells == LintForetellsResolution
<1>1. ASSUME Cardinality(SubjectTables) = 1, Subject \in mapped
      PROVE  _resolve_path(Subject, Subject)
  <2>1. link[Subject] = <<>> /\ link[Subject] # NoLink
    BY <1>1, TheSubject, ManifestAssumption
  <2>2. DOMAIN link[Subject] = {}
    BY <2>1
  <2> QED
    BY <1>1, <2>1, <2>2 DEF _resolve_path, EndsAt
<1>2. ASSUME Cardinality(SubjectTables) = 1, lint_reachability = {} PROVE resolve_subject_graph
  <2> DEFINE failing == {t \in collect_data_map \ {Subject} : ~_resolve_path(t, Subject)}
  <2>1. /\ failing = {}
        /\ {"subject table is not mapped" : t \in {Subject} \ mapped} = {}
        /\ {"cycle" : c \in {c \in {TRUE} : Cyclic(collect_data_map \ failing)}} = {}
    BY <1>2 DEF lint_reachability
  <2>2. Subject \in mapped
    BY <2>1
  <2>3. ~Cyclic(collect_data_map)
    <3>1. collect_data_map \ failing = collect_data_map
      BY <2>1
    <3>2. ~Cyclic(collect_data_map \ failing)
      BY <2>1
    <3> QED
      BY <3>1, <3>2
  <2> QED
    BY <1>1, <1>2, <2>1, <2>2, <2>3 DEF resolve_subject_graph
<1>3. ASSUME resolve_subject_graph PROVE lint_reachability = {}
  <2> DEFINE failing == {t \in collect_data_map \ {Subject} : ~_resolve_path(t, Subject)}
  <2>1. Cardinality(SubjectTables) = 1
    BY <1>3 DEF resolve_subject_graph
  <2>2. failing = {} /\ Subject \in mapped
    BY <1>3, <2>1, TheSubject DEF resolve_subject_graph, _resolve_path, Graph
  <2>3. ~Cyclic(collect_data_map \ failing)
    <3>1. collect_data_map \ failing = collect_data_map
      BY <2>2
    <3> QED
      BY <1>3, <3>1 DEF resolve_subject_graph
  <2> QED
    BY <2>1, <2>2, <2>3 DEF lint_reachability
<1>4. lint_reachability = {} => Cardinality(SubjectTables) = 1
  BY DEF lint_reachability
<1> QED
  BY <1>2, <1>3, <1>4 DEF LintForetellsResolution

\* The foreign key that a segment names, where there is a single one.
LEMMA TheMatch ==
    ASSUME SchemaOK, NEW t, NEW segment, Cardinality(matches(t, segment)) = 1
    PROVE  /\ (CHOOSE k \in matches(t, segment) : TRUE) \in matches(t, segment)
           /\ \A k \in matches(t, segment) : k = CHOOSE j \in matches(t, segment) : TRUE
<1>1. IsFiniteSet(matches(t, segment))
  BY SchemaFacts, FS_Subset DEF matches
<1> QED
  BY <1>1, OneElement

\* No declared link goes against a foreign key.
NoBackHops ==
    \A t \in Tables : \A l \in Links[t] : l # NoLink => \A i \in DOMAIN l : ~l[i].back

\* A relationship that leads along a foreign key leads along the one that the same
\* segment names without mappers.
LEMMA Agreement ==
    ASSUME NoBackHops, SchemaOK
    PROVE  ResolversAgree
<1> SUFFICES ASSUME resolve_subject_graph, resolve_subject_graph_from_fk, NEW t \in Graph
             PROVE  hops("orm", t) = hops("fk", t)
  BY DEF ResolversAgree
<1>1. /\ _resolve_path(t, Subject) /\ _resolve_path_fk(t, Subject)
      /\ link[t] \in Seq(Hops) /\ t \in Tables
      /\ \A i \in DOMAIN link[t] : ~link[t][i].back
  BY SchemaFacts, GraphIsFinite
     DEF resolve_subject_graph, resolve_subject_graph_from_fk, Graph, _resolve_path,
         NoBackHops, SchemaOK
<1>2. ASSUME NEW i \in DOMAIN link[t]
      PROVE  link[t][i] = [key |-> CHOOSE k \in matches(At(t, link[t], i), link[t][i]) : TRUE,
                           back |-> FALSE]
  <2>1. link[t][i] \in Hops /\ ~link[t][i].back
    BY <1>1
  <2>2. link[t][i].key \in matches(At(t, link[t], i), link[t][i])
    BY <1>1, <2>1 DEF _resolve_path, matches, Near, Far, Hops
  <2>3. Cardinality(matches(At(t, link[t], i), link[t][i])) = 1
    BY <1>1 DEF _resolve_path_fk
  <2>4. link[t][i].key = CHOOSE k \in matches(At(t, link[t], i), link[t][i]) : TRUE
    BY <2>2, <2>3, TheMatch
  <2> QED
    BY <2>1, <2>4 DEF Hops
<1>3. hops("orm", t) = [i \in DOMAIN link[t] |-> link[t][i]]
  BY <1>1 DEF hops
<1> QED
  BY <1>2, <1>3 DEF hops

-----------------------------------------------------------------------------
(* The path of a table whose subject link resolves.                        *)

\* Its hops are foreign keys of the schema, every one starts where the one before ended,
\* and the last one ends at the subject table.
Routed(t) ==
    /\ Path(t) \in Seq(Hops)
    /\ \A p \in DOMAIN Path(t) :
         /\ Path(t)[p].key \in keys
         /\ Near(Path(t)[p]) = At(t, Path(t), p)
    /\ At(t, Path(t), Len(Path(t)) + 1) = Subject

\* No hop of the graph is against its key.
OneWay == \A t \in Graph : \A p \in DOMAIN Path(t) : ~Path(t)[p].back

LEMMA ResolvedHas ==
    ASSUME Resolves(how)
    PROVE  /\ Cardinality(SubjectTables) = 1
           /\ ~Cyclic(Graph)
           /\ \A t \in Graph : IF how = "orm" THEN _resolve_path(t, Subject)
                                ELSE _resolve_path_fk(t, Subject)
BY DEF Resolves, from_base, from_manifest, from_models, resolve_subject_graph,
       resolve_subject_graph_from_fk, Graph

\* The last table of a path that ends at the subject table.
LEMMA LastTable ==
    ASSUME NEW t, NEW path \in Seq(Hops), NEW s, EndsAt(path, s), path = <<>> => t = s
    PROVE  At(t, path, Len(path) + 1) = s
<1>1. CASE path = <<>>
  BY <1>1 DEF At
<1>2. CASE path # <<>>
  <2>1. Len(path) \in Nat /\ Len(path) # 0
    BY <1>2
  <2>2. Len(path) + 1 # 1 /\ Len(path) + 1 - 1 = Len(path)
    BY <2>1
  <2> QED
    BY <1>2, <2>2 DEF At, EndsAt
<1> QED
  BY <1>1, <1>2

LEMMA MapperPath ==
    ASSUME SchemaOK, Resolves(how), how = "orm", NEW t \in Graph
    PROVE  Routed(t)
<1>1. _resolve_path(t, Subject) /\ Path(t) = link[t] /\ t \in Tables
  BY ResolvedHas, GraphIsFinite DEF Path, hops
<1>2. link[t] \in Seq(Hops)
  BY <1>1, SchemaFacts DEF _resolve_path
<1>3. At(t, link[t], Len(link[t]) + 1) = Subject
  BY <1>1, <1>2, LastTable, ResolvedHas, TheSubject DEF _resolve_path
<1> QED
  BY <1>1, <1>2, <1>3 DEF _resolve_path, Routed

LEMMA KeyPath ==
    ASSUME SchemaOK, Resolves(how), how # "orm", NEW t \in Graph
    PROVE  /\ Routed(t)
           /\ \A p \in DOMAIN Path(t) : ~Path(t)[p].back
<1> DEFINE The(i) == CHOOSE k \in matches(At(t, link[t], i), link[t][i]) : TRUE
<1>1. _resolve_path_fk(t, Subject) /\ t \in Tables
  BY ResolvedHas, GraphIsFinite
<1>2. link[t] \in Seq(Hops)
  BY <1>1, SchemaFacts DEF _resolve_path_fk
<1>3. Path(t) = [i \in DOMAIN link[t] |-> [key |-> The(i), back |-> FALSE]]
  BY DEF Path, hops
<1>4. ASSUME NEW i \in DOMAIN link[t]
      PROVE  /\ The(i) \in keys /\ The(i) \in Keys
             /\ The(i).from = At(t, link[t], i) /\ The(i).to = Far(link[t][i])
  <2>1. The(i) \in matches(At(t, link[t], i), link[t][i])
    BY <1>1, <1>4, TheMatch DEF _resolve_path_fk
  <2>2. The(i) \in keys /\ The(i).from = At(t, link[t], i) /\ The(i).to = Far(link[t][i])
    BY <2>1 DEF matches
  <2> QED
    BY <2>2, SchemaFacts
<1> HIDE DEF The
<1>5. /\ DOMAIN link[t] = 1..Len(link[t]) /\ Len(link[t]) \in Nat
  BY <1>2
<1>6. \A i \in DOMAIN link[t] : [key |-> The(i), back |-> FALSE] \in Hops
  BY <1>4 DEF Hops
<1>7. Path(t) \in Seq(Hops) /\ Len(Path(t)) = Len(link[t]) /\ DOMAIN Path(t) = DOMAIN link[t]
  BY <1>3, <1>5, <1>6
<1>8. \A i \in DOMAIN link[t] :
         /\ Path(t)[i].key = The(i) /\ Path(t)[i].back = FALSE
         /\ Near(Path(t)[i]) = The(i).from /\ Far(Path(t)[i]) = Far(link[t][i])
  BY <1>3, <1>4 DEF Near, Far
<1>9. \A p \in 1..Len(link[t]) + 1 : At(t, Path(t), p) = At(t, link[t], p)
  <2>1. ASSUME NEW p \in 1..Len(link[t]) + 1, p # 1 PROVE p - 1 \in DOMAIN link[t]
    BY <1>5, <2>1
  <2> QED
    BY <1>8, <2>1 DEF At
<1>10. At(t, link[t], Len(link[t]) + 1) = Subject
  BY <1>1, <1>2, LastTable, ResolvedHas, TheSubject DEF _resolve_path_fk
<1>11. At(t, Path(t), Len(Path(t)) + 1) = Subject
  BY <1>5, <1>7, <1>9, <1>10
<1>12. \A p \in DOMAIN Path(t) : /\ Path(t)[p].key \in keys /\ ~Path(t)[p].back
                                /\ Near(Path(t)[p]) = At(t, Path(t), p)
  BY <1>4, <1>5, <1>7, <1>8, <1>9
<1> QED
  BY <1>7, <1>11, <1>12 DEF Routed

LEMMA Resolved ==
    ASSUME SchemaOK, Resolves(how)
    PROVE  \A t \in Graph : Routed(t)
BY MapperPath, KeyPath

\* Graphs from foreign keys have no hop against a key, and none has where no link goes
\* against one.
LEMMA WhenOneWay ==
    ASSUME SchemaOK, Resolves(how), how # "orm" \/ NoBackHops
    PROVE  OneWay
<1>1. CASE how # "orm"
  BY <1>1, KeyPath DEF OneWay
<1>2. CASE how = "orm" /\ NoBackHops
  BY <1>2, ResolvedHas, GraphIsFinite DEF OneWay, Path, hops, _resolve_path, NoBackHops, SchemaOK
<1> QED
  BY <1>1, <1>2

\* Every table that a path goes through is a table of the schema.
LEMMA PathTables ==
    ASSUME SchemaOK, NEW t \in Tables, Routed(t)
    PROVE  /\ Len(Path(t)) \in Nat /\ DOMAIN Path(t) = 1..Len(Path(t))
           /\ \A p \in 1..Len(Path(t)) + 1 : At(t, Path(t), p) \in Tables
           /\ \A p \in 1..Len(Path(t)) : At(t, Path(t), p + 1) = Far(Path(t)[p])
           /\ Subject \in Tables
<1>1. Len(Path(t)) \in Nat /\ DOMAIN Path(t) = 1..Len(Path(t))
  BY DEF Routed
<1>2. \A p \in 1..Len(Path(t)) : Far(Path(t)[p]) \in Tables
  BY <1>1, SchemaFacts DEF Routed, Far
<1>3. \A p \in 1..Len(Path(t)) + 1 : p = 1 \/ p - 1 \in 1..Len(Path(t))
  BY <1>1
<1>4. \A p \in 1..Len(Path(t)) + 1 : At(t, Path(t), p) \in Tables
  BY <1>2, <1>3 DEF At
<1>5. \A p \in 1..Len(Path(t)) : p + 1 # 1 /\ p + 1 - 1 = p
  BY <1>1
<1>6. \A p \in 1..Len(Path(t)) : At(t, Path(t), p + 1) = Far(Path(t)[p])
  BY <1>5 DEF At
<1>7. Len(Path(t)) + 1 \in 1..Len(Path(t)) + 1
  BY <1>1
<1> QED
  BY <1>1, <1>4, <1>6, <1>7 DEF Routed

-----------------------------------------------------------------------------
(* The rows of a subject: the nested subqueries, read from the outside in. *)

\* S[p] holds the rows of the path's p-th table from which the rest of it leads to u.
Nested(S, db, t, u) ==
    /\ S \in [1..Len(Path(t)) + 1 -> SUBSET Ids]
    /\ S[Len(Path(t)) + 1] = db[Subject] \cap {u}
    /\ \A p \in 1..Len(Path(t)) :
         S[p] = {i \in db[At(t, Path(t), p)] : \E j \in S[p + 1] : Joins(Path(t)[p], i, j)}

LEMMA ScopeIsNested ==
    ASSUME SchemaOK, NEW t \in Tables, Routed(t), NEW db \in [Tables -> SUBSET Ids], NEW u
    PROVE  \E S : Nested(S, db, t, u) /\ Scope(db, t, u) = S[1]
<1> DEFINE
      path == Path(t)
      N == Len(path)
      Step(n, S) == LET p == N - n + 1
                    IN  {i \in db[At(t, path, p)] : \E j \in S : Joins(path[p], i, j)}
      F == [n \in 1..N |-> [S \in SUBSET Ids |-> Step(n, S)]]
      a == db[Subject] \cap {u}
<1>1. /\ N \in Nat /\ Subject \in Tables
      /\ \A n \in 1..N : N - n + 1 \in 1..N + 1 /\ At(t, path, N - n + 1) \in Tables
  BY PathTables
<1>2. \A n \in 1..N, S \in SUBSET Ids : Step(n, S) \in SUBSET Ids
  BY <1>1
<1>3. a \in SUBSET Ids
  BY <1>1
<1>4. F \in [1..N -> [SUBSET Ids -> SUBSET Ids]]
  <2> HIDE DEF Step, N
  <2> QED
    BY <1>2
<1>5. PICK g \in [0..N -> SUBSET Ids] : g[0] = a /\ \A n \in 1..N : g[n] = F[n][g[n - 1]]
  <2> DEFINE D == SUBSET Ids
  <2>1. a \in D /\ F \in StepFunctions(N, D)
    BY <1>3, <1>4 DEF StepFunctions
  <2> HIDE DEF F, N, D, a
  <2>2. HasRun(N, D, a, F)
    BY <1>1, <2>1, StepsExist
  <2> QED
    BY <2>2 DEF D, HasRun
<1>6. \A n \in 1..N : n - 1 \in 0..N /\ n \in 0..N /\ g[n] = Step(n, g[n - 1])
  <2>1. \A n \in 1..N, S \in SUBSET Ids : F[n][S] = Step(n, S)
    <3> HIDE DEF Step, N
    <3> QED
      OBVIOUS
  <2>2. \A n \in 1..N : n - 1 \in 0..N /\ n \in 0..N
    <3> HIDE DEF N
    <3> QED
      BY <1>1
  <2> HIDE DEF Step, N, F
  <2> QED
    BY <1>5, <2>1, <2>2
<1> HIDE DEF F
<1>7. PICK f : /\ f = [n \in 0..N |-> IF n = 0 THEN db[Subject] \cap {u}
                                      ELSE LET p == N - n + 1
                                           IN  {i \in db[At(t, path, p)] :
                                                  \E j \in f[n - 1] : Joins(path[p], i, j)}]
               /\ Scope(db, t, u) = f[N]
  <2> DEFINE body(f, n) == IF n = 0 THEN db[Subject] \cap {u}
                           ELSE LET p == N - n + 1
                                IN  {i \in db[At(t, path, p)] :
                                       \E j \in f[n - 1] : Joins(path[p], i, j)}
  <2>1. \A n \in 0..N : g[n] = body(g, n)
    <3>1. ASSUME NEW n \in 0..N PROVE n = 0 \/ n \in 1..N
      BY <1>1
    <3> QED
      BY <1>5, <1>6, <3>1
  <2>2. g = [n \in 0..N |-> body(g, n)]
    <3> HIDE DEF body, N
    <3> QED
      BY <1>5, <2>1
  <2>3. \E f : f = [n \in 0..N |-> body(f, n)]
    BY <2>2
  <2>4. Scope(db, t, u) = (CHOOSE f : f = [n \in 0..N |-> body(f, n)])[N]
    BY Zenon DEF Scope
  <2> QED
    BY <2>3, <2>4, Zenon
<1>8. /\ f[0] = a
      /\ \A n \in 1..N : n \in 0..N /\ n # 0 /\ f[n] = Step(n, f[n - 1])
  <2>1. 0 \in 0..N /\ \A n \in 1..N : n \in 0..N /\ n # 0
    BY <1>1
  <2> HIDE DEF N
  <2> QED
    BY <1>7, <2>1
<1>9. \A n \in 0..N : f[n] \in SUBSET Ids
  <2>1. \A n \in 1..N : f[n] \in SUBSET Ids
    BY <1>1, <1>8
  <2>2. \A n \in 0..N : n = 0 \/ n \in 1..N
    BY <1>1
  <2> QED
    BY <1>3, <1>8, <2>1, <2>2
<1> DEFINE S == [p \in 1..N + 1 |-> f[N - p + 1]]
<1>10. \A p \in 1..N + 1 : N - p + 1 \in 0..N /\ S[p] = f[N - p + 1]
  BY <1>1
<1>11. S \in [1..N + 1 -> SUBSET Ids]
  BY <1>9, <1>10
<1>12. S[N + 1] = a /\ S[1] = f[N]
  <2>1. /\ N + 1 \in 1..N + 1 /\ 1 \in 1..N + 1
        /\ N - (N + 1) + 1 = 0 /\ N - 1 + 1 = N
    BY <1>1
  <2> HIDE DEF S, N
  <2> QED
    BY <1>8, <1>10, <2>1
<1>13. ASSUME NEW p \in 1..N
       PROVE  S[p] = {i \in db[At(t, path, p)] : \E j \in S[p + 1] : Joins(path[p], i, j)}
  <2> DEFINE n == N - p + 1
  <2>1. /\ n \in 1..N /\ N - n + 1 = p /\ n - 1 = N - (p + 1) + 1
        /\ p \in 1..N + 1 /\ p + 1 \in 1..N + 1
    BY <1>1
  <2>2. S[p] = f[n] /\ S[p + 1] = f[n - 1]
    <3> HIDE DEF S, N
    <3> QED
      BY <1>10, <2>1
  <2>3. f[n] = Step(n, f[n - 1])
    BY <1>8, <2>1
  <2> HIDE DEF n, S
  <2> QED
    BY <2>1, <2>2, <2>3
<1> HIDE DEF S
<1> QED
  BY <1>7, <1>11, <1>12, <1>13 DEF Nested

\* What a table's foreign keys refer to is there.
Referential(db) == \A k \in keys : \A i \in db[k.from] : points[k][i] \in db[k.to] \cup {0}

\* A scope is a set of rows of its table, and more rows never make it smaller.
LEMMA ScopeGrows ==
    ASSUME SchemaOK, NEW t \in Tables, Routed(t), NEW u,
           NEW db \in [Tables -> SUBSET Ids], NEW wider \in [Tables -> SUBSET Ids],
           \A s \in Tables : db[s] \subseteq wider[s]
    PROVE  Scope(db, t, u) \subseteq Scope(wider, t, u)
<1> DEFINE N == Len(Path(t))
<1>1. PICK S : Nested(S, db, t, u) /\ Scope(db, t, u) = S[1]
  BY ScopeIsNested
<1>2. PICK W : Nested(W, wider, t, u) /\ Scope(wider, t, u) = W[1]
  BY ScopeIsNested
<1> DEFINE bad == {p \in 1..N + 1 : ~(S[p] \subseteq W[p])}
<1>3. N \in Nat /\ Subject \in Tables /\ \A p \in 1..N + 1 : At(t, Path(t), p) \in Tables
  BY PathTables
<1>4. SUFFICES ASSUME bad # {} PROVE FALSE
  <2>1. 1 \in 1..N + 1
    BY <1>3
  <2> QED
    BY <1>1, <1>2, <1>4, <2>1
<1>5. PICK p \in bad : p + 1 \notin bad
  <2>1. N + 1 \in Nat /\ bad \in SUBSET (1..N + 1)
    BY <1>3
  <2> HIDE DEF bad, N
  <2> QED
    BY <1>4, <2>1, LastOf
<1>6. p # N + 1
  <2>1. S[N + 1] \subseteq W[N + 1]
    BY <1>1, <1>2, <1>3 DEF Nested
  <2> QED
    BY <2>1
<1>7. p \in 1..N /\ p + 1 \in 1..N + 1
  BY <1>3, <1>6
<1>8. S[p + 1] \subseteq W[p + 1]
  BY <1>5, <1>7
<1>9. S[p] \subseteq W[p]
  <2>1. db[At(t, Path(t), p)] \subseteq wider[At(t, Path(t), p)]
    BY <1>3
  <2> QED
    BY <1>1, <1>2, <1>7, <1>8, <2>1 DEF Nested
<1> QED
  BY <1>9

LEMMA ScopeWithin ==
    ASSUME SchemaOK, NEW t \in Tables, Routed(t), NEW db \in [Tables -> SUBSET Ids], NEW u
    PROVE  Scope(db, t, u) \subseteq db[t] /\ Scope(db, t, u) \subseteq Ids
<1>1. PICK S : Nested(S, db, t, u) /\ Scope(db, t, u) = S[1]
  BY ScopeIsNested
<1>2. At(t, Path(t), 1) = t /\ Len(Path(t)) \in Nat
  BY PathTables DEF At
<1>3. CASE Len(Path(t)) = 0
  BY <1>1, <1>2, <1>3 DEF Nested, Routed
<1>4. CASE Len(Path(t)) # 0
  <2>1. 1 \in 1..Len(Path(t))
    BY <1>2, <1>4
  <2> QED
    BY <1>1, <1>2, <2>1 DEF Nested
<1> QED
  BY <1>3, <1>4

\* As long as references do not dangle, a row that is still there is in a scope exactly if
\* it always was: the rows that lead from it to the subject are there with it.
LEMMA ScopeKept ==
    ASSUME SchemaOK, NEW t \in Tables, Routed(t), \A p \in DOMAIN Path(t) : ~Path(t)[p].back,
           NEW db \in [Tables -> SUBSET Ids], Referential(db), NEW u
    PROVE  Scope(db, t, u) = db[t] \cap Scope(Full, t, u)
<1> DEFINE N == Len(Path(t))
<1>0. Full \in [Tables -> SUBSET Ids] /\ \A s \in Tables : Full[s] = Ids
  BY DEF Full
<1>1. PICK S : Nested(S, db, t, u) /\ Scope(db, t, u) = S[1]
  BY ScopeIsNested
<1>2. PICK W : Nested(W, Full, t, u) /\ Scope(Full, t, u) = W[1]
  BY <1>0, ScopeIsNested
<1> DEFINE bad == {p \in 1..N + 1 : S[p] # db[At(t, Path(t), p)] \cap W[p]}
<1>3. /\ N \in Nat /\ Subject \in Tables /\ \A p \in 1..N + 1 : At(t, Path(t), p) \in Tables
      /\ \A p \in 1..N : At(t, Path(t), p + 1) = Far(Path(t)[p])
      /\ DOMAIN Path(t) = 1..N
  BY PathTables
<1>4. SUFFICES ASSUME bad # {} PROVE FALSE
  <2>1. 1 \in 1..N + 1 /\ At(t, Path(t), 1) = t
    BY <1>3 DEF At
  <2> QED
    BY <1>1, <1>2, <1>4, <2>1
<1>5. PICK p \in bad : p + 1 \notin bad
  <2>1. N + 1 \in Nat /\ bad \in SUBSET (1..N + 1)
    BY <1>3
  <2> HIDE DEF bad, N
  <2> QED
    BY <1>4, <2>1, LastOf
<1>6. p # N + 1
  <2>1. S[N + 1] = db[At(t, Path(t), N + 1)] \cap W[N + 1]
    BY <1>0, <1>1, <1>2, <1>3 DEF Nested, Routed
  <2> QED
    BY <2>1
<1>7. p \in 1..N /\ p + 1 \in 1..N + 1
  BY <1>3, <1>6
<1> DEFINE hop == Path(t)[p]
           near == At(t, Path(t), p)
<1>8. /\ ~hop.back /\ hop.key \in keys /\ near = hop.key.from
      /\ At(t, Path(t), p + 1) = hop.key.to /\ near \in Tables
  BY <1>3, <1>7 DEF Routed, Near, Far
<1>9. S[p + 1] = db[hop.key.to] \cap W[p + 1]
  BY <1>5, <1>7, <1>8
<1>10. /\ S[p] = {i \in db[near] : \E j \in S[p + 1] : points[hop.key][i] = j}
       /\ W[p] = {i \in Ids : \E j \in W[p + 1] : points[hop.key][i] = j}
       /\ W[p + 1] \subseteq Ids
  <2>1. \A i, j : Joins(hop, i, j) <=> points[hop.key][i] = j
    BY <1>8 DEF Joins
  <2>2. S[p] = {i \in db[near] : \E j \in S[p + 1] : Joins(hop, i, j)}
    BY <1>1, <1>7 DEF Nested
  <2>3. W[p] = {i \in Full[near] : \E j \in W[p + 1] : Joins(hop, i, j)}
    BY <1>2, <1>7 DEF Nested
  <2>4. W[p + 1] \subseteq Ids /\ Full[near] = Ids
    BY <1>0, <1>2, <1>7, <1>8 DEF Nested
  <2> HIDE DEF hop, near
  <2> QED
    BY <2>1, <2>2, <2>3, <2>4
<1>11. \A i \in db[near] : points[hop.key][i] \in db[hop.key.to] \cup {0}
  BY <1>8 DEF Referential
<1>12. db[near] \subseteq Ids
  BY <1>8
<1>13. S[p] = db[near] \cap W[p]
  <2> HIDE DEF hop, near, N, bad
  <2> QED
    BY <1>9, <1>10, <1>11, <1>12, PlanningAssumption
<1> QED
  BY <1>13

\* A walk along the path that ends at u starts in the scope of u.
LEMMA WalksStartInScope ==
    ASSUME SchemaOK, NEW t \in Tables, Routed(t), rows \in [Tables -> SUBSET Ids], NEW u \in Ids,
           NEW expired, NEW walk \in _attribution_statement(t, expired, u)
    PROVE  walk[1] \in expired \cap Scope(rows, t, u)
<1> DEFINE N == Len(Path(t))
<1>1. PICK S : Nested(S, rows, t, u) /\ Scope(rows, t, u) = S[1]
  BY ScopeIsNested
<1>2. /\ N \in Nat /\ DOMAIN Path(t) = 1..N
      /\ \A p \in 1..N : At(t, Path(t), p + 1) = Far(Path(t)[p])
      /\ At(t, Path(t), 1) = t /\ At(t, Path(t), N + 1) = Subject
  BY PathTables DEF At, Routed
<1>3. /\ walk[1] \in expired \cap rows[t] /\ walk[N + 1] = u
      /\ \A p \in 1..N : /\ walk[p + 1] \in rows[Far(Path(t)[p])]
                         /\ Joins(Path(t)[p], walk[p], walk[p + 1])
  BY <1>2 DEF _attribution_statement
<1>4. \A p \in 1..N + 1 : walk[p] \in rows[At(t, Path(t), p)]
  <2>1. ASSUME NEW p \in 1..N + 1, p # 1 PROVE p - 1 \in 1..N /\ p - 1 + 1 = p
    BY <1>2, <2>1
  <2>2. ASSUME NEW p \in 1..N + 1, p # 1 PROVE walk[p] \in rows[At(t, Path(t), p)]
    <3> DEFINE q == p - 1
    <3>1. q \in 1..N /\ q + 1 = p
      BY <2>1, <2>2
    <3> HIDE DEF q, N
    <3>2. walk[q + 1] \in rows[Far(Path(t)[q])] /\ At(t, Path(t), q + 1) = Far(Path(t)[q])
      BY <1>2, <1>3, <3>1
    <3> QED
      BY <3>1, <3>2
  <2> QED
    BY <1>2, <1>3, <2>2
<1> DEFINE bad == {p \in 1..N + 1 : walk[p] \notin S[p]}
<1>5. SUFFICES ASSUME bad # {} PROVE FALSE
  <2>1. 1 \in 1..N + 1
    BY <1>2
  <2> QED
    BY <1>1, <1>3, <1>5, <2>1
<1>6. PICK p \in bad : p + 1 \notin bad
  <2>1. N + 1 \in Nat /\ bad \in SUBSET (1..N + 1)
    BY <1>2
  <2> HIDE DEF bad, N
  <2> QED
    BY <1>5, <2>1, LastOf
<1>7. p # N + 1
  <2>1. N + 1 \in 1..N + 1
    BY <1>2
  <2>2. walk[N + 1] \in S[N + 1]
    BY <1>1, <1>2, <1>3, <1>4, <2>1 DEF Nested
  <2> QED
    BY <2>2
<1>8. p \in 1..N /\ p \in 1..N + 1 /\ p + 1 \in 1..N + 1
  BY <1>2, <1>7
<1>9. walk[p + 1] \in S[p + 1]
  BY <1>6, <1>8
<1>10. walk[p] \in S[p]
  BY <1>1, <1>3, <1>4, <1>8, <1>9 DEF Nested
<1> QED
  BY <1>10

\* From every row of the scope such a walk exists, from each row to one of the next set.
LEMMA ScopesAreWalked ==
    ASSUME SchemaOK, NEW t \in Tables, Routed(t), rows \in [Tables -> SUBSET Ids], NEW u \in Ids,
           NEW expired, NEW i \in expired \cap Scope(rows, t, u)
    PROVE  \E walk \in _attribution_statement(t, expired, u) : walk[1] = i
<1> DEFINE
      N == Len(Path(t))
      Joined(S, p, j) == {k \in S[p + 1] : Joins(Path(t)[p], j, k)}
<1>1. PICK S : Nested(S, rows, t, u) /\ Scope(rows, t, u) = S[1]
  BY ScopeIsNested
<1>2. /\ N \in Nat /\ DOMAIN Path(t) = 1..N
      /\ \A p \in 1..N : At(t, Path(t), p + 1) = Far(Path(t)[p])
      /\ \A p \in 1..N + 1 : At(t, Path(t), p) \in Tables
      /\ At(t, Path(t), 1) = t /\ At(t, Path(t), N + 1) = Subject
  BY PathTables DEF At, Routed
<1>3. /\ \A p \in 1..N : \A j \in S[p] : Joined(S, p, j) # {}
      /\ \A p \in 1..N + 1 : S[p] \subseteq Ids
      /\ S[N + 1] \subseteq rows[Subject] \cap {u}
      /\ \A p \in 1..N : S[p] \subseteq rows[At(t, Path(t), p)]
  BY <1>1, <1>2 DEF Nested
<1>4. \A p \in 1..N + 1 : S[p] \subseteq rows[At(t, Path(t), p)]
  <2>1. ASSUME NEW p \in 1..N + 1 PROVE p \in 1..N \/ p = N + 1
    BY <1>2
  <2> QED
    BY <1>2, <1>3, <2>1
<1> DEFINE
      F == [n \in 1..N |-> [j \in Ids |-> IF j \in S[n] THEN CHOOSE k \in Joined(S, n, j) : TRUE
                                        ELSE j]]
<1>5. ASSUME NEW n \in 1..N, NEW j \in S[n]
      PROVE  (CHOOSE k \in Joined(S, n, j) : TRUE) \in Joined(S, n, j)
  BY <1>3
<1>6. \A n \in 1..N : n \in 1..N + 1 /\ n + 1 \in 1..N + 1
  BY <1>2
<1>7. /\ \A n \in 1..N, j \in Ids : F[n][j] \in Ids
      /\ \A n \in 1..N : \A j \in S[n] : F[n][j] \in Joined(S, n, j)
  <2> HIDE DEF N
  <2> QED
    BY <1>3, <1>5, <1>6
<1>8. PICK g \in [0..N -> Ids] : g[0] = i /\ \A n \in 1..N : g[n] = F[n][g[n - 1]]
  <2>1. i \in Ids /\ F \in StepFunctions(N, Ids)
    <3>1. i \in Ids
      BY ScopeWithin
    <3> HIDE DEF N
    <3> QED
      BY <1>7, <3>1 DEF StepFunctions
  <2> HIDE DEF F, N
  <2>2. HasRun(N, Ids, i, F)
    BY <1>2, <2>1, StepsExist
  <2> QED
    BY <2>2 DEF HasRun
<1> HIDE DEF F
<1>9. \A n \in 0..N : g[n] \in S[n + 1]
  <2> DEFINE bad == {n \in 0..N : g[n] \notin S[n + 1]}
  <2>1. SUFFICES ASSUME bad # {} PROVE FALSE
    OBVIOUS
  <2>2. PICK n \in bad : \A m \in bad : n <= m
    <3>1. bad \in SUBSET Nat
      BY <1>2
    <3> HIDE DEF bad
    <3> QED
      BY <2>1, <3>1, LeastNat
  <2>3. n # 0
    BY <1>1, <1>8
  <2>4. n \in 1..N /\ n - 1 \in 0..N /\ ~(n <= n - 1) /\ n - 1 + 1 = n
    BY <1>2, <2>3
  <2>5. g[n - 1] \in S[n]
    BY <2>2, <2>4
  <2>6. g[n] \in Joined(S, n, g[n - 1])
    BY <1>7, <1>8, <2>4, <2>5
  <2> QED
    BY <2>6
<1> DEFINE walk == [p \in 1..N + 1 |-> g[p - 1]]
<1>10. \A p \in 1..N + 1 : p - 1 \in 0..N /\ p - 1 + 1 = p
  BY <1>2
<1>11. \A p \in 1..N + 1 : walk[p] = g[p - 1] /\ walk[p] \in S[p] /\ walk[p] \in Ids
  <2>1. ASSUME NEW p \in 1..N + 1 PROVE g[p - 1] \in S[p] /\ walk[p] = g[p - 1]
    <3> DEFINE q == p - 1
    <3>1. q \in 0..N /\ q + 1 = p
      BY <1>10
    <3> HIDE DEF q, N
    <3>2. g[q] \in S[q + 1]
      BY <1>9, <3>1
    <3> QED
      BY <3>1, <3>2 DEF q
  <2> QED
    BY <1>3, <2>1
<1>12. walk \in [1..N + 1 -> Ids]
  BY <1>11
<1>13. walk[1] = i /\ walk[N + 1] = u
  <2>1. 1 \in 1..N + 1 /\ N + 1 \in 1..N + 1 /\ 1 - 1 = 0
    BY <1>2
  <2> QED
    BY <1>3, <1>8, <1>11, <2>1
<1>14. ASSUME NEW p \in 1..N
       PROVE  /\ walk[p + 1] \in rows[Far(Path(t)[p])]
              /\ Joins(Path(t)[p], walk[p], walk[p + 1])
  <2>1. p \in 1..N + 1 /\ p + 1 \in 1..N + 1 /\ p + 1 - 1 = p /\ p - 1 \in 0..N
    BY <1>2
  <2>2. walk[p + 1] = g[p] /\ walk[p] = g[p - 1] /\ walk[p] \in S[p] /\ walk[p] \in Ids
    <3> HIDE DEF walk
    <3> QED
      BY <1>11, <2>1
  <2>3. g[p] = F[p][g[p - 1]]
    BY <1>8
  <2> HIDE DEF walk
  <2>4. walk[p + 1] \in Joined(S, p, walk[p])
    BY <1>7, <2>2, <2>3
  <2>5. S[p + 1] \subseteq rows[Far(Path(t)[p])]
    BY <1>2, <1>4, <2>1
  <2> QED
    BY <2>4, <2>5
<1>15. walk \in _attribution_statement(t, expired, u)
  <2>1. walk[1] \in expired \cap rows[t]
    BY <1>13, ScopeWithin
  <2> HIDE DEF walk
  <2> QED
    BY <1>2, <1>12, <1>13, <1>14, <2>1 DEF _attribution_statement
<1> QED
  BY <1>13, <1>15

-----------------------------------------------------------------------------
(* The deletion order, and the round that the execution has come to.       *)

\* The tables with a key to t.
Children(graph, t) == {k.from : k \in {k \in _fk_edges(graph) : k.to = t}}

LEMMA OrderIs ==
    ASSUME NEW graph, Cardinality(graph) \in Nat
    PROVE  /\ fk_safe_deletion_order(graph) \in [0..Cardinality(graph) -> SUBSET graph]
           /\ fk_safe_deletion_order(graph)[0] = {}
           /\ \A n \in 1..Cardinality(graph) :
                fk_safe_deletion_order(graph)[n] =
                  {t \in graph : Children(graph, t) \subseteq fk_safe_deletion_order(graph)[n - 1]}
<1> DEFINE
      N == Cardinality(graph)
      Off(S) == {t \in graph : Children(graph, t) \subseteq S}
      F == [n \in 1..N |-> [S \in SUBSET graph |-> Off(S)]]
<1>1. \A S : Off(S) \in SUBSET graph
  OBVIOUS
<1>2. PICK g \in [0..N -> SUBSET graph] : g[0] = {} /\ \A n \in 1..N : g[n] = F[n][g[n - 1]]
  <2> DEFINE D == SUBSET graph
             a == {}
  <2>1. a \in D /\ F \in StepFunctions(N, D)
    <3> HIDE DEF Off, N
    <3> QED
      BY <1>1 DEF StepFunctions
  <2> HIDE DEF F, N, D, a
  <2>2. HasRun(N, D, a, F)
    BY <2>1, StepsExist DEF N
  <2> QED
    BY <2>2 DEF D, a, HasRun
<1>3. \A n \in 1..N : n - 1 \in 0..N /\ n \in 0..N /\ g[n] = Off(g[n - 1])
  <2>1. \A n \in 1..N, S \in SUBSET graph : F[n][S] = Off(S)
    <3> HIDE DEF Off, N
    <3> QED
      OBVIOUS
  <2>2. \A n \in 1..N : n - 1 \in 0..N /\ n \in 0..N
    OBVIOUS
  <2> HIDE DEF Off, N, F
  <2> QED
    BY <1>2, <2>1, <2>2
<1> HIDE DEF F
<1> DEFINE children(t) == {k.from : k \in {k \in _fk_edges(graph) : k.to = t}}
           body(f, n) == IF n = 0 THEN {} ELSE {t \in graph : children(t) \subseteq f[n - 1]}
           sorted == fk_safe_deletion_order(graph)
<1>4. \A n \in 0..N : g[n] = body(g, n)
  <2>1. ASSUME NEW n \in 0..N PROVE n = 0 \/ n \in 1..N
    OBVIOUS
  <2> QED
    BY <1>2, <1>3, <2>1 DEF Children
<1>5. g = [n \in 0..N |-> body(g, n)]
  <2> HIDE DEF body, N
  <2> QED
    BY <1>2, <1>4
<1>6. \E f : f = [n \in 0..N |-> body(f, n)]
  BY <1>5
<1>7. sorted = CHOOSE f : f = [n \in 0..N |-> body(f, n)]
  BY Zenon DEF fk_safe_deletion_order
<1>8. sorted = [n \in 0..N |-> body(sorted, n)]
  <2> HIDE DEF sorted, body
  <2> QED
    BY <1>6, <1>7, Zenon
<1> HIDE DEF sorted
<1>9. /\ sorted[0] = {}
      /\ \A n \in 1..N : sorted[n] = Off(sorted[n - 1])
  <2>1. 0 \in 0..N /\ \A n \in 1..N : n \in 0..N /\ n # 0
    OBVIOUS
  <2> HIDE DEF N
  <2> QED
    BY <1>8, <2>1 DEF Children
<1>10. \A n \in 0..N : sorted[n] \in SUBSET graph
  <2>1. ASSUME NEW n \in 0..N PROVE n = 0 \/ n \in 1..N
    OBVIOUS
  <2> QED
    BY <1>9, <2>1
<1> QED
  BY <1>8, <1>9, <1>10 DEF sorted

\* Off the sorter come tables that are still to do, after every table that refers to them;
\* and while there is something to do, some do come off.
LEMMA RoundIs ==
    ASSUME ~Cyclic(Graph), done \subseteq Graph, done # Graph
    PROVE  /\ Round # {} /\ Round \subseteq Graph \ done
           /\ \A k \in _fk_edges(Graph) : k.to \in Round => k.from \in done
<1> DEFINE sorted == fk_safe_deletion_order(Graph)
           N == Cardinality(Graph)
           Stop(n) == sorted[n] \subseteq done /\ ~(sorted[n + 1] \subseteq done)
<1>1. /\ N \in Nat
      /\ sorted \in [0..N -> SUBSET Graph] /\ sorted[0] = {}
      /\ \A n \in 1..N : sorted[n] = {t \in Graph : Children(Graph, t) \subseteq sorted[n - 1]}
  BY GraphIsFinite, OrderIs
<1>2. sorted[N] = Graph
  BY DEF Cyclic
<1> HIDE DEF sorted
<1>3. \E n \in DOMAIN sorted : Stop(n)
  <2> DEFINE S == {n \in 0..N : ~(sorted[n] \subseteq done)}
  <2>1. N \in S /\ S \in SUBSET Nat
    <3>1. ~(Graph \subseteq done)
      OBVIOUS
    <3> HIDE DEF N
    <3> QED
      BY <1>1, <1>2, <3>1
  <2>2. PICK n \in S : \A m \in S : n <= m
    <3> HIDE DEF S
    <3> QED
      BY <2>1, LeastNat
  <2>3. n # 0
    BY <1>1
  <2>4. n - 1 \in 0..N /\ n - 1 \notin S /\ n - 1 + 1 = n
    <3>1. n - 1 \in 0..N /\ ~(n <= n - 1) /\ n - 1 + 1 = n
      BY <1>1, <2>3
    <3> HIDE DEF S
    <3> QED
      BY <2>2, <3>1
  <2> QED
    BY <1>1, <2>4
<1> DEFINE n == CHOOSE n \in DOMAIN sorted : Stop(n)
<1>4. n \in 0..N /\ Stop(n)
  BY <1>1, <1>3
<1>5. Round = sorted[n + 1] \ done
  BY Zenon DEF Round, sorted
<1> HIDE DEF n
<1>6. n # N
  BY <1>2, <1>4
<1>7. sorted[n + 1] = {t \in Graph : Children(Graph, t) \subseteq sorted[n]}
  <2> DEFINE m == n + 1
  <2>1. m \in 1..N /\ m - 1 = n
    BY <1>1, <1>4, <1>6
  <2> HIDE DEF m, N
  <2>2. sorted[m] = {t \in Graph : Children(Graph, t) \subseteq sorted[n]}
    BY <1>1, <2>1
  <2> QED
    BY <2>2 DEF m
<1>8. \A k \in _fk_edges(Graph) : k.from \in Children(Graph, k.to)
  BY DEF Children
<1> QED
  BY <1>4, <1>5, <1>7, <1>8

-----------------------------------------------------------------------------
(* The course of an erasure, whatever the paths.                           *)

\* Nothing is touched before a plan is accepted nor after a step failed, only tables whose
\* step has run and whose rows go have lost rows, and no reference dangles.
Course ==
    /\ SchemaOK /\ TypeOK
    /\ phase \notin {"declared", "failed"} => Resolves(how)
    /\ phase \in {"declared", "failed", "resolved", "refused", "stuck"} =>
         rows = Full /\ erased = {} /\ done = {}
    /\ phase \in {"erasing", "erased", "verified"} => _check_conflicts = {}
    /\ phase \in {"erased", "verified"} => done = Graph
    /\ phase \notin {"erased", "verified"} => created = [t \in Tables |-> {}]
    /\ \A t \in Tables : t \notin done \cap Deleted => rows[t] = Ids
    /\ Referential(rows)

\* What follows from the declarations stays as they do.
LEMMA DeclarationsFixed ==
    ASSUME UNCHANGED Declarations
    PROVE  /\ SchemaOK' = SchemaOK /\ Resolves(how)' = Resolves(how)
           /\ Graph' = Graph /\ Deleted' = Deleted /\ _check_conflicts' = _check_conflicts
           /\ OneWay' = OneWay /\ Full' = Full
<1>1. SchemaOK' = SchemaOK
  BY DEF SchemaOK, Declarations, schema
<1>2. Graph' = Graph /\ Subject' = Subject /\ SubjectTables' = SubjectTables
  BY DEF Graph, collect_data_map, Annotated, Subject, SubjectTables, Declarations, schema
<1>3. Resolves(how)' = Resolves(how)
  BY DEF Resolves, from_base, from_manifest, from_models, resolve_subject_graph,
         resolve_subject_graph_from_fk, build_metadata, Cyclic, fk_safe_deletion_order,
         _fk_edges, _resolve_path, _resolve_path_fk, matches, EndsAt, At, Near, Far,
         collect_data_map, Annotated, Subject, SubjectTables, Declarations, schema
<1>4. Deleted' = Deleted
  BY <1>2 DEF Deleted, _row_deleted, fully_pii_owned, Annotated, Declarations, schema
<1>5. _check_conflicts' = _check_conflicts
  BY <1>2, <1>4 DEF _check_conflicts, Path, hops, matches, At, Far, Declarations, schema
<1>6. OneWay' = OneWay
  BY <1>2 DEF OneWay, Path, hops, matches, At, Far, Declarations, schema
<1> QED
  BY <1>1, <1>2, <1>3, <1>4, <1>5, <1>6 DEF Full

LEMMA DeclaredFixed ==
    ASSUME UNCHANGED Declarations, NEW t
    PROVE  /\ Path(t)' = Path(t) /\ Declared(t)' = Declared(t)
           /\ _table_steps(t)' = _table_steps(t)
<1>1. Path(t)' = Path(t)
  BY DEF Path, hops, matches, At, Far, Declarations, schema
<1>2. _table_steps(t)' = _table_steps(t)
  BY DEF _table_steps, Annotated, Declarations, schema
<1>3. Declared(t)' = Declared(t)
  BY DEF Declared, subject_scope, Scope, Full, Path, hops, matches, At, Far, Joins, Subject,
         SubjectTables, collect_data_map, Annotated, Declarations, schema
<1> QED
  BY <1>1, <1>2, <1>3

LEMMA CourseBegins == Init => Course
<1> SUFFICES ASSUME Init PROVE Course
  OBVIOUS
<1>1. SchemaOK
  BY DEF Init, SchemaOK
<1>2. TypeOK
  BY DEF Init, TypeOK, Phases, Full
<1>3. Referential(rows) /\ \A t \in Tables : rows[t] = Ids
  BY <1>1, SchemaFacts DEF Init, Full, Referential
<1> QED
  BY <1>1, <1>2, <1>3 DEF Init, Course

\* In the execution, the table of a step is in the graph and still to do, and so is what
\* is known of its path and of the scope of the step.
LEMMA StepFacts ==
    ASSUME Course, phase = "erasing", done # Graph, NEW t \in Round
    PROVE  /\ t \in Graph /\ t \in Tables /\ t \notin done /\ Routed(t)
           /\ \A k \in _fk_edges(Graph) : k.to = t => k.from \in done
           /\ subject_scope(rows, t) \subseteq rows[t]
           /\ subject_scope(rows, t) \subseteq Declared(t)
           /\ subject_scope(rows, t) \subseteq Ids
           /\ rows \in [Tables -> SUBSET Ids] /\ rows[t] = Ids
<1>1. Resolves(how) /\ SchemaOK /\ rows \in [Tables -> SUBSET Ids] /\ done \subseteq Graph
  BY DEF Course, TypeOK
<1>2. ~Cyclic(Graph)
  BY <1>1, ResolvedHas
<1>3. /\ t \in Graph /\ t \notin done /\ t \in Tables
      /\ \A k \in _fk_edges(Graph) : k.to = t => k.from \in done
  BY <1>1, <1>2, RoundIs, GraphIsFinite
<1>4. Routed(t)
  BY <1>1, <1>3, Resolved
<1>5. Full \in [Tables -> SUBSET Ids] /\ \A s \in Tables : rows[s] \subseteq Full[s]
  BY <1>1 DEF Full
<1>6. Scope(rows, t, 1) \subseteq Scope(Full, t, 1)
  BY <1>1, <1>3, <1>4, <1>5, ScopeGrows
<1>7. Scope(rows, t, 1) \subseteq rows[t] /\ Scope(rows, t, 1) \subseteq Ids
  BY <1>1, <1>3, <1>4, ScopeWithin
<1> QED
  BY <1>1, <1>3, <1>4, <1>6, <1>7 DEF Course, subject_scope, Declared

LEMMA DeleteKeepsCourse ==
    ASSUME Course, NEW t, _delete(t)
    PROVE  Course'
<1> DEFINE gone == subject_scope(rows, t)
<1>1. /\ phase = "erasing" /\ done # Graph /\ t \in Round /\ t \in Deleted
      /\ Dangling(t, gone) = {}
      /\ rows' = [rows EXCEPT ![t] = @ \ gone] /\ done' = done \cup {t}
      /\ UNCHANGED <<schema, how, points, phase, erased, culprit, created, verdict>>
  BY DEF _delete
<1>2. /\ t \in Graph /\ t \in Tables /\ rows \in [Tables -> SUBSET Ids]
  BY <1>1, StepFacts
<1>3. UNCHANGED Declarations
  BY <1>1 DEF Declarations
<1>4. /\ \A s \in Tables \ {t} : rows'[s] = rows[s]
      /\ rows'[t] = rows[t] \ gone
      /\ rows' \in [Tables -> SUBSET Ids]
  <2> HIDE DEF gone
  <2> QED
    BY <1>1, <1>2
<1>5. \A k \in keys : \A i \in rows[k.from] :
         k.to = t /\ ~(k.from = t /\ i \in gone) => points[k][i] \notin gone
  <2>1. ASSUME NEW k \in keys, NEW i \in rows[k.from], k.to = t,
               ~(k.from = t /\ i \in gone), points[k][i] \in gone
        PROVE  FALSE
    <3>1. i \in Ids
      BY <1>2, <2>1, SchemaFacts DEF Course
    <3>2. <<k, i>> \in Dangling(t, gone)
      BY <2>1, <3>1 DEF Dangling
    <3> QED
      BY <1>1, <3>2
  <2> QED
    BY <2>1
<1>6. Referential(rows)'
  <2>1. /\ Referential(rows) /\ keys' = keys /\ points' = points
        /\ \A k \in keys : k.from \in Tables /\ k.to \in Tables
    BY <1>1, SchemaFacts DEF Course, schema
  <2> HIDE DEF gone
  <2>2. ASSUME NEW k \in keys, NEW i \in rows'[k.from]
        PROVE  points[k][i] \in rows'[k.to] \cup {0}
    <3>1. i \in rows[k.from] /\ ~(k.from = t /\ i \in gone)
      BY <1>4, <2>1, <2>2
    <3>2. points[k][i] \in rows[k.to] \cup {0}
      BY <2>1, <3>1 DEF Referential
    <3>3. CASE k.to = t
      BY <1>4, <1>5, <3>1, <3>2, <3>3
    <3>4. CASE k.to # t
      BY <1>4, <2>1, <3>2, <3>4
    <3> QED
      BY <3>3, <3>4
  <2> QED
    BY <2>1, <2>2 DEF Referential
<1> HIDE DEF gone
<1>7. TypeOK'
  BY <1>1, <1>2, <1>3, <1>4, DeclarationsFixed DEF Course, TypeOK
<1> QED
  BY <1>1, <1>2, <1>3, <1>4, <1>6, <1>7, DeclarationsFixed DEF Course

LEMMA AnonymizeKeepsCourse ==
    ASSUME Course, NEW t, _anonymize(t)
    PROVE  Course'
<1>1. /\ phase = "erasing" /\ done # Graph /\ t \in Round /\ t \notin Deleted
      /\ erased' = erased \cup ({t} \X subject_scope(rows, t) \X _table_steps(t))
      /\ done' = done \cup {t}
      /\ UNCHANGED <<schema, how, points, phase, rows, culprit, created, verdict>>
  BY DEF _anonymize
<1>2. t \in Graph /\ t \in Tables /\ subject_scope(rows, t) \subseteq Ids
  BY <1>1, StepFacts
<1>3. UNCHANGED Declarations
  BY <1>1 DEF Declarations
<1>4. \A cell \in erased' : cell[1] \in Tables /\ cell[2] \in Ids
  BY <1>1, <1>2 DEF Course, TypeOK
<1>5. TypeOK'
  BY <1>1, <1>2, <1>3, <1>4, DeclarationsFixed DEF Course, TypeOK
<1>6. Referential(rows)'
  BY <1>1 DEF Referential, Course, schema
<1> QED
  BY <1>1, <1>2, <1>3, <1>5, <1>6, DeclarationsFixed DEF Course

\* A failed step takes everything back.
LEMMA ViolateKeepsCourse ==
    ASSUME Course, NEW t, Violate(t)
    PROVE  Course'
<1>1. /\ phase = "erasing" /\ phase' = "stuck"
      /\ rows' = Full /\ erased' = {} /\ done' = {}
      /\ UNCHANGED <<schema, how, points, created, verdict>>
  BY DEF Violate
<1>2. UNCHANGED Declarations
  BY <1>1 DEF Declarations
<1>3. rows' \in [Tables -> SUBSET Ids] /\ \A s \in Tables : rows'[s] = Ids
  BY <1>1 DEF Full
<1>4. Referential(rows)'
  BY <1>1, <1>3, SchemaFacts DEF Referential, Course, schema
<1>5. TypeOK'
  BY <1>1, <1>3 DEF Course, TypeOK, Phases
<1> QED
  BY <1>1, <1>2, <1>3, <1>4, <1>5, DeclarationsFixed DEF Course

\* Rows come back only where row 1 was gone, and refer to rows that are there.
LEMMA ComeBackKeepsCourse ==
    ASSUME Course, ComeBack
    PROVE  Course'
<1>1. /\ phase = "erased" /\ \A t \in Tables : created[t] = {}
      /\ UNCHANGED <<schema, how, points, phase, done, erased, culprit, verdict>>
  BY DEF ComeBack
<1>2. PICK ts \in SUBSET {t \in Tables : 1 \notin rows[t]} :
        LET db == [t \in Tables |-> IF t \in ts THEN rows[t] \cup {1} ELSE rows[t]]
        IN  /\ \A k \in keys : k.from \in ts => points[k][1] \in db[k.to] \cup {0}
            /\ rows' = db
            /\ created' = [t \in Tables |-> db[t] \ rows[t]]
  BY Zenon DEF ComeBack
<1>3. UNCHANGED Declarations
  BY <1>1 DEF Declarations
<1>4. rows \in [Tables -> SUBSET Ids] /\ 1 \in Ids
  BY PlanningAssumption DEF Course, TypeOK
<1>5. /\ \A t \in Tables : rows'[t] = IF t \in ts THEN rows[t] \cup {1} ELSE rows[t]
      /\ rows' \in [Tables -> SUBSET Ids]
      /\ \A k \in keys : k.from \in ts => points[k][1] \in rows'[k.to] \cup {0}
      /\ created' = [t \in Tables |-> rows'[t] \ rows[t]]
  BY <1>2, <1>4
<1>6. created' \in [Tables -> SUBSET Ids]
  BY <1>5
<1>7. \A t \in Tables : rows[t] = Ids => rows'[t] = Ids
  BY <1>4, <1>5
<1>8. Referential(rows)'
  <2>1. /\ Referential(rows) /\ keys' = keys /\ points' = points
        /\ \A k \in keys : k.from \in Tables /\ k.to \in Tables
    BY <1>1, SchemaFacts DEF Course, schema
  <2>2. ASSUME NEW k \in keys, NEW i \in rows'[k.from]
        PROVE  points[k][i] \in rows'[k.to] \cup {0}
    <3>1. CASE i \in rows[k.from]
      <4>1. points[k][i] \in rows[k.to] \cup {0}
        BY <2>1, <3>1 DEF Referential
      <4>2. rows[k.to] \subseteq rows'[k.to]
        BY <1>5, <2>1
      <4> QED
        BY <4>1, <4>2
    <3>2. CASE i \notin rows[k.from]
      <4>1. i = 1 /\ k.from \in ts
        BY <1>5, <2>1, <2>2, <3>2
      <4> QED
        BY <1>5, <4>1
    <3> QED
      BY <3>1, <3>2
  <2> QED
    BY <2>1, <2>2 DEF Referential
<1>9. TypeOK'
  BY <1>1, <1>3, <1>5, <1>6, DeclarationsFixed DEF Course, TypeOK
<1> QED
  BY <1>1, <1>3, <1>7, <1>8, <1>9, DeclarationsFixed DEF Course

\* The steps that leave the tables alone.
LEMMA OthersKeepCourse ==
    ASSUME Course, Resolve \/ Plan \/ Commit \/ verify_subject_erased \/ UNCHANGED vars
    PROVE  Course'
<1>1. UNCHANGED <<schema, how, points, done, rows, erased, created>>
  BY DEF Resolve, Plan, Commit, verify_subject_erased, vars
<1>2. UNCHANGED Declarations
  BY <1>1 DEF Declarations
<1>3. Referential(rows)'
  BY <1>1 DEF Referential, Course, schema
<1>4. ASSUME phase' \in Phases PROVE TypeOK'
  BY <1>1, <1>2, <1>4, DeclarationsFixed DEF Course, TypeOK
<1>5. CASE Resolve
  <2>1. phase = "declared" /\ phase' \in {"resolved", "failed"}
        /\ (phase' = "resolved" => Resolves(how))
    BY <1>5 DEF Resolve
  <2> QED
    BY <1>1, <1>2, <1>3, <1>4, <2>1, DeclarationsFixed DEF Course, Phases
<1>6. CASE Plan
  <2>1. phase = "resolved" /\ phase' \in {"erasing", "refused"}
        /\ (phase' = "erasing" => _check_conflicts = {})
    BY <1>6 DEF Plan
  <2> QED
    BY <1>1, <1>2, <1>3, <1>4, <2>1, DeclarationsFixed DEF Course, Phases
<1>7. CASE Commit
  BY <1>1, <1>2, <1>3, <1>4, <1>7, DeclarationsFixed DEF Commit, Course, Phases
<1>8. CASE verify_subject_erased
  BY <1>1, <1>2, <1>3, <1>4, <1>8, DeclarationsFixed DEF verify_subject_erased, Course, Phases
<1>9. CASE UNCHANGED vars
  BY <1>1, <1>2, <1>3, <1>4, <1>9, DeclarationsFixed DEF vars, Course, TypeOK
<1> QED
  BY <1>5, <1>6, <1>7, <1>8, <1>9

LEMMA CourseGoesOn == Course /\ [Next]_vars => Course'
<1> SUFFICES ASSUME Course, [Next]_vars PROVE Course'
  OBVIOUS
<1> QED
  BY DeleteKeepsCourse, AnonymizeKeepsCourse, ViolateKeepsCourse, ComeBackKeepsCourse,
     OthersKeepCourse DEF Next

\* Course is inductive.
THEOREM CourseAlways == Spec => []Course
BY CourseBegins, CourseGoesOn, PTL DEF Spec

\* The state is well typed, and no step touches a table outside the graph.
THEOREM TypeCorrect == Spec => []TypeOK
<1>1. Course => TypeOK
  BY DEF Course
<1> QED
  BY <1>1, CourseAlways, PTL

\* While an accepted plan has steps left, one of them is next, and no step has run before
\* those of the tables that refer to its table: fk_safe_deletion_order neither gets stuck
\* nor takes a parent before its children.
ChildrenFirst ==
    phase = "erasing" =>
        /\ done # Graph => Round # {}
        /\ \A k \in _fk_edges(Graph) : k.to \in done => k.from \in done

DoneInOrder == \A k \in _fk_edges(Graph) : k.to \in done => k.from \in done

LEMMA OrderGoesOn == Course /\ DoneInOrder /\ [Next]_vars => DoneInOrder'
<1> SUFFICES ASSUME Course, DoneInOrder, [Next]_vars PROVE DoneInOrder'
  OBVIOUS
<1>1. UNCHANGED Declarations
  BY DEF Next, Resolve, Plan, _delete, _anonymize, Violate, Commit, ComeBack,
         verify_subject_erased, vars, Declarations
<1>2. _fk_edges(Graph)' = _fk_edges(Graph)
  BY <1>1, DeclarationsFixed DEF _fk_edges, Declarations, schema
<1>3. ASSUME NEW t \in Tables, _delete(t) \/ _anonymize(t) PROVE DoneInOrder'
  <2>1. phase = "erasing" /\ done # Graph /\ t \in Round /\ done' = done \cup {t}
    BY <1>3 DEF _delete, _anonymize
  <2> QED
    BY <1>2, <2>1, StepFacts DEF DoneInOrder
<1>4. CASE done' = done
  BY <1>2, <1>4 DEF DoneInOrder
<1>5. CASE done' = {}
  BY <1>5 DEF DoneInOrder
<1> QED
  BY <1>3, <1>4, <1>5 DEF Next, Resolve, Plan, Violate, Commit, ComeBack,
     verify_subject_erased, vars

\* In every schema that resolves, children come before parents and a step is always left.
THEOREM InDeletionOrder == Spec => []ChildrenFirst
<1>1. Init => DoneInOrder
  BY DEF Init, DoneInOrder
<1>2. Course /\ DoneInOrder => ChildrenFirst
  BY ResolvedHas, RoundIs DEF Course, TypeOK, DoneInOrder, ChildrenFirst
<1> QED
  BY <1>1, <1>2, OrderGoesOn, CourseAlways, PTL DEF Spec

\* The linter is quiet exactly where resolution raises nothing, in every schema.
THEOREM LintIsRight == Spec => []LintForetellsResolution
<1>1. Course => LintForetellsResolution
  BY LintForetells
<1> QED
  BY <1>1, CourseAlways, PTL

\* Where every declared relationship leads along a foreign key, both resolvers give every
\* table the same hops.
THEOREM SameGraph ==
    ASSUME NoBackHops
    PROVE  Spec => []ResolversAgree
<1>1. Course => ResolversAgree
  BY Agreement DEF Course
<1> QED
  BY <1>1, CourseAlways, PTL

\* Joins attribute to a subject exactly the rows that its erasure would reach.
LEMMA SweepsAgree == Course => SweepsAgreeWithErasures
<1> SUFFICES ASSUME Course, phase \in {"resolved", "erased"}, NEW t \in Graph, NEW u \in Ids,
                    NEW expired \in SUBSET Ids
             PROVE  {walk[1] : walk \in _attribution_statement(t, expired, u)}
                      = expired \cap Scope(rows, t, u)
  BY DEF SweepsAgreeWithErasures
<1>1. SchemaOK /\ t \in Tables /\ Routed(t) /\ rows \in [Tables -> SUBSET Ids]
  BY GraphIsFinite, Resolved DEF Course, TypeOK
<1>2. \A walk \in _attribution_statement(t, expired, u) :
         walk[1] \in expired \cap Scope(rows, t, u)
  BY <1>1, WalksStartInScope
<1>3. \A i \in expired \cap Scope(rows, t, u) :
         \E walk \in _attribution_statement(t, expired, u) : walk[1] = i
  BY <1>1, ScopesAreWalked
<1> QED
  BY <1>2, <1>3

\* The retention sweeper attributes to a subject the rows in the subject's scope, before
\* an erasure and after it, along paths of any length.
THEOREM SweepsReachTheScope == Spec => []SweepsAgreeWithErasures
BY SweepsAgree, CourseAlways, PTL

-----------------------------------------------------------------------------
(* What an erasure takes.                                                  *)

LEMMA OnlyDeclaredBegins == Init => OnlyWhatIsDeclared
BY DEF Init, OnlyWhatIsDeclared

LEMMA DeleteTakesDeclared ==
    ASSUME Course, OnlyWhatIsDeclared, NEW t, _delete(t)
    PROVE  OnlyWhatIsDeclared'
<1> DEFINE gone == subject_scope(rows, t)
<1>1. /\ phase = "erasing" /\ done # Graph /\ t \in Round /\ t \in Deleted
      /\ rows' = [rows EXCEPT ![t] = @ \ gone]
      /\ UNCHANGED <<schema, how, points, phase, erased>>
  BY DEF _delete
<1>2. /\ t \in Graph /\ t \in Tables /\ rows \in [Tables -> SUBSET Ids]
      /\ gone \subseteq Declared(t) /\ gone \subseteq Ids
  BY <1>1, StepFacts
<1> HIDE DEF gone
<1>3. UNCHANGED Declarations
  BY <1>1 DEF Declarations
<1>4. \A c \in DOMAIN content[t] : content[t][c] = "delete"
  BY <1>1 DEF Deleted, _row_deleted, fully_pii_owned
<1>5. \A s \in Tables : \A i \in Ids \ rows'[s] : i \in Ids \ rows[s] \/ (s = t /\ i \in gone)
  BY <1>1, <1>2
<1>6. /\ \A s \in Tables : \A i \in Ids \ rows[s] :
           /\ s \in Graph /\ i \in Declared(s)
           /\ \A c \in DOMAIN content[s] : content[s][c] = "delete"
      /\ \A cell \in erased :
           /\ cell[2] \in Declared(cell[1])
           /\ content[cell[1]][cell[3]] \in {"delete", "anonymize"}
  BY <1>1 DEF OnlyWhatIsDeclared
<1>7. \A s \in Tables : \A i \in Ids \ rows'[s] :
         /\ s \in Graph /\ i \in Declared(s)
         /\ \A c \in DOMAIN content[s] : content[s][c] = "delete"
  BY <1>2, <1>4, <1>5, <1>6
<1>8. Graph' = Graph /\ content' = content /\ erased' = erased /\ \A s : Declared(s)' = Declared(s)
  BY <1>1, <1>3, DeclarationsFixed, DeclaredFixed DEF schema
<1> QED
  BY <1>6, <1>7, <1>8 DEF OnlyWhatIsDeclared

LEMMA AnonymizeTakesDeclared ==
    ASSUME Course, OnlyWhatIsDeclared, NEW t, _anonymize(t)
    PROVE  OnlyWhatIsDeclared'
<1>1. /\ phase = "erasing" /\ done # Graph /\ t \in Round
      /\ erased' = erased \cup ({t} \X subject_scope(rows, t) \X _table_steps(t))
      /\ UNCHANGED <<schema, how, points, phase, rows>>
  BY DEF _anonymize
<1>2. t \in Tables /\ subject_scope(rows, t) \subseteq Declared(t)
  BY <1>1, StepFacts
<1>3. UNCHANGED Declarations
  BY <1>1 DEF Declarations
<1>4. \A c \in _table_steps(t) : content[t][c] \in {"delete", "anonymize"}
  BY <1>2, ManifestAssumption DEF _table_steps, Annotated, Course, SchemaOK, Strategies
<1>5. /\ \A s \in Tables : \A i \in Ids \ rows[s] :
           /\ s \in Graph /\ i \in Declared(s)
           /\ \A c \in DOMAIN content[s] : content[s][c] = "delete"
      /\ \A cell \in erased :
           /\ cell[2] \in Declared(cell[1])
           /\ content[cell[1]][cell[3]] \in {"delete", "anonymize"}
  BY <1>1 DEF OnlyWhatIsDeclared
<1>6. \A cell \in erased' :
         /\ cell[2] \in Declared(cell[1])
         /\ content[cell[1]][cell[3]] \in {"delete", "anonymize"}
  BY <1>1, <1>2, <1>4, <1>5
<1>7. Graph' = Graph /\ content' = content /\ rows' = rows /\ \A s : Declared(s)' = Declared(s)
  BY <1>1, <1>3, DeclarationsFixed, DeclaredFixed DEF schema
<1> QED
  BY <1>5, <1>6, <1>7 DEF OnlyWhatIsDeclared

LEMMA OthersTakeNothing ==
    ASSUME Course, OnlyWhatIsDeclared,
           \/ Resolve \/ Plan \/ Commit \/ verify_subject_erased \/ UNCHANGED vars
           \/ ComeBack \/ \E t \in Tables : Violate(t)
    PROVE  OnlyWhatIsDeclared'
<1>1. UNCHANGED Declarations
  BY DEF Resolve, Plan, Commit, verify_subject_erased, vars, ComeBack, Violate, Declarations
<1>2. /\ Graph' = Graph /\ content' = content /\ \A s : Declared(s)' = Declared(s)
  BY <1>1, DeclarationsFixed, DeclaredFixed DEF Declarations, schema
<1>3. CASE phase' \in {"declared", "failed", "refused"}
  BY <1>3 DEF OnlyWhatIsDeclared
<1>4. CASE rows' = Full /\ erased' = {}
  BY <1>4 DEF OnlyWhatIsDeclared, Full
<1>5. CASE /\ phase \notin {"declared", "failed", "refused"} /\ erased' = erased
           /\ \A s \in Tables : rows[s] \subseteq rows'[s]
  BY <1>2, <1>5 DEF OnlyWhatIsDeclared
<1>6. CASE Resolve \/ Plan
  <2>1. rows' = Full /\ erased' = {}
    BY <1>6 DEF Resolve, Plan, Course
  <2> QED
    BY <1>4, <2>1
<1>7. CASE \E t \in Tables : Violate(t)
  BY <1>4, <1>7 DEF Violate
<1>8. CASE Commit \/ verify_subject_erased
  BY <1>5, <1>8 DEF Commit, verify_subject_erased
<1>9. CASE ComeBack
  <2>1. phase = "erased" /\ erased' = erased /\ \A s \in Tables : rows[s] \subseteq rows'[s]
    BY <1>9 DEF ComeBack
  <2> QED
    BY <1>5, <2>1
<1>10. CASE UNCHANGED vars
  BY <1>2, <1>10 DEF vars, OnlyWhatIsDeclared
<1> QED
  BY <1>6, <1>7, <1>8, <1>9, <1>10

LEMMA OnlyDeclaredGoesOn == Course /\ OnlyWhatIsDeclared /\ [Next]_vars => OnlyWhatIsDeclared'
<1> SUFFICES ASSUME Course, OnlyWhatIsDeclared, [Next]_vars PROVE OnlyWhatIsDeclared'
  OBVIOUS
<1> QED
  BY DeleteTakesDeclared, AnonymizeTakesDeclared, OthersTakeNothing DEF Next

\* Whatever the schema and the paths, an erasure takes rows that are the subject's and hold
\* nothing to keep, and rewrites values of the subject that are declared erasable.
THEOREM NothingElseIsTaken == Spec => []OnlyWhatIsDeclared
BY OnlyDeclaredBegins, OnlyDeclaredGoesOn, CourseAlways, PTL DEF Spec

-----------------------------------------------------------------------------
(* What an erasure leaves, where no path goes against a key.               *)

\* Each step finds the rows that were declared, as far as they are still there.
LEMMA KeptScope ==
    ASSUME Course, OneWay, Resolves(how), NEW t \in Graph
    PROVE  subject_scope(rows, t) = rows[t] \cap Declared(t)
<1>1. SchemaOK /\ t \in Tables /\ Routed(t) /\ rows \in [Tables -> SUBSET Ids] /\ Referential(rows)
  BY GraphIsFinite, Resolved DEF Course, TypeOK
<1>2. \A p \in DOMAIN Path(t) : ~Path(t)[p].back
  BY DEF OneWay
<1> QED
  BY <1>1, <1>2, ScopeKept DEF subject_scope, Declared

\* The tables whose steps have run hold no declared row that has to go but those that came
\* back, and no declared value that has to be rewritten.
SweptTables ==
    \A t \in done :
        IF t \in Deleted THEN rows[t] \cap Declared(t) \subseteq created[t]
        ELSE \A i \in Declared(t), c \in _table_steps(t) : <<t, i, c>> \in erased

Swept == OneWay => SweptTables

LEMMA SweptBegins == Init => Swept
BY DEF Init, Swept, SweptTables

LEMMA SweptGoesOn == Course /\ Swept /\ [Next]_vars => Swept'
<1> SUFFICES ASSUME Course, Swept, [Next]_vars, OneWay' PROVE SweptTables'
  BY DEF Swept
<1>1. UNCHANGED Declarations
  BY DEF Next, Resolve, Plan, _delete, _anonymize, Violate, Commit, ComeBack,
         verify_subject_erased, vars, Declarations
<1>2. /\ OneWay /\ Deleted' = Deleted
      /\ \A t : Declared(t)' = Declared(t) /\ _table_steps(t)' = _table_steps(t)
  BY <1>1, DeclarationsFixed, DeclaredFixed
<1>3. SweptTables
  BY <1>2 DEF Swept
<1>4. ASSUME NEW t \in Tables, _delete(t) PROVE SweptTables'
  <2>1. /\ phase = "erasing" /\ done # Graph /\ t \in Round /\ t \in Deleted
        /\ rows' = [rows EXCEPT ![t] = @ \ subject_scope(rows, t)] /\ done' = done \cup {t}
        /\ UNCHANGED <<erased, created>>
    BY <1>4 DEF _delete
  <2>2. Resolves(how) /\ t \in Graph /\ rows \in [Tables -> SUBSET Ids]
    BY <2>1, StepFacts DEF Course
  <2>3. subject_scope(rows, t) = rows[t] \cap Declared(t)
    BY <1>2, <2>2, KeptScope
  <2>4. rows'[t] \cap Declared(t) = {} /\ \A s \in Tables : rows'[s] \subseteq rows[s]
    BY <2>1, <2>2, <2>3
  <2>5. done \subseteq Tables
    BY GraphIsFinite DEF Course, TypeOK
  <2> QED
    BY <1>2, <1>3, <2>1, <2>4, <2>5 DEF SweptTables
<1>5. ASSUME NEW t \in Tables, _anonymize(t) PROVE SweptTables'
  <2>1. /\ phase = "erasing" /\ done # Graph /\ t \in Round /\ t \notin Deleted
        /\ erased' = erased \cup ({t} \X subject_scope(rows, t) \X _table_steps(t))
        /\ done' = done \cup {t} /\ UNCHANGED <<rows, created>>
    BY <1>5 DEF _anonymize
  <2>2. Resolves(how) /\ t \in Graph /\ rows[t] = Ids
    BY <2>1, StepFacts DEF Course
  <2>3. subject_scope(rows, t) = Ids \cap Declared(t)
    BY <1>2, <2>2, KeptScope
  <2>4. Declared(t) \subseteq Ids
    <3>1. SchemaOK /\ t \in Tables /\ Routed(t) /\ Full \in [Tables -> SUBSET Ids]
      BY <2>1, StepFacts DEF Course, Full
    <3> QED
      BY <3>1, ScopeWithin DEF Declared, subject_scope
  <2>5. \A i \in Declared(t), c \in _table_steps(t) : <<t, i, c>> \in erased'
    BY <2>1, <2>3, <2>4
  <2> QED
    BY <1>2, <1>3, <2>1, <2>5 DEF SweptTables
<1>6. ASSUME NEW t \in Tables, Violate(t) PROVE SweptTables'
  BY <1>6 DEF Violate, SweptTables
<1>7. CASE ComeBack
  <2>1. /\ UNCHANGED <<done, erased>> /\ \A t \in Tables : created[t] = {}
        /\ created' = [t \in Tables |-> rows'[t] \ rows[t]]
    BY <1>7 DEF ComeBack
  <2>2. done \subseteq Tables
    BY GraphIsFinite DEF Course, TypeOK
  <2> QED
    BY <1>2, <1>3, <2>1, <2>2 DEF SweptTables
<1>8. CASE Resolve \/ Plan \/ Commit \/ verify_subject_erased \/ UNCHANGED vars
  <2>1. UNCHANGED <<done, rows, erased, created>>
    BY <1>8 DEF Resolve, Plan, Commit, verify_subject_erased, vars
  <2> QED
    BY <1>2, <1>3, <2>1 DEF SweptTables
<1> QED
  BY <1>4, <1>5, <1>6, <1>7, <1>8 DEF Next

\* What a step should have taken is gone once it has run, and stays gone.
THEOREM SweptAlways == Spec => []Swept
BY SweptBegins, SweptGoesOn, CourseAlways, PTL DEF Spec

LEMMA NothingRemains ==
    ASSUME Course, Swept, OneWay
    PROVE  NothingIsLeft
<1> SUFFICES ASSUME phase \in {"erased", "verified"}, NEW t \in Graph,
                    NEW i \in Declared(t) \cap (rows[t] \ created[t])
             PROVE  /\ t \notin Deleted
                    /\ \A c \in DOMAIN content[t] :
                         \/ content[t][c] = "retain" \/ <<t, i, c>> \in erased
                         \/ (content[t][c] = "none" /\ <<t, c>> \in lint_completeness)
  BY DEF NothingIsLeft
<1>1. t \in done /\ t \in collect_data_map
  BY DEF Course, Graph
<1>2. IF t \in Deleted THEN rows[t] \cap Declared(t) \subseteq created[t]
      ELSE \A j \in Declared(t), c \in _table_steps(t) : <<t, j, c>> \in erased
  BY <1>1 DEF Swept, SweptTables
<1>3. t \notin Deleted
  BY <1>2
<1>4. ASSUME NEW c \in DOMAIN content[t]
      PROVE  \/ content[t][c] = "retain" \/ <<t, i, c>> \in erased
             \/ (content[t][c] = "none" /\ <<t, c>> \in lint_completeness)
  <2>1. CASE content[t][c] = "none"
    BY <1>1, <2>1 DEF lint_completeness, Annotated
  <2>2. CASE content[t][c] # "none" /\ content[t][c] # "retain"
    <3>1. c \in _table_steps(t)
      BY <2>2 DEF _table_steps, Annotated
    <3> QED
      BY <1>2, <1>3, <3>1
  <2> QED
    BY <2>1, <2>2
<1> QED
  BY <1>3, <1>4

\* A reference that makes a step fail is somebody else's, or not on a declared path.
LEMMA ForeignKeys ==
    ASSUME Course, Swept, OneWay, NEW t, Violate(t)
    PROVE  KeyErrorsAreForeign'
<1>1. /\ phase = "erasing" /\ done # Graph /\ t \in Round /\ t \in Deleted
      /\ UNCHANGED <<schema, how, points>>
  BY DEF Violate
<1>2. PICK ref \in Dangling(t, subject_scope(rows, t)) : culprit' = ref
  BY DEF Violate
<1> DEFINE k == ref[1]
           i == ref[2]
<1>3. /\ k \in keys /\ i \in Ids /\ k.to = t
      /\ i \in rows[k.from] /\ ~(k.from = t /\ i \in subject_scope(rows, t))
  BY DEF Dangling
<1>4. UNCHANGED Declarations
  BY <1>1 DEF Declarations
<1>5. /\ t \in Graph /\ \A e \in _fk_edges(Graph) : e.to = t => e.from \in done
      /\ Resolves(how) /\ _check_conflicts = {} /\ created = [s \in Tables |-> {}]
  BY <1>1, StepFacts DEF Course
<1> HIDE DEF k, i
<1>6. SUFFICES ASSUME k.from \in Graph, i \in Declared(k.from)
      PROVE  /\ k.from \notin Deleted
             /\ \A p \in DOMAIN Path(k.from) : Path(k.from)[p].key # k
  <2>1. Graph' = Graph /\ Deleted' = Deleted
    BY <1>4, DeclarationsFixed
  <2>2. \A s : Path(s)' = Path(s) /\ Declared(s)' = Declared(s)
    BY <1>4, DeclaredFixed
  <2>3. culprit'[1] = k /\ culprit'[2] = i
    BY <1>2 DEF k, i
  <2>4. \/ k.from \notin Graph
        \/ i \notin Declared(k.from)
        \/ (k.from \notin Deleted /\ \A p \in DOMAIN Path(k.from) : Path(k.from)[p].key # k)
    BY <1>6
  <2> QED
    BY <2>1, <2>2, <2>3, <2>4 DEF KeyErrorsAreForeign
<1>7. k.from \notin Deleted
  <2>1. SUFFICES ASSUME k.from \in Deleted PROVE FALSE
    OBVIOUS
  <2>2. CASE k.from = t
    <3>1. i \in subject_scope(rows, t)
      BY <1>3, <1>5, <1>6, <2>2, KeptScope
    <3> QED
      BY <1>3, <2>2, <3>1
  <2>3. CASE k.from # t
    <3>1. k.from \in done
      BY <1>3, <1>5, <1>6, <2>3 DEF _fk_edges
    <3>2. k.from \in Tables
      BY <1>6, GraphIsFinite
    <3>3. rows[k.from] \cap Declared(k.from) \subseteq {}
      BY <1>5, <2>1, <3>1, <3>2 DEF Swept, SweptTables
    <3> QED
      BY <1>3, <1>6, <3>3
  <2> QED
    BY <2>2, <2>3
<1>8. ASSUME NEW p \in DOMAIN Path(k.from), Path(k.from)[p].key = k PROVE FALSE
  <2>1. Far(Path(k.from)[p]) = t
    BY <1>3, <1>6, <1>8 DEF OneWay, Far
  <2> QED
    BY <1>1, <1>5, <1>6, <1>7, <2>1 DEF _check_conflicts
<1> QED
  BY <1>7, <1>8

KeyErrorsOneWay == OneWay => KeyErrorsAreForeign

LEMMA ForeignGoesOn == Course /\ Swept /\ KeyErrorsOneWay /\ [Next]_vars => KeyErrorsOneWay'
<1> SUFFICES ASSUME Course, Swept, KeyErrorsOneWay, [Next]_vars, OneWay'
             PROVE  KeyErrorsAreForeign'
  BY DEF KeyErrorsOneWay
<1>1. UNCHANGED Declarations
  BY DEF Next, Resolve, Plan, _delete, _anonymize, Violate, Commit, ComeBack,
         verify_subject_erased, vars, Declarations
<1>2. /\ OneWay /\ Deleted' = Deleted /\ Graph' = Graph
      /\ \A t : Declared(t)' = Declared(t) /\ Path(t)' = Path(t)
  BY <1>1, DeclarationsFixed, DeclaredFixed
<1>3. CASE \E t \in Tables : Violate(t)
  BY <1>2, <1>3, ForeignKeys
<1>4. CASE phase' # "stuck"
  BY <1>4 DEF KeyErrorsAreForeign
<1>5. CASE UNCHANGED vars
  BY <1>2, <1>5 DEF KeyErrorsOneWay, KeyErrorsAreForeign, vars
<1> QED
  BY <1>3, <1>4, <1>5 DEF Next, Resolve, Plan, _delete, _anonymize, Commit, ComeBack,
     verify_subject_erased

\* The verdict says what was counted.
Reported ==
    phase = "verified" =>
        ((verdict = "ERASURE_VERIFIED") <=> \A t \in Deleted : _count(t) = {})

LEMMA CountFixed ==
    ASSUME UNCHANGED Declarations, rows' = rows, NEW t
    PROVE  _count(t)' = _count(t)
BY DEF _count, subject_scope, Scope, Path, hops, matches, At, Far, Joins, Subject,
       SubjectTables, collect_data_map, Annotated, Declarations, schema

LEMMA ReportedGoesOn == Reported /\ [Next]_vars => Reported'
<1> SUFFICES ASSUME Reported, [Next]_vars, phase' = "verified" PROVE Reported'
  BY DEF Reported
<1>1. CASE verify_subject_erased
  <2>1. /\ UNCHANGED <<Declarations, rows>>
        /\ verdict' = IF \A t \in Deleted : _count(t) = {}
                      THEN "ERASURE_VERIFIED" ELSE "ERASURE_VERIFICATION_FAILED"
    BY <1>1 DEF verify_subject_erased, Declarations
  <2>2. Deleted' = Deleted
    BY <2>1, DeclarationsFixed
  <2> QED
    BY <2>1, <2>2, CountFixed DEF Reported
<1>2. CASE UNCHANGED vars
  <2>1. UNCHANGED <<Declarations, rows, phase, verdict>>
    BY <1>2 DEF vars, Declarations
  <2>2. Deleted' = Deleted
    BY <2>1, DeclarationsFixed
  <2> QED
    BY <2>1, <2>2, CountFixed DEF Reported
<1> QED
  BY <1>1, <1>2 DEF Next, Resolve, Plan, _delete, _anonymize, Violate, Commit, ComeBack

LEMMA VerdictOneWay ==
    ASSUME Course, OneWay, Reported
    PROVE  VerdictIsRight
<1> SUFFICES ASSUME phase = "verified"
             PROVE  (verdict = "ERASURE_VERIFIED") <=> \A t \in Deleted : rows[t] \cap Declared(t) = {}
  BY DEF VerdictIsRight
<1>1. ASSUME NEW t \in Deleted PROVE _count(t) = rows[t] \cap Declared(t)
  BY KeptScope DEF Course, Deleted, _count
<1> QED
  BY <1>1 DEF Reported

Erased == NothingIsLeft /\ KeyErrorsAreForeign /\ VerdictIsRight

LEMMA OneWayErases == Spec => [](OneWay => Erased)
<1>1. Init => KeyErrorsOneWay /\ Reported
  BY DEF Init, KeyErrorsOneWay, KeyErrorsAreForeign, Reported
<1>2. Course /\ Swept /\ KeyErrorsOneWay /\ Reported => (OneWay => Erased)
  BY NothingRemains, VerdictOneWay DEF KeyErrorsOneWay, Erased
<1> QED
  BY <1>1, <1>2, ForeignGoesOn, ReportedGoesOn, SweptAlways, CourseAlways, PTL DEF Spec

\* Before a graph resolves there is nothing to say.
LEMMA UnresolvedErases ==
    ASSUME Course, phase \in {"declared", "failed"}
    PROVE  Erased
BY DEF Erased, NothingIsLeft, KeyErrorsAreForeign, VerdictIsRight

LEMMA ForwardErases ==
    ASSUME NoBackHops
    PROVE  Spec => []Erased
<1>1. Course /\ (OneWay => Erased) => Erased
  BY UnresolvedErases, WhenOneWay DEF Course
<1> QED
  BY <1>1, OneWayErases, CourseAlways, PTL

\* A committed erasure left nothing of the subject's in the tables whose rows go, and no
\* erasable value in the others.
THEOREM NothingStays ==
    ASSUME NoBackHops
    PROVE  Spec => []NothingIsLeft
<1>1. Erased => NothingIsLeft
  BY DEF Erased
<1> QED
  BY <1>1, ForwardErases, PTL

\* What makes the database refuse an accepted plan is not a row of the subject's on a
\* declared path.
THEOREM OnlyForeignKeysFail ==
    ASSUME NoBackHops
    PROVE  Spec => []KeyErrorsAreForeign
<1>1. Erased => KeyErrorsAreForeign
  BY DEF Erased
<1> QED
  BY <1>1, ForwardErases, PTL

\* ERASURE_VERIFIED is reported exactly when nothing of the subject's is left in them.
THEOREM VerdictTold ==
    ASSUME NoBackHops
    PROVE  Spec => []VerdictIsRight
<1>1. Erased => VerdictIsRight
  BY DEF Erased
<1> QED
  BY <1>1, ForwardErases, PTL

\* A graph that was built from foreign keys needs no such hypothesis: all three hold of it
\* whatever links are declared.
THEOREM KeyGraphsErase ==
    Spec => [](how # "orm" => NothingIsLeft /\ KeyErrorsAreForeign /\ VerdictIsRight)
<1>1. Course /\ (OneWay => Erased) =>
        (how # "orm" => NothingIsLeft /\ KeyErrorsAreForeign /\ VerdictIsRight)
  BY UnresolvedErases, WhenOneWay DEF Course, Erased
<1> QED
  BY <1>1, OneWayErases, CourseAlways, PTL

=============================================================================

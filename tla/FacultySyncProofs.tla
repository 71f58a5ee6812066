--------------------------- MODULE FacultySyncProofs ---------------------------
(***************************************************************************)
(* Proofs about the graph service and about the faculty mirror that feeds  *)
(* it.  The first part is about one projection, the second about a         *)
(* consumer of any feed of well-formed events, the third about the mirror, *)
(* the fourth about the web service, the other producer of such events.    *)
(***************************************************************************)
EXTENDS FacultySync, SetLemmas

(***************************************************************************)
(* The projection.  An edge belongs to one aggregate, which its relation   *)
(* and one of its ends give away.                                          *)
(***************************************************************************)
Kinds ==
  {"project.deleted", "application.deleted", "project", "user_profile", "application",
   "faculty_person", "faculty_publication", "faculty_course", "project_faculty_match"}
AggregateKinds == Kinds \ {"project.deleted", "application.deleted"}

KindOf(rel) ==
  CASE rel \in {"SUPERVISED_BY", "TAGGED_WITH"} -> "project"
    [] rel = "INTERESTED_IN" -> "user_profile"
    [] rel \in {"SUBMITTED", "TARGETS"} -> "application"
    [] rel \in {"LOCATED_AT", "HAS_INTEREST"} -> "faculty_person"
    [] rel = "AUTHORED" -> "faculty_publication"
    [] rel = "TEACHES" -> "faculty_course"
    [] rel = "SUPERVISED_BY_FACULTY" -> "project_faculty_match"

LabelOf(kind) ==
  CASE kind \in {"project", "project_faculty_match"} -> "Project"
    [] kind = "user_profile" -> "Student"
    [] kind = "application" -> "Application"
    [] kind = "faculty_person" -> "FacultyPerson"
    [] kind = "faculty_publication" -> "Publication"
    [] kind = "faculty_course" -> "Course"

OwnerNode(e) == IF e[2] \in {"SUBMITTED", "AUTHORED", "TEACHES"} THEN e[3] ELSE e[1]
Owner(e) == <<KindOf(e[2]), OwnerNode(e)[2]>>

IsNode(n) == n = <<n[1], n[2]>>
Shaped(e) ==
  /\ e = <<e[1], e[2], e[3]>> /\ IsNode(e[1]) /\ IsNode(e[3])
  /\ e[2] \in Relations
  /\ OwnerNode(e)[1] = LabelOf(KindOf(e[2]))

IsGraph(g) ==
  /\ g = [nodes |-> g.nodes, edges |-> g.edges]
  /\ g.edges \subseteq g.nodes \X Relations \X g.nodes
  /\ \A e \in g.edges : Shaped(e)

IsEvent(ev) == ev.kind \in Kinds /\ ev.id # Null

\* What the aggregate of an edge owns is what the reference says it owns.
LEMMA OwnedByOwner ==
  ASSUME NEW g, IsGraph(g), NEW k \in AggregateKinds, NEW id
  PROVE  \A e : e \in Owned(g, <<k, id>>) <=> e \in g.edges /\ Owner(e) = <<k, id>>
<1> DEFINE from(label, rels) == {e \in g.edges : e[1] = <<label, id>> /\ e[2] \in rels}
           into(label, rels) == {e \in g.edges : e[3] = <<label, id>> /\ e[2] \in rels}
<1>1. Owned(g, <<k, id>>) =
        CASE k = "project" -> from("Project", {"SUPERVISED_BY", "TAGGED_WITH"})
        [] k = "user_profile" -> from("Student", {"INTERESTED_IN"})
        [] k = "application" ->
             into("Application", {"SUBMITTED"}) \union from("Application", {"TARGETS"})
        [] k = "faculty_person" -> from("FacultyPerson", {"LOCATED_AT", "HAS_INTEREST"})
        [] k = "faculty_publication" -> into("Publication", {"AUTHORED"})
        [] k = "faculty_course" -> into("Course", {"TEACHES"})
        [] k = "project_faculty_match" -> from("Project", {"SUPERVISED_BY_FACULTY"})
  BY DEF Owned, AggregateKinds, Kinds
<1>2. ASSUME NEW e \in g.edges
      PROVE  e \in Owned(g, <<k, id>>) <=> Owner(e) = <<k, id>>
  <2>1. Shaped(e)
    BY DEF IsGraph
  <2> QED
    BY <1>1, <2>1 DEF Shaped, IsNode, Owner, OwnerNode, KindOf, LabelOf, Relations,
       AggregateKinds, Kinds
<1>3. Owned(g, <<k, id>>) \subseteq g.edges
  BY <1>1 DEF AggregateKinds, Kinds
<1> QED  BY <1>2, <1>3
\* An event claims edges of its own aggregate.
LEMMA ClaimsAreOwned ==
  ASSUME NEW ev, IsEvent(ev)
  PROVE  /\ Aggregate(ev) \in AggregateKinds \X {ev.id}
         /\ \A e \in Claims(ev) : Shaped(e) /\ Owner(e) = Aggregate(ev)
<1>1. Aggregate(ev) \in AggregateKinds \X {ev.id}
  BY DEF Aggregate, IsEvent, Kinds, AggregateKinds
<1>2. ASSUME NEW e \in Claims(ev) PROVE Shaped(e) /\ Owner(e) = Aggregate(ev)
  <2>1. CASE ev.kind = "project"
    BY <1>2, <2>1 DEF Claims, Aggregate, ProjectNode, Tags, Node, Shaped, IsNode, Owner,
       OwnerNode, KindOf, LabelOf, Relations
  <2>2. CASE ev.kind = "user_profile"
    BY <1>2, <2>2 DEF Claims, Aggregate, StudentNode, Tags, Node, Shaped, IsNode, Owner,
       OwnerNode, KindOf, LabelOf, Relations
  <2>3. CASE ev.kind = "application"
    BY <1>2, <2>3 DEF Claims, Aggregate, StudentNode, ApplicationNode, ProjectNode, Node,
       Shaped, IsNode, Owner, OwnerNode, KindOf, LabelOf, Relations
  <2>4. CASE ev.kind = "faculty_person"
    BY <1>2, <2>4 DEF Claims, Aggregate, PersonNode, Tags, Node, Shaped, IsNode, Owner,
       OwnerNode, KindOf, LabelOf, Relations
  <2>5. CASE ev.kind = "faculty_publication"
    BY <1>2, <2>5 DEF Claims, Aggregate, Node, Shaped, IsNode, Owner,
       OwnerNode, KindOf, LabelOf, Relations
  <2>6. CASE ev.kind = "faculty_course"
    BY <1>2, <2>6 DEF Claims, Aggregate, PersonNode, Node, Shaped, IsNode, Owner,
       OwnerNode, KindOf, LabelOf, Relations
  <2>7. CASE ev.kind = "project_faculty_match"
    BY <1>2, <2>7 DEF Claims, Aggregate, PersonNode, ProjectNode, Node, Shaped, IsNode, Owner,
       OwnerNode, KindOf, LabelOf, Relations
  <2>8. CASE ev.kind \in {"project.deleted", "application.deleted"}
    BY <1>2, <2>8 DEF Claims
  <2> QED
    BY <2>1, <2>2, <2>3, <2>4, <2>5, <2>6, <2>7, <2>8 DEF IsEvent, Kinds
<1> QED  BY <1>1, <1>2

\* A record of nodes and edges with other nodes, or with other edges.
LEMMA WithNodesOrEdges ==
  ASSUME NEW g, g = [nodes |-> g.nodes, edges |-> g.edges], NEW S
  PROVE  /\ [g EXCEPT !.nodes = S] = [nodes |-> S, edges |-> g.edges]
         /\ [g EXCEPT !.edges = S] = [nodes |-> g.nodes, edges |-> S]
OBVIOUS

\* A graph stays one when nodes are merged ...
LEMMA MergeGraph ==
  ASSUME NEW g, IsGraph(g), NEW F
  PROVE  IsGraph(Merge(g, F)) /\ Merge(g, F).edges = g.edges
<1>1. Merge(g, F) = [nodes |-> g.nodes \union F, edges |-> g.edges]
  BY WithNodesOrEdges, Zenon DEF Merge, IsGraph
<1> QED  BY <1>1 DEF IsGraph

\* ... when edges are taken away ...
LEMMA FewerEdges ==
  ASSUME NEW g, IsGraph(g), NEW S \in SUBSET g.edges
  PROVE  IsGraph([g EXCEPT !.edges = S]) /\ [g EXCEPT !.edges = S].edges = S
<1>1. [g EXCEPT !.edges = S] = [nodes |-> g.nodes, edges |-> S]
  BY WithNodesOrEdges, Zenon DEF IsGraph
<1> QED  BY <1>1 DEF IsGraph

LEMMA UnlinkGraph ==
  ASSUME NEW g, IsGraph(g), NEW F, NEW rels
  PROVE  /\ IsGraph(UnlinkFrom(g, F, rels)) /\ IsGraph(UnlinkInto(g, F, rels))
         /\ UnlinkFrom(g, F, rels).edges = {e \in g.edges : ~(e[1] \in F /\ e[2] \in rels)}
         /\ UnlinkInto(g, F, rels).edges = {e \in g.edges : ~(e[3] \in F /\ e[2] \in rels)}
<1> DEFINE S == {e \in g.edges : ~(e[1] \in F /\ e[2] \in rels)}
           R == {e \in g.edges : ~(e[3] \in F /\ e[2] \in rels)}
<1>1. UnlinkFrom(g, F, rels) = [g EXCEPT !.edges = S]
  BY DEF UnlinkFrom
<1>2. UnlinkInto(g, F, rels) = [g EXCEPT !.edges = R]
  BY DEF UnlinkInto
<1>3. S \in SUBSET g.edges /\ R \in SUBSET g.edges
  OBVIOUS
<1> HIDE DEF S, R
<1>4. /\ IsGraph([g EXCEPT !.edges = S]) /\ [g EXCEPT !.edges = S].edges = S
      /\ IsGraph([g EXCEPT !.edges = R]) /\ [g EXCEPT !.edges = R].edges = R
  BY <1>3, FewerEdges
<1> QED  BY <1>1, <1>2, <1>4 DEF S, R

\* ... and when nodes are linked by a relation they may have.
LEMMA LinkGraph ==
  ASSUME NEW g, IsGraph(g), NEW F, NEW rel \in Relations, NEW T,
         \A a \in F, b \in T : Shaped(<<a, rel, b>>)
  PROVE  /\ IsGraph(Link(g, F, rel, T))
         /\ Link(g, F, rel, T).edges = g.edges \union (F \X {rel} \X T)
<1> DEFINE N == g.nodes \union F \union T
           A == F \X {rel} \X T
<1>1. Link(g, F, rel, T) = [nodes |-> N, edges |-> g.edges \union A]
  BY DEF Link
<1>2. A \subseteq N \X Relations \X N /\ g.nodes \subseteq N
  OBVIOUS
<1>3. \A e \in A : Shaped(e)
  <2> SUFFICES ASSUME NEW a \in F, NEW b \in T PROVE Shaped(<<a, rel, b>>)
    OBVIOUS
  <2> QED  OBVIOUS
<1> HIDE DEF N, A
<1>4. g.edges \union A \subseteq N \X Relations \X N
  BY <1>2 DEF IsGraph
<1>5. \A e \in g.edges \union A : Shaped(e)
  BY <1>3 DEF IsGraph
<1> QED  BY <1>1, <1>4, <1>5 DEF IsGraph, A

\* What one transaction leaves of the edges there are: none of the event's own
\* aggregate, none at a node it removes; and it adds what the event claims, which
\* for a match is left to the second transaction.  Courses only add.
Keeps(ev, e) ==
  /\ ev.kind = "faculty_course" \/ Owner(e) # Aggregate(ev)
  /\ e[1] \notin Removes(ev) /\ e[3] \notin Removes(ev)
Adds(ev) == IF ev.kind = "project_faculty_match" THEN {} ELSE Claims(ev)

LEMMA ProjectDeletes ==
  ASSUME NEW g, IsGraph(g), NEW ev, IsEvent(ev),
         ev.kind \in {"project.deleted", "application.deleted"}
  PROVE  /\ Project(g, ev).edges = {e \in g.edges : Keeps(ev, e)} \union Adds(ev)
         /\ IsGraph(Project(g, ev))
<1>1. Adds(ev) = {}
  BY DEF Adds, Claims
<1>2. Project(g, ev) = DetachDelete(g, Removes(ev))
  BY DEF Project, DeleteProjectNode, DeleteApplicationNode, Removes
<1>3. ASSUME NEW e \in g.edges, e[1] \notin Removes(ev), e[3] \notin Removes(ev)
      PROVE  Owner(e) # Aggregate(ev)
  <2>1. Shaped(e)
    BY DEF IsGraph
  <2> QED
    BY <1>3, <2>1 DEF Shaped, IsNode, Owner, OwnerNode, KindOf, LabelOf, Relations, Removes,
       Aggregate, ProjectNode, ApplicationNode, Node, IsEvent
<1>4. Project(g, ev).edges = {e \in g.edges : Keeps(ev, e)}
  BY <1>2, <1>3 DEF DetachDelete, Keeps
<1>5. IsGraph(Project(g, ev))
  BY <1>2 DEF DetachDelete, IsGraph
<1> QED  BY <1>1, <1>4, <1>5

LEMMA LinkLast ==
  ASSUME NEW g, NEW ev, IsEvent(ev), NEW bare, IsGraph(bare), NEW F, NEW rel \in Relations, NEW T,
         Project(g, ev) = Link(bare, F, rel, T),
         bare.edges = {e \in g.edges : Keeps(ev, e)},
         Adds(ev) = F \X {rel} \X T
  PROVE  /\ Project(g, ev).edges = {e \in g.edges : Keeps(ev, e)} \union Adds(ev)
         /\ IsGraph(Project(g, ev))
<1>1. \A e \in Adds(ev) : Shaped(e)
  BY ClaimsAreOwned DEF Adds
<1>2. \A a \in F, b \in T : Shaped(<<a, rel, b>>)
  BY <1>1
<1>3. /\ IsGraph(Link(bare, F, rel, T))
      /\ Link(bare, F, rel, T).edges = bare.edges \union (F \X {rel} \X T)
  BY <1>2, LinkGraph
<1> QED  BY <1>3

LEMMA ProjectAddsCourse ==
  ASSUME NEW g, IsGraph(g), NEW ev, IsEvent(ev), ev.kind = "faculty_course"
  PROVE  /\ Project(g, ev).edges = {e \in g.edges : Keeps(ev, e)} \union Adds(ev)
         /\ IsGraph(Project(g, ev))
<1> DEFINE F == PersonNode(ev.person)
           T == Node("Course", {ev.id})
<1>1. Project(g, ev) = Link(g, F, "TEACHES", T)
  BY DEF Project, ProjectCourse
<1>2. Adds(ev) = F \X {"TEACHES"} \X T
  BY DEF Adds, Claims
<1>3. {e \in g.edges : Keeps(ev, e)} = g.edges
  BY DEF Keeps, Removes
<1>4. "TEACHES" \in Relations
  BY DEF Relations
<1> HIDE DEF F, T
<1> QED  BY <1>1, <1>2, <1>3, <1>4, LinkLast

LEMMA ProjectReplacesProfile ==
  ASSUME NEW g, IsGraph(g), NEW ev, IsEvent(ev), ev.kind = "user_profile"
  PROVE  /\ Project(g, ev).edges = {e \in g.edges : Keeps(ev, e)} \union Adds(ev)
         /\ IsGraph(Project(g, ev))
<1> DEFINE s == StudentNode(ev.id)
           tags == Tags(ev.interests)
           merged == Merge(g, s)
           bare == UnlinkFrom(merged, s, {"INTERESTED_IN"})
<1>1. Project(g, ev) = Link(bare, s, "INTERESTED_IN", tags)
  BY DEF Project, ProjectProfile
<1>2. Adds(ev) = s \X {"INTERESTED_IN"} \X tags
  BY DEF Adds, Claims
<1>3. ASSUME NEW e \in g.edges
      PROVE  Keeps(ev, e) <=> ~(e[1] \in s /\ e[2] \in {"INTERESTED_IN"})
  <2>1. Shaped(e)
    BY DEF IsGraph
  <2> QED
    BY <2>1 DEF Keeps, Removes, Shaped, IsNode, Owner, OwnerNode, KindOf, LabelOf, Relations,
       Aggregate, StudentNode, Node, IsEvent
<1> HIDE DEF s, tags
<1>4. IsGraph(merged) /\ merged.edges = g.edges
  BY MergeGraph
<1> HIDE DEF merged
<1>5. IsGraph(bare) /\ bare.edges = {e \in g.edges : ~(e[1] \in s /\ e[2] \in {"INTERESTED_IN"})}
  BY <1>4, UnlinkGraph
<1>6. bare.edges = {e \in g.edges : Keeps(ev, e)}
  BY <1>3, <1>5
<1>7. "INTERESTED_IN" \in Relations
  BY DEF Relations
<1> HIDE DEF bare
<1>8. IsGraph(bare)
  BY <1>5
<1> QED  BY <1>1, <1>2, <1>6, <1>7, <1>8, LinkLast

LEMMA ProjectDetachesMatch ==
  ASSUME NEW g, IsGraph(g), NEW ev, IsEvent(ev), ev.kind = "project_faculty_match"
  PROVE  /\ Project(g, ev).edges = {e \in g.edges : Keeps(ev, e)} \union Adds(ev)
         /\ IsGraph(Project(g, ev))
<1> DEFINE p == ProjectNode(ev.id)
           merged == Merge(g, p)
<1>1. Project(g, ev) = UnlinkFrom(merged, p, {"SUPERVISED_BY_FACULTY"})
  BY DEF Project, DetachMatch
<1>2. Adds(ev) = {}
  BY DEF Adds
<1>3. ASSUME NEW e \in g.edges
      PROVE  Keeps(ev, e) <=> ~(e[1] \in p /\ e[2] \in {"SUPERVISED_BY_FACULTY"})
  <2>1. Shaped(e)
    BY DEF IsGraph
  <2> QED
    BY <2>1 DEF Keeps, Removes, Shaped, IsNode, Owner, OwnerNode, KindOf, LabelOf, Relations,
       Aggregate, ProjectNode, Node, IsEvent
<1> HIDE DEF p
<1>4. IsGraph(merged) /\ merged.edges = g.edges
  BY MergeGraph
<1> HIDE DEF merged
<1>5. /\ IsGraph(Project(g, ev))
      /\ Project(g, ev).edges = {e \in g.edges : ~(e[1] \in p /\ e[2] \in {"SUPERVISED_BY_FACULTY"})}
  BY <1>1, <1>4, UnlinkGraph
<1> QED  BY <1>2, <1>3, <1>5

LEMMA ProjectReplacesPublication ==
  ASSUME NEW g, IsGraph(g), NEW ev, IsEvent(ev), ev.kind = "faculty_publication"
  PROVE  /\ Project(g, ev).edges = {e \in g.edges : Keeps(ev, e)} \union Adds(ev)
         /\ IsGraph(Project(g, ev))
<1> DEFINE p == Node("Publication", {ev.id})
           authors == Node("FacultyPerson", ev.authors)
           merged == Merge(g, p)
           bare == UnlinkInto(merged, p, {"AUTHORED"})
<1>1. Project(g, ev) = Link(bare, authors, "AUTHORED", p)
  BY DEF Project, ProjectPublication
<1>2. Adds(ev) = authors \X {"AUTHORED"} \X p
  BY DEF Adds, Claims
<1>3. ASSUME NEW e \in g.edges
      PROVE  Keeps(ev, e) <=> ~(e[3] \in p /\ e[2] \in {"AUTHORED"})
  <2>1. Shaped(e)
    BY DEF IsGraph
  <2> QED
    BY <2>1 DEF Keeps, Removes, Shaped, IsNode, Owner, OwnerNode, KindOf, LabelOf, Relations,
       Aggregate, Node, IsEvent
<1> HIDE DEF p, authors
<1>4. IsGraph(merged) /\ merged.edges = g.edges
  BY MergeGraph
<1> HIDE DEF merged
<1>5. IsGraph(bare) /\ bare.edges = {e \in g.edges : ~(e[3] \in p /\ e[2] \in {"AUTHORED"})}
  BY <1>4, UnlinkGraph
<1>6. bare.edges = {e \in g.edges : Keeps(ev, e)}
  BY <1>3, <1>5
<1>7. "AUTHORED" \in Relations
  BY DEF Relations
<1> HIDE DEF bare
<1>8. IsGraph(bare)
  BY <1>5
<1> QED  BY <1>1, <1>2, <1>6, <1>7, <1>8, LinkLast
LEMMA ReplaceTwice ==
  ASSUME NEW g, IsGraph(g), NEW ev, IsEvent(ev), NEW p, NEW T, NEW U,
         NEW r \in Relations, NEW q \in Relations, r # q,
         Project(g, ev) = Link(UnlinkFrom(Link(UnlinkFrom(Merge(g, p), p, {r}), p, r, T),
                                          p, {q}), p, q, U),
         \A e \in g.edges : Keeps(ev, e) <=> ~(e[1] \in p /\ e[2] \in {r, q}),
         Adds(ev) = (p \X {r} \X T) \union (p \X {q} \X U)
  PROVE  /\ Project(g, ev).edges = {e \in g.edges : Keeps(ev, e)} \union Adds(ev)
         /\ IsGraph(Project(g, ev))
<1> DEFINE A == p \X {r} \X T
           B == p \X {q} \X U
           merged == Merge(g, p)
           bare == UnlinkFrom(merged, p, {r})
           linked == Link(bare, p, r, T)
           torn == UnlinkFrom(linked, p, {q})
<1>1. Project(g, ev) = Link(torn, p, q, U)
  OBVIOUS
<1>2. Adds(ev) = A \union B /\ \A e \in A : e[2] = r
  OBVIOUS
<1>3. /\ \A n \in p, m \in T : Shaped(<<n, r, m>>)
      /\ \A n \in p, m \in U : Shaped(<<n, q, m>>)
  <2>1. \A e \in A \union B : Shaped(e)
    BY <1>2, ClaimsAreOwned DEF Adds
  <2> QED  BY <2>1
<1>4. IsGraph(merged) /\ merged.edges = g.edges
  BY MergeGraph
<1> HIDE DEF merged
<1>5. IsGraph(bare) /\ bare.edges = {e \in g.edges : ~(e[1] \in p /\ e[2] \in {r})}
  BY <1>4, UnlinkGraph
<1> HIDE DEF bare
<1>6. IsGraph(linked) /\ linked.edges = bare.edges \union A
  <2>1. IsGraph(bare)
    BY <1>5
  <2> QED  BY <2>1, <1>3, LinkGraph
<1> HIDE DEF linked
<1>7. IsGraph(torn) /\ torn.edges = {e \in linked.edges : ~(e[1] \in p /\ e[2] \in {q})}
  BY <1>6, UnlinkGraph
<1> HIDE DEF torn
<1>8. IsGraph(Project(g, ev)) /\ Project(g, ev).edges = torn.edges \union B
  <2>1. IsGraph(torn)
    BY <1>7
  <2>2. IsGraph(Link(torn, p, q, U)) /\ Link(torn, p, q, U).edges = torn.edges \union B
    BY <2>1, <1>3, LinkGraph
  <2> QED  BY <2>2, <1>1
<1> HIDE DEF A, B
<1>9. torn.edges = {e \in g.edges : Keeps(ev, e)} \union A
  BY <1>2, <1>5, <1>6, <1>7
<1> QED  BY <1>2, <1>8, <1>9

LEMMA ProjectReplacesProject ==
  ASSUME NEW g, IsGraph(g), NEW ev, IsEvent(ev), ev.kind = "project"
  PROVE  /\ Project(g, ev).edges = {e \in g.edges : Keeps(ev, e)} \union Adds(ev)
         /\ IsGraph(Project(g, ev))
<1> DEFINE p == ProjectNode(ev.id)
           lead == Node("Supervisor", {ev.supervisor})
           tags == Tags(ev.tags)
<1>1. Project(g, ev) =
        Link(UnlinkFrom(Link(UnlinkFrom(Merge(g, p), p, {"SUPERVISED_BY"}),
                             p, "SUPERVISED_BY", lead), p, {"TAGGED_WITH"}),
             p, "TAGGED_WITH", tags)
  BY DEF Project, ProjectProject
<1>2. Adds(ev) = (p \X {"SUPERVISED_BY"} \X lead) \union (p \X {"TAGGED_WITH"} \X tags)
  BY DEF Adds, Claims
<1>3. ASSUME NEW e \in g.edges
      PROVE  Keeps(ev, e) <=> ~(e[1] \in p /\ e[2] \in {"SUPERVISED_BY", "TAGGED_WITH"})
  <2>1. Shaped(e)
    BY DEF IsGraph
  <2> QED
    BY <2>1 DEF Keeps, Removes, Shaped, IsNode, Owner, OwnerNode, KindOf, LabelOf, Relations,
       Aggregate, ProjectNode, Node, IsEvent
<1>4. "SUPERVISED_BY" \in Relations /\ "TAGGED_WITH" \in Relations
  BY DEF Relations
<1>5. "SUPERVISED_BY" # "TAGGED_WITH"
  OBVIOUS
<1> HIDE DEF p, lead, tags
<1> QED  BY <1>1, <1>2, <1>3, <1>4, <1>5, ReplaceTwice

LEMMA ProjectReplacesPerson ==
  ASSUME NEW g, IsGraph(g), NEW ev, IsEvent(ev), ev.kind = "faculty_person"
  PROVE  /\ Project(g, ev).edges = {e \in g.edges : Keeps(ev, e)} \union Adds(ev)
         /\ IsGraph(Project(g, ev))
<1> DEFINE f == PersonNode(ev.id)
           campus == Node("Campus", {ev.campus})
           tags == Tags(ev.interests)
<1>1. Project(g, ev) =
        Link(UnlinkFrom(Link(UnlinkFrom(Merge(g, f), f, {"LOCATED_AT"}),
                             f, "LOCATED_AT", campus), f, {"HAS_INTEREST"}),
             f, "HAS_INTEREST", tags)
  BY DEF Project, ProjectPerson
<1>2. Adds(ev) = (f \X {"LOCATED_AT"} \X campus) \union (f \X {"HAS_INTEREST"} \X tags)
  BY DEF Adds, Claims
<1>3. ASSUME NEW e \in g.edges
      PROVE  Keeps(ev, e) <=> ~(e[1] \in f /\ e[2] \in {"LOCATED_AT", "HAS_INTEREST"})
  <2>1. Shaped(e)
    BY DEF IsGraph
  <2> QED
    BY <2>1 DEF Keeps, Removes, Shaped, IsNode, Owner, OwnerNode, KindOf, LabelOf, Relations,
       Aggregate, PersonNode, Node, IsEvent
<1>4. "LOCATED_AT" \in Relations /\ "HAS_INTEREST" \in Relations
  BY DEF Relations
<1>5. "LOCATED_AT" # "HAS_INTEREST"
  OBVIOUS
<1> HIDE DEF f, campus, tags
<1> QED  BY <1>1, <1>2, <1>3, <1>4, <1>5, ReplaceTwice

LEMMA ProjectReplacesApplication ==
  ASSUME NEW g, IsGraph(g), NEW ev, IsEvent(ev), ev.kind = "application"
  PROVE  /\ Project(g, ev).edges = {e \in g.edges : Keeps(ev, e)} \union Adds(ev)
         /\ IsGraph(Project(g, ev))
<1> DEFINE a == ApplicationNode(ev.id)
           student == StudentNode(ev.student)
           p == ProjectNode(ev.project)
           A == student \X {"SUBMITTED"} \X a
           B == a \X {"TARGETS"} \X p
           merged == Merge(g, a)
           unsubmitted == UnlinkInto(merged, a, {"SUBMITTED"})
           bare == UnlinkFrom(unsubmitted, a, {"TARGETS"})
           submitted == Link(bare, student, "SUBMITTED", a)
<1>1. Project(g, ev) = Link(submitted, a, "TARGETS", p)
  BY DEF Project, ProjectApplication
<1>2. Adds(ev) = A \union B
  BY DEF Adds, Claims
<1>3. \A e \in A \union B : Shaped(e)
  BY <1>2, ClaimsAreOwned DEF Adds
<1>4. /\ \A n \in student, m \in a : Shaped(<<n, "SUBMITTED", m>>)
      /\ \A n \in a, m \in p : Shaped(<<n, "TARGETS", m>>)
  <2> HIDE DEF a, student, p
  <2> QED  BY <1>3
<1>5. "SUBMITTED" \in Relations /\ "TARGETS" \in Relations
  BY DEF Relations
<1>6. ASSUME NEW e \in g.edges
      PROVE  Keeps(ev, e) <=> /\ ~(e[3] \in a /\ e[2] \in {"SUBMITTED"})
                              /\ ~(e[1] \in a /\ e[2] \in {"TARGETS"})
  <2>1. Shaped(e)
    BY DEF IsGraph
  <2> QED
    BY <2>1 DEF Keeps, Removes, Shaped, IsNode, Owner, OwnerNode, KindOf, LabelOf, Relations,
       Aggregate, ApplicationNode, Node, IsEvent
<1> HIDE DEF a, student, p
<1>7. IsGraph(merged) /\ merged.edges = g.edges
  BY MergeGraph
<1> HIDE DEF merged
<1>8. /\ IsGraph(unsubmitted)
      /\ unsubmitted.edges = {e \in g.edges : ~(e[3] \in a /\ e[2] \in {"SUBMITTED"})}
  BY <1>7, UnlinkGraph
<1> HIDE DEF unsubmitted
<1>9. /\ IsGraph(bare)
      /\ bare.edges = {e \in unsubmitted.edges : ~(e[1] \in a /\ e[2] \in {"TARGETS"})}
  BY <1>8, UnlinkGraph
<1>10. bare.edges = {e \in g.edges : Keeps(ev, e)}
  BY <1>6, <1>8, <1>9
<1> HIDE DEF bare
<1>11. IsGraph(submitted) /\ submitted.edges = bare.edges \union A
  <2>1. IsGraph(bare)
    BY <1>9
  <2> QED  BY <2>1, <1>4, <1>5, LinkGraph
<1> HIDE DEF submitted
<1>12. IsGraph(Project(g, ev)) /\ Project(g, ev).edges = submitted.edges \union B
  <2>1. IsGraph(submitted)
    BY <1>11
  <2>2. /\ IsGraph(Link(submitted, a, "TARGETS", p))
        /\ Link(submitted, a, "TARGETS", p).edges = submitted.edges \union B
    BY <2>1, <1>4, <1>5, LinkGraph
  <2> QED  BY <2>2, <1>1
<1> HIDE DEF A, B
<1> QED  BY <1>2, <1>10, <1>11, <1>12

\* What projecting an event does to a graph, whatever the event is about.
LEMMA ProjectKeepsAndAdds ==
  ASSUME NEW g, IsGraph(g), NEW ev, IsEvent(ev)
  PROVE  /\ Project(g, ev).edges = {e \in g.edges : Keeps(ev, e)} \union Adds(ev)
         /\ IsGraph(Project(g, ev))
<1>1. \/ ev.kind \in {"project.deleted", "application.deleted"}
      \/ ev.kind = "project" \/ ev.kind = "user_profile" \/ ev.kind = "application"
      \/ ev.kind = "faculty_person" \/ ev.kind = "faculty_publication"
      \/ ev.kind = "faculty_course" \/ ev.kind = "project_faculty_match"
  BY DEF IsEvent, Kinds
<1> QED
  BY <1>1, ProjectDeletes, ProjectReplacesProject, ProjectReplacesProfile,
     ProjectReplacesApplication, ProjectReplacesPerson, ProjectReplacesPublication,
     ProjectAddsCourse, ProjectDetachesMatch

\* The second transaction of a match adds what the match claims.
LEMMA AttachAdds ==
  ASSUME NEW g, IsGraph(g), NEW ev, IsEvent(ev), ev.kind = "project_faculty_match", Confirms(ev)
  PROVE  AttachMatch(g, ev).edges = g.edges \union Claims(ev) /\ IsGraph(AttachMatch(g, ev))
<1> DEFINE p == ProjectNode(ev.id)
           f == PersonNode(ev.person)
<1>1. AttachMatch(g, ev) = Link(g, p, "SUPERVISED_BY_FACULTY", f)
  BY DEF AttachMatch
<1>2. Claims(ev) = p \X {"SUPERVISED_BY_FACULTY"} \X f
  BY DEF Claims
<1>3. \A e \in Claims(ev) : Shaped(e)
  BY ClaimsAreOwned
<1>4. "SUPERVISED_BY_FACULTY" \in Relations
  BY DEF Relations
<1> HIDE DEF p, f
<1>5. \A n \in p, m \in f : Shaped(<<n, "SUPERVISED_BY_FACULTY", m>>)
  BY <1>2, <1>3
<1> QED  BY <1>1, <1>2, <1>4, <1>5, LinkGraph
-----------------------------------------------------------------------------
(***************************************************************************)
(* The consumer.  The events that had no older one applied after them are  *)
(* settled, but for the page in hand; the events of the page are shown as  *)
(* far as it is projected.  An aggregate whose last event is settled, or   *)
(* is in the page already, has the edges which that event claims, less     *)
(* those that later events took away.  A service that only polls has all   *)
(* events up to its checkpoint settled.                                    *)
(***************************************************************************)
\* The events are well formed, and a course stays with its teacher: its edges are
\* never taken away.
IsFeed(F) ==
  /\ Len(F) \in Nat
  /\ \A i \in 1..Len(F) : IsEvent(F[i])
  /\ \A i, j \in 1..Len(F) :
       F[i].kind = "faculty_course" /\ F[j].kind = "faculty_course" /\ F[i].id = F[j].id
         => F[i].person = F[j].person

PageInv ==
  /\ acked \in 0..Len(feed) /\ shown \in 0..Len(feed) /\ replays \in Nat
  /\ page \in [lo : Nat, next : Nat, hi : Nat] /\ half \in BOOLEAN
  /\ Busy => /\ 1 <= page.lo /\ page.lo <= page.next /\ page.next <= page.hi + 1
             /\ page.lo <= page.hi /\ page.hi <= Len(feed)
  /\ half => Busy /\ page.next <= page.hi
  /\ replays = 0 => acked <= shown /\ (Busy => page.lo = acked + 1)

IsLast(i) == \A k \in i + 1..Len(feed) : Aggregate(feed[k]) # Aggregate(feed[i])
Takes(k, e) == e[1] \in Removes(feed[k]) \/ e[3] \in Removes(feed[k])
\* The page in hand has changed something.
Begun == Busy /\ (page.lo < page.next \/ half)
Settled(i) == i <= shown /\ (Begun => i < page.lo)
InPage(i) == Busy /\ page.lo <= i /\ i < page.next

\* What became of an event after it was projected.
AppliedAfter(i, k) == k \in i + 1..Len(feed) /\ ((Settled(i) /\ k <= shown) \/ InPage(k))

Shows(i) ==
  /\ \A e \in graph.edges : Owner(e) = Aggregate(feed[i]) =>
       e \in Claims(feed[i]) /\ \A k \in i + 1..Len(feed) : AppliedAfter(i, k) => ~Takes(k, e)
  /\ \A e \in Claims(feed[i]) :
       (\A k \in i + 1..Len(feed) : ~Takes(k, e)) => e \in graph.edges

AllShown == \A i \in 1..Len(feed) : IsLast(i) /\ (Settled(i) \/ InPage(i)) => Shows(i)

\* Between its two transactions a confirmed match has no edge.
HalfInv ==
  half => /\ feed[page.next].kind = "project_faculty_match" /\ Confirms(feed[page.next])
          /\ \A e \in graph.edges : Owner(e) # Aggregate(feed[page.next])

\* A course is taught by whom some event said.
Taught ==
  \A e \in graph.edges : e[2] = "TEACHES" =>
    \E i \in 1..Len(feed) : feed[i].kind = "faculty_course" /\ e \in Claims(feed[i])

GraphInv ==
  /\ IsFeed(feed) /\ PageInv /\ IsGraph(graph)
  /\ AllShown /\ HalfInv /\ Taught /\ OneFacultyEdge

\* The edges of a course are those that any event about it claims.
LEMMA CoursesAgree ==
  ASSUME IsFeed(feed), IsGraph(graph), Taught,
         NEW k \in 1..Len(feed), feed[k].kind = "faculty_course",
         NEW e \in graph.edges, Owner(e) = Aggregate(feed[k])
  PROVE  e \in Claims(feed[k])
<1>1. Shaped(e) /\ IsEvent(feed[k])
  BY DEF IsGraph, IsFeed
<1>2. e[2] = "TEACHES"
  BY <1>1 DEF Shaped, Owner, KindOf, Relations, Aggregate
<1>3. PICK i \in 1..Len(feed) : feed[i].kind = "faculty_course" /\ e \in Claims(feed[i])
  BY <1>2 DEF Taught
<1>4. Owner(e) = Aggregate(feed[i])
  BY <1>3, ClaimsAreOwned DEF IsFeed
<1>5. feed[i].id = feed[k].id
  BY <1>3, <1>4 DEF Aggregate
<1>6. feed[i].person = feed[k].person
  BY <1>3, <1>5 DEF IsFeed
<1>7. Claims(feed[i]) = Claims(feed[k])
  BY <1>3, <1>5, <1>6 DEF Claims
<1> QED  BY <1>3, <1>7

\* One more event of the page is projected: as a whole (done), or the first
\* transaction of a confirmed match.
LEMMA OneMoreEvent ==
  ASSUME IsFeed(feed), PageInv, IsGraph(graph), AllShown, Taught,
         Busy, page.next <= page.hi, UNCHANGED <<feed, shown>>,
         NEW done, done \/ half', NEW ev, ev = feed[page.next],
         graph'.edges = {e \in graph.edges : Keeps(ev, e)}
                          \union (IF done THEN Claims(ev) ELSE {}),
         page' = IF done THEN [page EXCEPT !.next = @ + 1] ELSE page
  PROVE  AllShown'
<1> DEFINE k == page.next
<1>1. /\ k \in 1..Len(feed) /\ IsEvent(ev)
      /\ Len(feed) \in Nat /\ shown \in Nat /\ page.lo \in Nat /\ page.hi \in Nat
  BY DEF PageInv, IsFeed
<1>2. /\ page'.lo = page.lo /\ page'.next = IF done THEN k + 1 ELSE k
      /\ Busy'
  BY DEF PageInv, Busy, NoPage
<1> SUFFICES ASSUME NEW i \in 1..Len(feed), IsLast(i)', Settled(i)' \/ InPage(i)'
             PROVE  Shows(i)'
  BY DEF AllShown
<1>3. IsLast(i) /\ (Settled(i)' => Settled(i) /\ i < k)
  <2>1. Begun'
    BY <1>1, <1>2 DEF Begun, PageInv
  <2>2. Settled(i)' => i < page.lo
    BY <1>2, <2>1 DEF Settled
  <2> QED  BY <1>1, <2>2 DEF IsLast, Settled, PageInv
<1>4. \A j \in 1..Len(feed) : InPage(j)' <=> InPage(j) \/ (done /\ j = k)
  BY <1>1, <1>2 DEF InPage, PageInv
<1>5. CASE i = k
  <2>1. done /\ ~Settled(i)'
    BY <1>1, <1>3, <1>4, <1>5 DEF InPage
  <2>2. \A j \in i + 1..Len(feed) : ~AppliedAfter(i, j)'
    BY <1>1, <1>2, <1>3, <1>4, <1>5, <2>1 DEF AppliedAfter, InPage
  <2>3. ASSUME NEW e \in graph'.edges, Owner(e) = Aggregate(ev)
        PROVE  e \in Claims(ev)
    <3>1. CASE e \in Claims(ev)
      BY <3>1
    <3>2. CASE e \in graph.edges /\ Keeps(ev, e)
      BY <1>1, <2>3, <3>2, CoursesAgree DEF Keeps
    <3> QED  BY <3>1, <3>2
  <2>4. Claims(ev) \subseteq graph'.edges
    BY <2>1
  <2> HIDE DEF k
  <2> QED  BY <1>5, <2>2, <2>3, <2>4 DEF Shows, k
<1>6. CASE i # k
  <2>1. i < k /\ (Settled(i) \/ InPage(i))
    BY <1>1, <1>3, <1>4, <1>6 DEF InPage
  <2>2. Aggregate(ev) # Aggregate(feed[i]) /\ k \in i + 1..Len(feed)
    BY <1>1, <1>3, <2>1 DEF IsLast
  <2>3. Shows(i)
    BY <1>3, <2>1 DEF AllShown
  <2>4. ASSUME NEW e, Owner(e) = Aggregate(feed[i])
        PROVE  e \in graph'.edges <=> e \in graph.edges /\ ~Takes(k, e)
    <3>1. e \notin Claims(ev)
      BY <1>1, <2>2, <2>4, ClaimsAreOwned
    <3>2. Keeps(ev, e) <=> ~Takes(k, e)
      BY <2>2, <2>4 DEF Keeps, Takes
    <3> QED  BY <3>1, <3>2
  <2>5. \A j \in i + 1..Len(feed) : AppliedAfter(i, j)' => AppliedAfter(i, j) \/ j = k
    BY <1>3, <1>4 DEF AppliedAfter
  <2>6. \A e \in Claims(feed[i]) : Owner(e) = Aggregate(feed[i])
    BY ClaimsAreOwned DEF IsFeed
  <2>7. \A j, e : Takes(j, e)' <=> Takes(j, e)
    BY DEF Takes
  <2>8. ASSUME NEW e \in graph'.edges, Owner(e) = Aggregate(feed[i])
        PROVE  /\ e \in Claims(feed[i])
               /\ \A j \in i + 1..Len(feed) : AppliedAfter(i, j)' => ~Takes(j, e)'
    BY <2>3, <2>4, <2>5, <2>7, <2>8 DEF Shows
  <2>9. ASSUME NEW e \in Claims(feed[i]), \A j \in i + 1..Len(feed) : ~Takes(j, e)'
        PROVE  e \in graph'.edges
    BY <2>2, <2>3, <2>4, <2>6, <2>7, <2>9 DEF Shows
  <2> QED  BY <2>8, <2>9 DEF Shows
<1> QED  BY <1>5, <1>6
\* An edge to a confirmed head is owned by its project's match.
LEMMA HeadsAreOwned ==
  ASSUME NEW g, IsGraph(g), NEW e \in g.edges, e[2] = "SUPERVISED_BY_FACULTY"
  PROVE  Owner(e) = <<"project_faculty_match", e[1][2]>> /\ e[1] = <<"Project", e[1][2]>>
BY DEF IsGraph, Shaped, IsNode, Owner, OwnerNode, KindOf, LabelOf

\* A match claims one edge at most.
LEMMA OneClaim ==
  ASSUME NEW ev, ev.kind = "project_faculty_match", NEW e \in Claims(ev), NEW f \in Claims(ev)
  PROVE  e = f
<1>1. CASE Confirms(ev)
  BY <1>1 DEF Claims, ProjectNode, PersonNode, Node
<1>2. CASE ~Confirms(ev)
  BY <1>2 DEF Claims
<1> QED  BY <1>1, <1>2

\* The page that is projected, and what is projected of it.
LEMMA ProjectEventStep ==
  ASSUME GraphInv, ProjectEvent
  PROVE  GraphInv'
<1> DEFINE k == page.next
           ev == feed[k]
           more == ev.kind = "project_faculty_match" /\ Confirms(ev)
<1>1. /\ Busy /\ page.next <= page.hi /\ ~half
      /\ graph' = Project(graph, ev) /\ half' = more
      /\ page' = IF more THEN page ELSE [page EXCEPT !.next = @ + 1]
      /\ UNCHANGED <<feed, acked, shown, replays>>
  BY DEF ProjectEvent
<1>2. IsFeed(feed) /\ PageInv /\ IsGraph(graph) /\ AllShown /\ Taught /\ OneFacultyEdge
  BY DEF GraphInv
<1>3. k \in 1..Len(feed) /\ IsEvent(ev)
  BY <1>1, <1>2 DEF PageInv, IsFeed
<1>4. /\ IsGraph(Project(graph, ev))
      /\ Project(graph, ev).edges = {e \in graph.edges : Keeps(ev, e)} \union Adds(ev)
  BY <1>2, <1>3, ProjectKeepsAndAdds
<1>5. Adds(ev) = IF ~more THEN Claims(ev) ELSE {}
  BY <1>3 DEF Adds, Claims
<1>6. PageInv'
  BY <1>1, <1>2, <1>3 DEF PageInv, Busy, NoPage
<1>7. AllShown'
  <2>1. graph'.edges = {e \in graph.edges : Keeps(ev, e)} \union (IF ~more THEN Claims(ev) ELSE {})
    BY <1>1, <1>4, <1>5
  <2>2. page' = IF ~more THEN [page EXCEPT !.next = @ + 1] ELSE page
    BY <1>1
  <2>3. ev = feed[page.next]
    OBVIOUS
  <2> HIDE DEF more, ev, k
  <2> QED  BY <1>1, <1>2, <2>1, <2>2, <2>3, OneMoreEvent
<1>8. HalfInv'
  <2> SUFFICES ASSUME more PROVE HalfInv'
    BY <1>1 DEF HalfInv
  <2>1. \A e \in graph'.edges : Owner(e) # Aggregate(ev)
    BY <1>1, <1>4, <1>5 DEF Keeps
  <2> QED  BY <1>1, <2>1 DEF HalfInv
<1>9. Taught'
  <2> SUFFICES ASSUME NEW e \in graph'.edges, e[2] = "TEACHES"
               PROVE  \E i \in 1..Len(feed) : feed[i].kind = "faculty_course" /\ e \in Claims(feed[i])
    BY <1>1 DEF Taught
  <2>1. CASE e \in graph.edges
    BY <1>2, <2>1 DEF Taught
  <2>2. CASE e \in Claims(ev)
    <3>1. Shaped(e) /\ Owner(e) = Aggregate(ev)
      BY <1>3, <2>2, ClaimsAreOwned
    <3>2. ev.kind = "faculty_course"
      BY <1>3, <3>1 DEF Owner, KindOf, Aggregate, IsEvent, Kinds
    <3> QED  BY <1>3, <2>2, <3>2
  <2> QED  BY <1>1, <1>4, <1>5, <2>1, <2>2
<1>10. OneFacultyEdge'
  <2> SUFFICES ASSUME NEW e \in graph'.edges, NEW f \in graph'.edges,
                      e[2] = "SUPERVISED_BY_FACULTY", f[2] = "SUPERVISED_BY_FACULTY", e[1] = f[1]
               PROVE  e = f
    BY DEF OneFacultyEdge
  <2>1. e \in graph.edges /\ f \in graph.edges
    <3>1. ASSUME NEW h \in Adds(ev) PROVE h[2] # "SUPERVISED_BY_FACULTY"
      <4>1. ev.kind # "project_faculty_match" /\ h \in Claims(ev)
        BY <3>1 DEF Adds
      <4>2. Shaped(h) /\ Owner(h) = Aggregate(ev)
        BY <1>3, <4>1, ClaimsAreOwned
      <4> QED  BY <1>3, <4>1, <4>2 DEF Owner, KindOf, Aggregate, IsEvent, Kinds
    <3> QED  BY <1>1, <1>4, <3>1
  <2> QED  BY <1>2, <2>1 DEF OneFacultyEdge
<1> QED  BY <1>1, <1>2, <1>4, <1>6, <1>7, <1>8, <1>9, <1>10 DEF GraphInv

LEMMA FinishMatchStep ==
  ASSUME GraphInv, FinishMatch
  PROVE  GraphInv'
<1> DEFINE k == page.next
           ev == feed[k]
<1>1. /\ half /\ graph' = AttachMatch(graph, ev) /\ half' = FALSE
      /\ page' = [page EXCEPT !.next = @ + 1]
      /\ UNCHANGED <<feed, acked, shown, replays>>
  BY DEF FinishMatch
<1>2. IsFeed(feed) /\ PageInv /\ IsGraph(graph) /\ AllShown /\ Taught /\ OneFacultyEdge
  BY DEF GraphInv
<1>3. /\ Busy /\ page.next <= page.hi /\ k \in 1..Len(feed) /\ IsEvent(ev)
      /\ ev.kind = "project_faculty_match" /\ Confirms(ev)
      /\ \A e \in graph.edges : Owner(e) # Aggregate(ev)
  BY <1>1 DEF GraphInv, HalfInv, PageInv, IsFeed
<1>4. IsGraph(AttachMatch(graph, ev)) /\ AttachMatch(graph, ev).edges = graph.edges \union Claims(ev)
  BY <1>2, <1>3, AttachAdds
<1>5. PageInv'
  <2>1. page' \in [lo : Nat, next : Nat, hi : Nat]
    BY <1>1, <1>2 DEF PageInv
  <2>2. page'.lo = page.lo /\ page'.next = page.next + 1 /\ page'.hi = page.hi
    BY <1>1, <1>2 DEF PageInv
  <2>3. /\ 1 <= page'.lo /\ page'.lo <= page'.next /\ page'.next <= page'.hi + 1
        /\ page'.lo <= page'.hi /\ page'.hi <= Len(feed)
    BY <1>2, <1>3, <2>2 DEF PageInv
  <2>4. /\ acked \in 0..Len(feed) /\ shown \in 0..Len(feed) /\ replays \in Nat
        /\ replays = 0 => acked <= shown /\ page'.lo = acked + 1
    BY <1>2, <1>3, <2>2 DEF PageInv
  <2> QED  BY <1>1, <2>1, <2>3, <2>4 DEF PageInv
<1>6. {e \in graph.edges : Keeps(ev, e)} = graph.edges
  BY <1>3 DEF Keeps, Removes
<1>7. AllShown'
  <2>1. graph'.edges = {e \in graph.edges : Keeps(ev, e)} \union (IF TRUE THEN Claims(ev) ELSE {})
    BY <1>1, <1>4, <1>6
  <2>2. page' = IF TRUE THEN [page EXCEPT !.next = @ + 1] ELSE page
    BY <1>1
  <2>3. ev = feed[page.next]
    OBVIOUS
  <2> HIDE DEF ev, k
  <2> QED  BY <1>1, <1>2, <1>3, <2>1, <2>2, <2>3, OneMoreEvent
<1>8. HalfInv'
  BY <1>1 DEF HalfInv
<1>9. ASSUME NEW e \in Claims(ev) PROVE e[2] = "SUPERVISED_BY_FACULTY"
  BY <1>3, <1>9 DEF Claims
<1>10. Taught'
  BY <1>1, <1>2, <1>4, <1>9 DEF Taught
<1>11. OneFacultyEdge'
  <2> SUFFICES ASSUME NEW e \in graph'.edges, NEW f \in graph'.edges,
                      e[2] = "SUPERVISED_BY_FACULTY", f[2] = "SUPERVISED_BY_FACULTY", e[1] = f[1]
               PROVE  e = f
    BY DEF OneFacultyEdge
  <2>1. e \in graph.edges \union Claims(ev) /\ f \in graph.edges \union Claims(ev)
    BY <1>1, <1>4
  <2>2. Owner(e) = Owner(f)
    <3>1. IsGraph(graph') /\ e \in graph'.edges /\ f \in graph'.edges
      BY <1>1, <1>4
    <3> QED  BY <3>1, HeadsAreOwned
  <2>3. \A h \in Claims(ev) : Owner(h) = Aggregate(ev)
    BY <1>3, ClaimsAreOwned
  <2>4. CASE e \in Claims(ev)
    <3>1. f \in Claims(ev)
      BY <1>3, <2>1, <2>2, <2>3, <2>4
    <3> QED  BY <1>3, <2>4, <3>1, OneClaim
  <2>5. CASE e \in graph.edges
    <3>1. f \in graph.edges
      BY <1>3, <2>1, <2>2, <2>3, <2>5
    <3> QED  BY <1>2, <2>5, <3>1 DEF OneFacultyEdge
  <2> QED  BY <2>1, <2>4, <2>5
<1> QED  BY <1>1, <1>2, <1>4, <1>5, <1>7, <1>8, <1>10, <1>11 DEF GraphInv

\* Where the consumer stands in the feed, not what the graph shows, is what the
\* other steps change.
LEMMA OnlyPlaces ==
  ASSUME GraphInv, PageInv', UNCHANGED <<feed, graph>>, half' => half /\ page' = page,
         \A i \in 1..Len(feed) : (Settled(i) \/ InPage(i))' => Settled(i) \/ InPage(i),
         \A i \in 1..Len(feed), j \in 1..Len(feed) :
           (Settled(i) \/ InPage(i))' /\ AppliedAfter(i, j)' => AppliedAfter(i, j)
  PROVE  GraphInv'
<1>1. AllShown'
  <2> SUFFICES ASSUME NEW i \in 1..Len(feed), IsLast(i)', (Settled(i) \/ InPage(i))'
               PROVE  Shows(i)'
    BY DEF AllShown
  <2>1. IsLast(i)
    BY DEF IsLast
  <2>2. Shows(i)
    BY <2>1 DEF AllShown, GraphInv
  <2>3. \A j, e : Takes(j, e)' <=> Takes(j, e)
    BY DEF Takes
  <2>4. \A j \in i + 1..Len(feed) : AppliedAfter(i, j)' => AppliedAfter(i, j)
    BY DEF GraphInv, IsFeed
  <2> QED  BY <2>2, <2>3, <2>4 DEF Shows
<1>2. HalfInv'
  BY DEF HalfInv, GraphInv
<1> QED  BY <1>1, <1>2 DEF GraphInv, Taught, OneFacultyEdge

LEMMA FetchStep ==
  ASSUME GraphInv, NEW lo \in Nat, 1 <= lo, FetchEvents(lo),
         (lo = acked + 1 /\ replays' = replays) \/ replays' = replays + 1
  PROVE  GraphInv'
<1>1. /\ PageInv /\ ~Busy /\ ~half /\ acked \in Nat /\ shown \in Nat /\ replays \in Nat
      /\ Len(feed) \in Nat
  BY DEF GraphInv, PageInv, IsFeed, FetchEvents
<1>2. PICK hi \in lo..Len(feed) : page' = [lo |-> lo, next |-> lo, hi |-> hi]
  BY DEF FetchEvents
<1>3. UNCHANGED <<feed, graph, acked, half, shown>>
  BY DEF FetchEvents
<1>4. PageInv' /\ Busy'
  <2>1. page' \in [lo : Nat, next : Nat, hi : Nat] /\ page'.lo = lo /\ page'.next = lo
        /\ page'.hi = hi /\ lo <= hi /\ hi <= Len(feed)
    BY <1>1, <1>2
  <2>2. Busy'
    BY <2>1 DEF Busy, NoPage
  <2>3. replays' \in Nat /\ (replays' = 0 => replays = 0 /\ lo = acked + 1)
    BY <1>1
  <2> QED  BY <1>1, <1>3, <2>1, <2>2, <2>3 DEF PageInv
<1>5. \A i \in 1..Len(feed) : ~InPage(i)' /\ (Settled(i)' => Settled(i))
  BY <1>1, <1>2, <1>3 DEF InPage, Settled, Begun
<1>6. \A i \in 1..Len(feed), j \in 1..Len(feed) : AppliedAfter(i, j)' => AppliedAfter(i, j)
  BY <1>3, <1>5 DEF AppliedAfter
<1> QED  BY <1>1, <1>3, <1>4, <1>5, <1>6, OnlyPlaces

\* A page is over, at its end or before it.
LEMMA PageIsOver ==
  ASSUME GraphInv, Busy, page' = NoPage, half' = FALSE, shown' = ShownUpTo,
         UNCHANGED <<feed, graph, replays>>,
         acked' \in 0..Len(feed), replays = 0 => acked' <= shown'
  PROVE  GraphInv'
<1>1. /\ PageInv /\ shown \in Nat /\ Len(feed) \in Nat /\ shown <= Len(feed)
      /\ page.lo \in Nat /\ page.next \in Nat /\ page.hi \in Nat
      /\ 1 <= page.lo /\ page.lo <= page.next /\ page.next <= page.hi + 1
      /\ page.hi <= Len(feed)
  BY DEF GraphInv, PageInv, IsFeed
<1>2. ~Busy'
  BY DEF Busy
<1>3. \/ page.lo > shown + 1 /\ shown' = shown
      \/ page.lo <= shown + 1 /\ page.next = page.lo /\ shown' = shown /\ ~half
      \/ page.lo <= shown + 1 /\ shown' = page.next - 1
  BY <1>1 DEF ShownUpTo
<1>4. shown' \in 0..Len(feed)
  BY <1>1, <1>3
<1>5. PageInv'
  <2>1. page' \in [lo : Nat, next : Nat, hi : Nat] /\ half' \in BOOLEAN /\ ~half'
    BY DEF NoPage
  <2>2. replays' \in Nat /\ Len(feed)' = Len(feed)
    BY <1>1 DEF PageInv
  <2> QED  BY <1>2, <1>4, <2>1, <2>2 DEF PageInv
<1>6. \A i \in 1..Len(feed) : ~InPage(i)' /\ (Settled(i)' <=> i <= shown')
  BY <1>2 DEF InPage, Settled, Begun
<1>7. ASSUME NEW i \in 1..Len(feed), i <= shown'
      PROVE  Settled(i) \/ InPage(i)
  <2>1. i \in Nat
    OBVIOUS
  <2> QED  BY <1>1, <1>3, <1>7, <2>1 DEF Settled, InPage, Begun
<1>8. ASSUME NEW i \in 1..Len(feed), NEW j \in 1..Len(feed), i <= shown', AppliedAfter(i, j)'
      PROVE  AppliedAfter(i, j)
  <2>1. j \in i + 1..Len(feed) /\ j <= shown' /\ i \in Nat /\ j \in Nat
    BY <1>6, <1>8 DEF AppliedAfter
  <2>2. CASE page.lo <= j /\ j < page.next
    BY <2>1, <2>2 DEF AppliedAfter, InPage
  <2>3. CASE ~(page.lo <= j /\ j < page.next)
    <3>1. j <= shown /\ (i < page.lo \/ ~Begun)
      BY <1>1, <1>3, <2>1, <2>3 DEF Begun
    <3>2. i <= shown
      BY <1>1, <2>1, <3>1
    <3>3. Settled(i)
      BY <3>1, <3>2 DEF Settled
    <3> QED  BY <2>1, <3>1, <3>3 DEF AppliedAfter
  <2> QED  BY <2>2, <2>3
<1> QED  BY <1>5, <1>6, <1>7, <1>8, OnlyPlaces

LEMMA AckStep ==
  ASSUME GraphInv, AckEvent
  PROVE  GraphInv'
<1>1. /\ PageInv /\ Busy /\ page.next > page.hi /\ page' = NoPage
      /\ UNCHANGED <<feed, graph, half, replays>>
      /\ acked' = Max({acked, page.hi}) /\ shown' = ShownUpTo
  BY DEF GraphInv, AckEvent
<1>2. /\ acked \in Nat /\ shown \in Nat /\ Len(feed) \in Nat /\ acked <= Len(feed)
      /\ page.lo \in Nat /\ page.hi \in Nat /\ page.next \in Nat /\ page.hi <= Len(feed)
      /\ page.lo <= page.hi /\ page.next = page.hi + 1 /\ half \in BOOLEAN
      /\ replays = 0 => acked <= shown /\ page.lo = acked + 1
  BY <1>1 DEF GraphInv, PageInv, IsFeed
<1>3. acked' \in {acked, page.hi} /\ acked <= acked' /\ page.hi <= acked'
  <2> DEFINE S == {acked, page.hi}
  <2>1. S \in SUBSET (0..Len(feed)) /\ S # {}
    BY <1>2
  <2>2. Max(S) \in S /\ \A m \in S : m <= Max(S)
    BY <1>2, <2>1, MaxIsLargest
  <2> QED  BY <1>1, <2>2
<1>4. ~half /\ half' = FALSE
  BY <1>1, <1>2 DEF PageInv
<1>5. acked' \in 0..Len(feed)
  BY <1>2, <1>3
<1>6. replays = 0 => acked' <= shown'
  <2> SUFFICES ASSUME replays = 0 PROVE acked' <= shown'
    OBVIOUS
  <2>1. shown' = page.hi
    BY <1>1, <1>2 DEF ShownUpTo
  <2> QED  BY <1>2, <1>3, <2>1
<1> QED  BY <1>1, <1>4, <1>5, <1>6, PageIsOver

LEMMA GraphDiesStep ==
  ASSUME GraphInv, GraphDies
  PROVE  GraphInv'
<1>1. /\ PageInv /\ Busy /\ page' = NoPage /\ half' = FALSE
      /\ UNCHANGED <<feed, graph, acked, replays>> /\ shown' = ShownUpTo
  BY DEF GraphInv, GraphDies
<1>2. /\ acked \in 0..Len(feed) /\ shown \in Nat /\ Len(feed) \in Nat
      /\ page.lo \in Nat /\ page.next \in Nat /\ page.lo <= page.next
      /\ replays = 0 => acked <= shown /\ page.lo = acked + 1
  BY <1>1 DEF GraphInv, PageInv, IsFeed
<1>3. replays = 0 => acked' <= shown'
  BY <1>1, <1>2 DEF ShownUpTo
<1> QED  BY <1>1, <1>2, <1>3, PageIsOver

\* A producer appends an event.
LEMMA AppendStep ==
  ASSUME GraphInv, NEW E, feed \in Seq(E), NEW ev \in E, feed' = Append(feed, ev),
         IsFeed(feed)', UNCHANGED <<graph, acked, page, half, shown, replays>>
  PROVE  GraphInv'
<1> DEFINE n == Len(feed)
<1>1. n \in Nat /\ Len(feed') = n + 1 /\ \A i \in 1..n : feed'[i] = feed[i]
  OBVIOUS
<1>2. PageInv /\ AllShown /\ HalfInv /\ Taught /\ OneFacultyEdge /\ IsGraph(graph)
  BY DEF GraphInv
<1>3. PageInv'
  BY <1>1, <1>2 DEF PageInv, Busy
<1>4. ASSUME NEW i \in 1..n + 1, (Settled(i) \/ InPage(i))'
      PROVE  /\ i \in 1..n /\ (Settled(i) \/ InPage(i))
             /\ \A k \in i + 1..n + 1 : AppliedAfter(i, k)' => k \in i + 1..n /\ AppliedAfter(i, k)
  BY <1>1, <1>2, <1>4 DEF Settled, InPage, AppliedAfter, PageInv, Busy, Begun
<1>5. AllShown'
  <2> SUFFICES ASSUME NEW i \in 1..n + 1, IsLast(i)', (Settled(i) \/ InPage(i))'
               PROVE  Shows(i)'
    BY <1>1 DEF AllShown
  <2>1. i \in 1..n /\ (Settled(i) \/ InPage(i))
    BY <1>4
  <2>2. IsLast(i)
    BY <1>1, <2>1 DEF IsLast
  <2>3. Shows(i)
    BY <1>2, <2>1, <2>2 DEF AllShown
  <2>4. \A k \in i + 1..n : \A e : Takes(k, e)' <=> Takes(k, e)
    BY <1>1, <2>1 DEF Takes
  <2>5. feed'[i] = feed[i] /\ \A k \in i + 1..n : k \in i + 1..n + 1
    BY <1>1, <2>1
  <2>6. ASSUME NEW e \in graph.edges, Owner(e) = Aggregate(feed[i])
        PROVE  /\ e \in Claims(feed[i])
               /\ \A k \in i + 1..n + 1 : AppliedAfter(i, k)' => ~Takes(k, e)'
    BY <1>4, <2>1, <2>3, <2>4, <2>6 DEF Shows
  <2>7. ASSUME NEW e \in Claims(feed[i]), \A k \in i + 1..n + 1 : ~Takes(k, e)'
        PROVE  e \in graph.edges
    BY <2>3, <2>4, <2>5, <2>7 DEF Shows
  <2> HIDE DEF n
  <2> QED  BY <1>1, <2>5, <2>6, <2>7 DEF Shows
<1>6. HalfInv'
  BY <1>1, <1>2 DEF HalfInv, PageInv
<1>7. Taught'
  <2> SUFFICES ASSUME NEW e \in graph.edges, e[2] = "TEACHES"
               PROVE  \E i \in 1..n + 1 : feed'[i].kind = "faculty_course" /\ e \in Claims(feed'[i])
    BY <1>1 DEF Taught
  <2>1. PICK i \in 1..n : feed[i].kind = "faculty_course" /\ e \in Claims(feed[i])
    BY <1>2 DEF Taught
  <2> QED  BY <1>1, <2>1
<1>8. OneFacultyEdge' /\ IsGraph(graph)'
  BY <1>2 DEF OneFacultyEdge
<1> QED  BY <1>3, <1>5, <1>6, <1>7, <1>8 DEF GraphInv

LEMMA GraphInitInv ==
  ASSUME GraphInit
  PROVE  GraphInv
<1>1. /\ feed = <<>> /\ graph = EmptyGraph /\ acked = 0 /\ page = NoPage /\ half = FALSE
      /\ shown = 0 /\ replays = 0
  BY DEF GraphInit
<1>2. Len(feed) = 0 /\ IsFeed(feed) /\ AllShown
  BY <1>1 DEF IsFeed, AllShown
<1>3. PageInv /\ HalfInv
  <2>1. ~Busy /\ page \in [lo : Nat, next : Nat, hi : Nat]
    BY <1>1 DEF NoPage, Busy
  <2>2. half \in BOOLEAN /\ ~half
    BY <1>1
  <2>3. /\ acked \in 0..Len(feed) /\ shown \in 0..Len(feed) /\ replays \in Nat
        /\ acked <= shown
    BY <1>1, <1>2
  <2>4. PageInv
    BY <2>1, <2>2, <2>3 DEF PageInv
  <2> QED  BY <2>2, <2>4 DEF HalfInv
<1>4. graph.nodes = {} /\ graph.edges = {} /\ graph = [nodes |-> {}, edges |-> {}]
  BY <1>1 DEF EmptyGraph
<1>5. IsGraph(graph)
  BY <1>4 DEF IsGraph
<1> QED  BY <1>2, <1>3, <1>4, <1>5 DEF GraphInv, Taught, OneFacultyEdge

\* The consumer's own steps.
LEMMA GraphStepInv ==
  ASSUME GraphInv, GraphStep
  PROVE  GraphInv'
<1>1. acked + 1 \in Nat /\ 1 <= acked + 1
  BY DEF GraphInv, PageInv, IsFeed
<1>2. CASE Poll
  BY <1>1, <1>2, FetchStep DEF Poll
<1>3. CASE Replay
  <2>1. PICK lo \in 1..Len(feed) : FetchEvents(lo)
    BY <1>3 DEF Replay
  <2>2. lo \in Nat /\ 1 <= lo
    BY <2>1
  <2> QED  BY <1>3, <2>1, <2>2, FetchStep DEF Replay
<1> QED
  BY <1>2, <1>3, ProjectEventStep, FinishMatchStep, AckStep, GraphDiesStep DEF GraphStep

\* Who only stands still keeps it.
LEMMA GraphStutters ==
  ASSUME GraphInv, UNCHANGED <<feed, graph, acked, page, half, shown, replays>>
  PROVE  GraphInv'
<1>1. /\ PageInv' /\ HalfInv' /\ Taught' /\ OneFacultyEdge' /\ IsGraph(graph)' /\ IsFeed(feed)'
  BY DEF GraphInv, PageInv, Busy, HalfInv, Taught, OneFacultyEdge
<1>2. /\ half' => half /\ page' = page
      /\ \A i \in 1..Len(feed) : (Settled(i) \/ InPage(i))' => Settled(i) \/ InPage(i)
      /\ \A i \in 1..Len(feed), j \in 1..Len(feed) :
           (Settled(i) \/ InPage(i))' /\ AppliedAfter(i, j)' => AppliedAfter(i, j)
  BY DEF Settled, InPage, AppliedAfter, Busy, Begun
<1> QED  BY <1>1, <1>2, OnlyPlaces

\* A consumer that has caught up shows the last event about each aggregate.
LEMMA CaughtUpShows ==
  ASSUME GraphInv
  PROVE  GraphShowsLastEvents
<1> SUFFICES ASSUME CaughtUp, NEW i \in 1..Len(feed)
             PROVE  Owned(graph, Aggregate(feed[i])) = LastClaims(Aggregate(feed[i]))
  BY DEF GraphShowsLastEvents, ShowsLastEvents
<1> DEFINE x == Aggregate(feed[i])
           about == EventsAbout(x)
           last == Max(about)
           gone == UNION {Removes(feed[k]) : k \in last + 1..Len(feed)}
<1>1. IsFeed(feed) /\ PageInv /\ IsGraph(graph) /\ AllShown /\ Len(feed) \in Nat
  BY DEF GraphInv, IsFeed
<1>2. about \in SUBSET (0..Len(feed)) /\ i \in about
  BY DEF EventsAbout
<1>3. last \in about /\ \A k \in about : k <= last
  <2> HIDE DEF about
  <2> QED  BY <1>1, <1>2, MaxIsLargest
<1> HIDE DEF last
<1>4. last \in 1..Len(feed) /\ Aggregate(feed[last]) = x
  BY <1>3 DEF EventsAbout
<1>5. IsLast(last)
  <2> SUFFICES ASSUME NEW k \in last + 1..Len(feed), Aggregate(feed[k]) = x
               PROVE  FALSE
    BY <1>4 DEF IsLast
  <2>1. k \in about
    BY <1>1, <1>4 DEF EventsAbout
  <2> QED  BY <1>1, <1>3, <1>4, <2>1
<1>6. Settled(last) /\ \A k \in last + 1..Len(feed) : AppliedAfter(last, k)
  <2>1. shown = Len(feed) /\ ~Busy
    BY <1>1 DEF CaughtUp, PageInv
  <2> QED  BY <1>1, <1>4, <2>1 DEF Settled, AppliedAfter, Begun
<1>7. Shows(last)
  BY <1>1, <1>4, <1>5, <1>6 DEF AllShown
<1>8. \A e : e \in Owned(graph, x) <=> e \in graph.edges /\ Owner(e) = x
  <2>1. IsEvent(feed[i])
    BY <1>1 DEF IsFeed
  <2>2. PICK k \in AggregateKinds : x = <<k, feed[i].id>>
    BY <2>1, ClaimsAreOwned
  <2> HIDE DEF x
  <2> QED  BY <1>1, <2>2, OwnedByOwner
<1>9. LastClaims(x) = {e \in Claims(feed[last]) : e[1] \notin gone /\ e[3] \notin gone}
  BY DEF LastClaims, last
<1>10. \A e : (e[1] \notin gone /\ e[3] \notin gone)
                <=> \A k \in last + 1..Len(feed) : ~Takes(k, e)
  BY DEF Takes
<1>11. \A e \in Claims(feed[last]) : Owner(e) = x
  BY <1>1, <1>4, ClaimsAreOwned DEF IsFeed
<1> HIDE DEF x, gone
<1>12. ASSUME NEW e \in Owned(graph, x) PROVE e \in LastClaims(x)
  BY <1>4, <1>6, <1>7, <1>8, <1>9, <1>10, <1>12 DEF Shows
<1>13. ASSUME NEW e \in LastClaims(x) PROVE e \in Owned(graph, x)
  BY <1>7, <1>8, <1>9, <1>10, <1>11, <1>13 DEF Shows
<1>14. Owned(graph, x) = LastClaims(x)
  BY <1>12, <1>13
<1> QED  BY <1>14 DEF x

\* The consumer beside any producer of well-formed events.
Publish(E) ==
  \E ev \in E : /\ IsFeed(Append(feed, ev))
                /\ feed' = Append(feed, ev)
                /\ UNCHANGED graphVars
FeedSpec(E) == GraphInit /\ [][GraphStep \/ Publish(E)]_<<feed, graphVars>>

\* Whoever produces the feed, of whatever length, however long the pages are and
\* however often they are replayed or cut short by a death: when the graph service has
\* caught up, the edges of each aggregate are those that the last event about it
\* claims, less those at nodes that later events removed; and at any time a project
\* has one confirmed head at most (project_event, sync_from_outbox).  A service that
\* only polls has caught up when its checkpoint is at the end of the feed.
THEOREM AnyFeedIsShown ==
  ASSUME NEW CONSTANT E
  PROVE  FeedSpec(E) => [](GraphShowsLastEvents /\ OneFacultyEdge)
<1> DEFINE Inv == GraphInv /\ feed \in Seq(E)
<1>1. GraphInit => Inv
  <2>1. GraphInit => feed \in Seq(E)
    BY DEF GraphInit
  <2> QED  BY <2>1, GraphInitInv
<1>2. Inv /\ [GraphStep \/ Publish(E)]_<<feed, graphVars>> => Inv'
  <2> SUFFICES ASSUME Inv, [GraphStep \/ Publish(E)]_<<feed, graphVars>>
               PROVE  Inv'
    OBVIOUS
  <2>1. CASE GraphStep
    <3>1. feed' = feed
      BY <2>1 DEF GraphStep, Poll, Replay, FetchEvents, ProjectEvent, FinishMatch, AckEvent,
         GraphDies
    <3> QED  BY <2>1, <3>1, GraphStepInv
  <2>2. CASE Publish(E)
    <3>1. PICK ev \in E : IsFeed(Append(feed, ev)) /\ feed' = Append(feed, ev) /\ UNCHANGED graphVars
      BY <2>2 DEF Publish
    <3>2. IsFeed(feed)'
      BY <3>1 DEF IsFeed
    <3>3. feed' \in Seq(E)
      BY <3>1
    <3> QED  BY <3>1, <3>2, <3>3, AppendStep DEF graphVars
  <2>3. CASE UNCHANGED <<feed, graphVars>>
    BY <2>3, GraphStutters DEF graphVars
  <2> QED  BY <2>1, <2>2, <2>3
<1>3. Inv => GraphShowsLastEvents /\ OneFacultyEdge
  BY CaughtUpShows DEF GraphInv
<1> QED  BY <1>1, <1>2, <1>3, PTL DEF FeedSpec
-----------------------------------------------------------------------------
(***************************************************************************)
(* The mirror.  What it holds is told: the event that says it is the last  *)
(* about its aggregate, or is scheduled, or its loss is remembered in      *)
(* missed.  A scheduled event says what the mirror holds, unless the       *)
(* project was deleted meanwhile.                                          *)
(***************************************************************************)
Matches ==
  {m \in [status : {"none", "unmatched", "candidate", "confirmed", "ambiguous"},
          person : Persons \union {Null}, by : Supervisors \union {Null},
          names : SUBSET Persons, at : Nat] : m.status = "confirmed" <=> m.at # 0}

DeletedEvent(j) == [kind |-> "project.deleted", id |-> j, key |-> <<"deleted", j>>]

CourseEvents(f) == {CourseEvent(f, c) : c \in CoursesOf[f]}

Events ==
  {PersonEvent(f, r) : f \in Persons, r \in Profiles}
  \union {PublicationEvent(b, A, L) : b \in Publications, A \in SUBSET Persons, L \in SUBSET Persons}
  \union (UNION {CourseEvents(f) : f \in Persons})
  \union {MatchEvent(j, m) : j \in Projects, m \in Matches}
  \union {DeletedEvent(j) : j \in Projects}

Holds(ev) ==
  \/ \E f \in Persons : person[f] # Null /\ ev = PersonEvent(f, person[f])
  \/ \E b \in Publications : publication[b] # Null /\
       ev = PublicationEvent(b, publication[b].authors, publication[b].linked)
  \/ \E f \in Persons, c \in course : c \in CoursesOf[f] /\ ev = CourseEvent(f, c)
  \/ \E j \in Projects : match[j] # NoMatch /\ ev = MatchEvent(j, match[j])

Told(ev) == Aggregate(ev) \in missed \union Pending \/ Announced(ev)

Scheduled(ev) ==
  \/ Holds(ev)
  \/ \E j \in Projects, m \in Matches : match[j] = NoMatch /\ ev = MatchEvent(j, m)

RowsInv ==
  /\ source \in [person : [Persons -> Profiles], authors : [Publications -> SUBSET Persons]]
  /\ supervisor \in [Projects -> Supervisors \union {Gone}]
  /\ person \in [Persons -> Profiles \union {Null}]
  /\ publication \in [Publications -> {Null} \union
       {row \in [authors : SUBSET Persons, linked : SUBSET Persons] : row.linked \subseteq row.authors}]
  /\ course \in SUBSET UNION {CoursesOf[f] : f \in Persons}
  /\ match \in [Projects -> Matches]
  /\ stamp \in Nat

SyncInv ==
  /\ sync = [pc |-> sync.pc, todo |-> sync.todo, events |-> sync.events]
  /\ \/ sync = Stopped
     \/ sync.pc = "persons" /\ sync.todo \subseteq Persons
     \/ sync.pc = "matching" /\ sync.todo \subseteq Projects \X Supervisors
  /\ sync.events \subseteq Events
  /\ \A ev \in sync.events : Scheduled(ev)

FeedInv == feed \in Seq(Events) /\ Len(feed) <= MaxEvents

MirrorInv ==
  /\ GraphInv /\ FeedInv /\ RowsInv /\ SyncInv
  /\ \A ev : Holds(ev) => Told(ev)

\* The two ways to say that the mirror is announced.
LEMMA HoldsIsTold ==
  (\A ev : Holds(ev) => Told(ev)) <=> MirrorIsAnnounced
<1>1. ASSUME \A ev : Holds(ev) => Told(ev) PROVE MirrorIsAnnounced
  BY <1>1 DEF Holds, Told, MirrorIsAnnounced, Known
<1>2. ASSUME MirrorIsAnnounced, NEW ev, Holds(ev) PROVE Told(ev)
  BY <1>2 DEF Holds, Told, MirrorIsAnnounced, Known
<1> QED  BY <1>1, <1>2

\* The events are those a graph service understands; a key tells the aggregate.
LEMMA EventsAreEvents ==
  ASSUME NEW ev \in Events
  PROVE  /\ IsEvent(ev)
         /\ ev.kind = "faculty_course" =>
              \E f \in Persons : ev.id \in CoursesOf[f] /\ ev.person = f
         /\ \/ ev.kind = "faculty_person" /\ ev.key[1] = "person" /\ ev.key[2] = ev.id
            \/ ev.kind = "faculty_publication" /\ ev.key[1] = "publication" /\ ev.key[2] = ev.id
            \/ ev.kind = "faculty_course" /\ ev.key[1] = "course" /\ ev.key[2] = ev.id
            \/ ev.kind = "project_faculty_match" /\ ev.key[1] = "match" /\ ev.key[2] = ev.id
            \/ ev.kind = "project.deleted" /\ ev.key[1] = "deleted" /\ ev.key[2] = ev.id
<1>1. CASE ev \in {PersonEvent(f, r) : f \in Persons, r \in Profiles}
  BY <1>1, KeysAssumption DEF PersonEvent, IsEvent, Kinds
<1>2. CASE ev \in {PublicationEvent(b, A, L) :
                     b \in Publications, A \in SUBSET Persons, L \in SUBSET Persons}
  BY <1>2, KeysAssumption DEF PublicationEvent, IsEvent, Kinds
<1>3. CASE ev \in UNION {CourseEvents(f) : f \in Persons}
  <2>1. PICK f \in Persons : \E c \in CoursesOf[f] : ev = CourseEvent(f, c)
    BY <1>3 DEF CourseEvents
  <2> QED  BY <2>1, KeysAssumption DEF CourseEvent, IsEvent, Kinds
<1>4. CASE ev \in {MatchEvent(j, m) : j \in Projects, m \in Matches}
  BY <1>4, KeysAssumption DEF MatchEvent, IsEvent, Kinds
<1>5. CASE ev \in {DeletedEvent(j) : j \in Projects}
  BY <1>5, KeysAssumption DEF DeletedEvent, IsEvent, Kinds
<1> QED  BY <1>1, <1>2, <1>3, <1>4, <1>5 DEF Events

LEMMA KeyTellsAggregate ==
  ASSUME NEW ev \in Events, NEW o \in Events, ev.key = o.key
  PROVE  Aggregate(ev) = Aggregate(o)
BY EventsAreEvents DEF Aggregate

LEMMA FeedOfEvents ==
  ASSUME NEW F \in Seq(Events)
  PROVE  IsFeed(F)
<1>1. \A i \in 1..Len(F) : F[i] \in Events
  OBVIOUS
<1>2. ASSUME NEW i \in 1..Len(F), NEW j \in 1..Len(F), F[i].kind = "faculty_course",
             F[j].kind = "faculty_course", F[i].id = F[j].id
      PROVE  F[i].person = F[j].person
  <2>1. PICK f \in Persons : F[i].id \in CoursesOf[f] /\ F[i].person = f
    BY <1>1, <1>2, EventsAreEvents
  <2>2. PICK g \in Persons : F[j].id \in CoursesOf[g] /\ F[j].person = g
    BY <1>1, <1>2, EventsAreEvents
  <2> QED  BY <1>2, <2>1, <2>2, KeysAssumption
<1>3. \A i \in 1..Len(F) : IsEvent(F[i])
  BY <1>1, EventsAreEvents
<1>4. Len(F) \in Nat
  OBVIOUS
<1> QED  BY <1>2, <1>3, <1>4 DEF IsFeed

\* The event that is appended is the last about its aggregate, and the only
\* aggregate whose last event changes is its own.
LEMMA AppendTells ==
  ASSUME feed \in Seq(Events), NEW ev \in Events, feed' = Append(feed, ev)
  PROVE  /\ Announced(ev)'
         /\ \A o : Aggregate(o) # Aggregate(ev) /\ Announced(o) => Announced(o)'
<1> DEFINE n == Len(feed)
<1>1. n \in Nat /\ Len(feed') = n + 1 /\ feed'[n + 1] = ev /\ \A i \in 1..n : feed'[i] = feed[i]
  OBVIOUS
<1>2. Announced(ev)'
  <2> DEFINE S == {i \in 1..n + 1 : Aggregate(feed'[i]) = Aggregate(ev)}
  <2>1. EventsAbout(Aggregate(ev))' = S
    BY <1>1 DEF EventsAbout
  <2>2. S \in SUBSET (0..n + 1) /\ n + 1 \in S /\ n + 1 \in Nat
    BY <1>1
  <2> HIDE DEF S
  <2>3. Max(S) \in S /\ \A m \in S : m <= Max(S)
    BY <2>2, MaxIsLargest
  <2>4. Max(S) = n + 1
    <3> HIDE DEF n
    <3>1. Max(S) \in 0..n + 1
      BY <2>2, <2>3
    <3>2. n + 1 <= Max(S)
      BY <2>2, <2>3
    <3> QED  BY <3>1, <3>2, <2>2
  <2> QED  BY <1>1, <2>1, <2>2, <2>4 DEF Announced, LastAbout
<1>3. ASSUME NEW o, Aggregate(o) # Aggregate(ev), Announced(o)
      PROVE  Announced(o)'
  <2> DEFINE S == EventsAbout(Aggregate(o))
  <2>1. EventsAbout(Aggregate(o))' = S
    BY <1>1, <1>3 DEF EventsAbout
  <2>2. S \in SUBSET (0..n) /\ S \subseteq 1..n /\ S # {}
    BY <1>1, <1>3 DEF EventsAbout, Announced
  <2> HIDE DEF S
  <2>3. Max(S) \in 1..n
    BY <1>1, <2>2, MaxIsLargest
  <2> QED  BY <1>1, <1>3, <2>1, <2>2, <2>3 DEF Announced, LastAbout, S
<1> QED  BY <1>2, <1>3

\* The mirror holds one event about an aggregate, and a scheduled event is it.
LEMMA OneEventEach ==
  ASSUME NEW ev, Scheduled(ev), NEW o, Holds(o), Aggregate(o) = Aggregate(ev)
  PROVE  o = ev
<1>1. ASSUME NEW p, Holds(p) \/ Scheduled(p)
      PROVE  \/ \E f \in Persons : p = PersonEvent(f, person[f])
             \/ \E b \in Publications :
                  p = PublicationEvent(b, publication[b].authors, publication[b].linked)
             \/ \E f \in Persons : \E c \in CoursesOf[f] : p = CourseEvent(f, c)
             \/ \E j \in Projects : \E m : /\ p = MatchEvent(j, m)
                                           /\ m = match[j] \/ match[j] = NoMatch
  BY <1>1 DEF Holds, Scheduled
<1>2. CASE \E f \in Persons : o = PersonEvent(f, person[f])
  BY <1>1, <1>2 DEF Aggregate, PersonEvent, PublicationEvent, CourseEvent, MatchEvent
<1>3. CASE \E b \in Publications :
             o = PublicationEvent(b, publication[b].authors, publication[b].linked)
  BY <1>1, <1>3 DEF Aggregate, PersonEvent, PublicationEvent, CourseEvent, MatchEvent
<1>4. CASE \E f \in Persons : \E c \in CoursesOf[f] : o = CourseEvent(f, c)
  <2>0. PICK f \in Persons : \E c \in CoursesOf[f] : o = CourseEvent(f, c)
    BY <1>4
  <2>1. PICK c \in CoursesOf[f] : o = CourseEvent(f, c)
    BY <2>0
  <2>3. PICK g \in Persons : \E d \in CoursesOf[g] : ev = CourseEvent(g, d)
    BY <1>1, <2>1 DEF Aggregate, PersonEvent, PublicationEvent, CourseEvent, MatchEvent
  <2>2. PICK d \in CoursesOf[g] : ev = CourseEvent(g, d)
    BY <2>3
  <2>4. c = d
    BY <2>1, <2>2 DEF Aggregate, CourseEvent
  <2> QED  BY <2>1, <2>2, <2>4, KeysAssumption
<1>5. CASE \E j \in Projects : match[j] # NoMatch /\ o = MatchEvent(j, match[j])
  <2>1. PICK j \in Projects : match[j] # NoMatch /\ o = MatchEvent(j, match[j])
    BY <1>5
  <2>2. PICK i, m : /\ i \in Projects /\ ev = MatchEvent(i, m)
                    /\ m = match[i] \/ match[i] = NoMatch
    BY <1>1, <2>1 DEF Aggregate, PersonEvent, PublicationEvent, CourseEvent, MatchEvent
  <2>3. i = j
    BY <2>1, <2>2 DEF Aggregate, MatchEvent
  <2> QED  BY <2>1, <2>2, <2>3
<1> QED  BY <1>2, <1>3, <1>4, <1>5 DEF Holds
\* A set with one member has a member.
LEMMA OneMember ==
  ASSUME NEW S, Cardinality(S) = 1
  PROVE  \E x : x \in S
BY FS_EmptySet

\* Who is matched is one of the mirror's persons, and no match is empty.
LEMMA ResolvedIsMatch ==
  ASSUME RowsInv, NEW j \in Projects, NEW s \in Supervisors
  PROVE  Resolved(j, s) \in Matches /\ Resolved(j, s) # NoMatch
<1>1. /\ Known \subseteq Persons /\ Candidates(s) \subseteq Known
      /\ ByMail(s) \subseteq Candidates(s) /\ ByUnit(s) \subseteq Candidates(s)
  BY DEF Known, Candidates, ByMail, ByUnit
<1>2. Status(s) \in {"unmatched", "candidate", "confirmed", "ambiguous"}
  BY DEF Status
<1>3. MatchedPerson(s) \in Persons \union {Null}
  <2>1. CASE Cardinality(ByMail(s)) = 1
    <3>0. Status(s) = "confirmed"
      BY <2>1 DEF Status
    <3>1. MatchedPerson(s) = CHOOSE f \in ByMail(s) : TRUE
      BY <2>1, <3>0 DEF MatchedPerson
    <3>2. \E f : f \in ByMail(s)
      BY <2>1, OneMember
    <3>3. MatchedPerson(s) \in ByMail(s)
      BY <3>1, <3>2
    <3> QED  BY <1>1, <3>3
  <2>2. CASE Cardinality(ByMail(s)) # 1 /\ Cardinality(ByUnit(s)) = 1
    <3>0. Status(s) = "confirmed"
      BY <2>2 DEF Status
    <3>1. MatchedPerson(s) = CHOOSE f \in ByUnit(s) : TRUE
      BY <2>2, <3>0 DEF MatchedPerson
    <3>2. \E f : f \in ByUnit(s)
      BY <2>2, OneMember
    <3>3. MatchedPerson(s) \in ByUnit(s)
      BY <3>1, <3>2
    <3> QED  BY <1>1, <3>3
  <2>3. CASE Cardinality(ByMail(s)) # 1 /\ Cardinality(ByUnit(s)) # 1
    <3>1. CASE Status(s) = "candidate"
      <4>1. Cardinality(Candidates(s)) = 1
        BY <2>3, <3>1 DEF Status
      <4>2. MatchedPerson(s) = CHOOSE f \in Candidates(s) : TRUE
        BY <2>3, <3>1 DEF MatchedPerson
      <4>3. \E f : f \in Candidates(s)
        BY <4>1, OneMember
      <4>4. MatchedPerson(s) \in Candidates(s)
        BY <4>2, <4>3
      <4> QED  BY <1>1, <4>4
    <3>2. CASE Status(s) # "candidate"
      BY <2>3, <3>2 DEF MatchedPerson
    <3> QED  BY <3>1, <3>2
  <2> QED  BY <2>1, <2>2, <2>3
<1> DEFINE at == IF Status(s) # "confirmed" THEN 0
                 ELSE IF match[j].at # 0 THEN match[j].at ELSE stamp + 1
<1>4. at \in Nat /\ (Status(s) = "confirmed" <=> at # 0)
  <2>1. match[j].at \in Nat /\ stamp \in Nat
    BY DEF RowsInv, Matches
  <2> QED  BY <2>1
<1>5. Resolved(j, s) = [status |-> Status(s), person |-> MatchedPerson(s), by |-> s,
                        names |-> Candidates(s), at |-> at]
  BY DEF Resolved
<1> HIDE DEF at
<1> QED  BY <1>1, <1>2, <1>3, <1>4, <1>5 DEF Matches, NoMatch

\* What was told stays told while nothing is appended and no gap is forgotten.
LEMMA StillTold ==
  ASSUME feed' = feed, missed \union Pending \subseteq (missed \union Pending)',
         NEW ev, Told(ev)
  PROVE  Told(ev)'
BY DEF Told, Announced, EventsAbout, LastAbout

\* Steps of the mirror that append nothing leave the consumer where it is.
LEMMA NothingAppended ==
  ASSUME MirrorInv, feed' = feed, UNCHANGED graphVars
  PROVE  GraphInv' /\ FeedInv'
<1>1. GraphInv'
  BY GraphStutters DEF MirrorInv, graphVars
<1> QED  BY <1>1 DEF MirrorInv, FeedInv

LEMMA SomethingAppended ==
  ASSUME MirrorInv, NEW ev \in Events, Len(feed) < MaxEvents, feed' = Append(feed, ev),
         UNCHANGED graphVars
  PROVE  GraphInv' /\ FeedInv'
<1>1. GraphInv /\ feed \in Seq(Events)
  BY DEF MirrorInv, FeedInv
<1>2. feed' \in Seq(Events) /\ Len(feed') = Len(feed) + 1 /\ Len(feed) \in Nat
  BY <1>1
<1>3. IsFeed(feed)'
  BY <1>2, FeedOfEvents
<1>4. GraphInv'
  BY <1>1, <1>3, AppendStep DEF graphVars
<1>5. FeedInv'
  BY <1>2, GraphBoundsAssumption DEF FeedInv
<1> QED  BY <1>4, <1>5
\* A step that writes no row of the mirror, appends nothing and forgets no gap.
LEMMA QuietStep ==
  ASSUME MirrorInv, feed' = feed, UNCHANGED <<graphVars, mirrorVars>>, RowsInv', SyncInv',
         missed \union Pending \subseteq (missed \union Pending)'
  PROVE  MirrorInv'
<1>1. GraphInv' /\ FeedInv'
  BY NothingAppended
<1>2. ASSUME NEW ev, Holds(ev)' PROVE Told(ev)'
  <2>1. Holds(ev)
    BY <1>2 DEF Holds, mirrorVars
  <2>2. Told(ev)
    BY <2>1 DEF MirrorInv
  <2> QED  BY <2>2, StillTold
<1> QED  BY <1>1, <1>2 DEF MirrorInv

LEMMA MirrorStutters ==
  ASSUME MirrorInv, UNCHANGED vars
  PROVE  MirrorInv'
<1>1. UNCHANGED <<feed, graphVars, mirrorVars, source, supervisor, sync, stamp, missed>>
  BY DEF vars, facultyVars
<1>2. RowsInv'
  BY <1>1 DEF MirrorInv, RowsInv, mirrorVars
<1>3. SyncInv'
  BY <1>1 DEF MirrorInv, SyncInv, Scheduled, Holds, mirrorVars
<1>4. (missed \union Pending)' = missed \union Pending
  BY <1>1 DEF Pending
<1> QED  BY <1>1, <1>2, <1>3, <1>4, QuietStep

\* The command starts, goes on to the matching, ends or stops before a commit.
LEMMA CommandStep ==
  ASSUME MirrorInv, StartSync \/ StartMatching \/ FinishSync \/ SyncFails
  PROVE  MirrorInv'
<1>1. UNCHANGED <<feed, graphVars, mirrorVars, source, supervisor, stamp, missed>>
  BY DEF StartSync, StartMatching, FinishSync, SyncFails
<1>2. sync.events = {} /\ sync'.events = {}
  BY DEF StartSync, StartMatching, FinishSync, SyncFails, Stopped
<1>3. RowsInv'
  BY <1>1 DEF MirrorInv, RowsInv, mirrorVars
<1>4. SyncInv'
  <2>1. CASE StartSync
    BY <2>1 DEF StartSync, SyncInv
  <2>2. CASE StartMatching
    <3>1. {<<j, supervisor[j]>> : j \in {j \in Projects : supervisor[j] \notin {Null, Gone}}}
            \subseteq Projects \X Supervisors
      BY DEF MirrorInv, RowsInv
    <3> QED  BY <2>2, <3>1 DEF StartMatching, SyncInv
  <2>3. CASE sync' = Stopped
    BY <2>3 DEF SyncInv, Stopped
  <2> QED  BY <2>1, <2>2, <2>3 DEF FinishSync, SyncFails
<1>5. missed \union Pending \subseteq (missed \union Pending)'
  BY <1>1, <1>2 DEF Pending
<1> QED  BY <1>1, <1>3, <1>4, <1>5, QuietStep

\* What dies unannounced is remembered.
LEMMA SyncDiesStep ==
  ASSUME MirrorInv, SyncDies
  PROVE  MirrorInv'
<1>1. UNCHANGED <<feed, graphVars, mirrorVars, source, supervisor, stamp>>
  BY DEF SyncDies
<1>2. RowsInv'
  BY <1>1 DEF MirrorInv, RowsInv, mirrorVars
<1>3. SyncInv'
  BY DEF SyncDies, SyncInv, Stopped
<1>4. missed \union Pending \subseteq (missed \union Pending)'
  BY DEF SyncDies, Pending
<1> QED  BY <1>1, <1>2, <1>3, <1>4, QuietStep

\* The consumer's steps leave the mirror alone.
LEMMA ConsumerStep ==
  ASSUME MirrorInv, GraphStep, UNCHANGED facultyVars
  PROVE  MirrorInv'
<1>1. UNCHANGED <<mirrorVars, source, supervisor, sync, stamp, missed>>
  BY DEF facultyVars
<1>2. feed' = feed
  BY DEF GraphStep, Poll, Replay, FetchEvents, ProjectEvent, FinishMatch, AckEvent, GraphDies
<1>3. GraphInv'
  BY GraphStepInv DEF MirrorInv
<1>4. RowsInv' /\ FeedInv'
  BY <1>1, <1>2 DEF MirrorInv, RowsInv, FeedInv, mirrorVars
<1>5. SyncInv'
  BY <1>1 DEF MirrorInv, SyncInv, Scheduled, Holds, mirrorVars
<1>6. ASSUME NEW ev, Holds(ev)' PROVE Told(ev)'
  <2>1. Holds(ev)
    BY <1>1, <1>6 DEF Holds, mirrorVars
  <2>2. Told(ev) /\ (missed \union Pending)' = missed \union Pending
    BY <1>1, <2>1 DEF MirrorInv, Pending
  <2> QED  BY <1>2, <2>2, StillTold
<1> QED  BY <1>3, <1>4, <1>5, <1>6 DEF MirrorInv
\* An event is appended, or dropped because its key is in the feed.
LEMMA EmitStep ==
  ASSUME MirrorInv, EmitScheduled
  PROVE  MirrorInv'
<1>1. PICK ev \in NextEvents :
        /\ IF Emitted(ev.key)
             THEN /\ feed' = feed
                  /\ missed' = IF LastAbout(Aggregate(ev)) = ev
                                 THEN missed \ {Aggregate(ev)}
                                 ELSE missed \union {Aggregate(ev)}
             ELSE /\ Len(feed) < MaxEvents
                  /\ feed' = Append(feed, ev)
                  /\ missed' = missed \ {Aggregate(ev)}
        /\ sync' = [sync EXCEPT !.events = @ \ {ev}]
        /\ UNCHANGED <<graphVars, deaths, source, supervisor, mirrorVars, changes, stamp>>
  BY DEF EmitScheduled
<1>2. feed \in Seq(Events) /\ SyncInv /\ RowsInv
  BY DEF MirrorInv, FeedInv
<1>3. ev \in sync.events /\ ev \in Events /\ Scheduled(ev)
  BY <1>2 DEF NextEvents, SyncInv
<1>4. /\ sync'.events = sync.events \ {ev} /\ sync'.pc = sync.pc /\ sync'.todo = sync.todo
      /\ sync' = [pc |-> sync'.pc, todo |-> sync'.todo, events |-> sync'.events]
  BY <1>1, <1>2 DEF SyncInv
<1>5. \A o : Scheduled(o)' <=> Scheduled(o)
  BY <1>1 DEF Scheduled, Holds, mirrorVars
<1>6. \A o : Holds(o)' <=> Holds(o)
  BY <1>1 DEF Holds, mirrorVars
<1>7. RowsInv'
  BY <1>1, <1>2 DEF RowsInv, mirrorVars
<1>8. SyncInv'
  BY <1>2, <1>3, <1>4, <1>5 DEF SyncInv, Stopped
<1>9. GraphInv' /\ FeedInv'
  BY <1>1, <1>3, NothingAppended, SomethingAppended
<1>10. \A o : Aggregate(o) # Aggregate(ev) /\ Aggregate(o) \in missed \union Pending
                => Aggregate(o) \in (missed \union Pending)'
  <2>1. missed \ {Aggregate(ev)} \subseteq missed'
    BY <1>1
  <2>2. Pending \ {Aggregate(ev)} \subseteq Pending'
    BY <1>4 DEF Pending
  <2> QED  BY <2>1, <2>2
<1>11. Aggregate(ev) \in missed' \/ Announced(ev)'
  <2>1. CASE Emitted(ev.key) /\ LastAbout(Aggregate(ev)) = ev
    <3>1. PICK i \in 1..Len(feed) : feed[i].key = ev.key
      BY <2>1 DEF Emitted
    <3>2. feed[i] \in Events
      BY <1>2
    <3>3. Aggregate(feed[i]) = Aggregate(ev)
      BY <1>3, <3>1, <3>2, KeyTellsAggregate
    <3>4. Announced(ev)
      BY <2>1, <3>3 DEF Announced, EventsAbout
    <3> QED  BY <1>1, <2>1, <3>4 DEF Announced, EventsAbout, LastAbout
  <2>2. CASE Emitted(ev.key) /\ LastAbout(Aggregate(ev)) # ev
    BY <1>1, <2>2
  <2>3. CASE ~Emitted(ev.key)
    BY <1>1, <1>2, <1>3, <2>3, AppendTells
  <2> QED  BY <2>1, <2>2, <2>3
<1>12. ASSUME NEW o, Holds(o)' PROVE Told(o)'
  <2>1. Holds(o) /\ Told(o)
    BY <1>6, <1>12 DEF MirrorInv
  <2>2. CASE Aggregate(o) = Aggregate(ev)
    <3>1. o = ev
      BY <1>3, <2>1, <2>2, OneEventEach
    <3> QED  BY <1>11, <3>1 DEF Told
  <2>3. CASE Aggregate(o) # Aggregate(ev)
    <3>1. CASE Aggregate(o) \in missed \union Pending
      BY <1>10, <2>3, <3>1 DEF Told
    <3>2. CASE Announced(o)
      <4>1. CASE feed' = feed
        BY <3>2, <4>1 DEF Told, Announced, EventsAbout, LastAbout
      <4>2. CASE feed' = Append(feed, ev)
        BY <1>2, <1>3, <2>3, <3>2, <4>2, AppendTells DEF Told
      <4> QED  BY <1>1, <4>1, <4>2
    <3> QED  BY <2>1, <3>1, <3>2 DEF Told
  <2> QED  BY <2>2, <2>3
<1> QED  BY <1>7, <1>8, <1>9, <1>12 DEF MirrorInv

\* A match is saved: it is held, and its event is scheduled when it changed.
LEMMA MatchStep ==
  ASSUME MirrorInv, NEW j \in Projects, NEW s \in Supervisors, MatchProject(j, s)
  PROVE  MirrorInv'
<1>0. PICK m : m = Resolved(j, s)
  OBVIOUS
<1>1. /\ feed' = feed /\ sync.pc = "matching" /\ sync.events = {}
      /\ UNCHANGED <<graphVars, source, supervisor, person, publication, course, missed>>
      /\ match' = [match EXCEPT ![j] = m]
      /\ sync' = [sync EXCEPT !.todo = @ \ {<<j, s>>},
                    !.events = IF match' = match THEN {} ELSE {MatchEvent(j, match'[j])}]
      /\ stamp' = IF match'[j].at = stamp + 1 THEN stamp + 1 ELSE stamp
  BY <1>0 DEF MatchProject
<1>2. RowsInv /\ SyncInv
  BY DEF MirrorInv
<1>3. m \in Matches /\ m # NoMatch
  BY <1>0, <1>2, ResolvedIsMatch
<1>4. match' \in [Projects -> Matches] /\ match'[j] = m /\ \A i \in Projects : i # j => match'[i] = match[i]
  BY <1>1, <1>2, <1>3 DEF RowsInv
<1>5. RowsInv'
  BY <1>1, <1>2, <1>4 DEF RowsInv
<1>6. /\ sync'.events = IF match' = match THEN {} ELSE {MatchEvent(j, m)}
      /\ sync'.pc = "matching" /\ sync'.todo = sync.todo \ {<<j, s>>}
      /\ sync' = [pc |-> sync'.pc, todo |-> sync'.todo, events |-> sync'.events]
  BY <1>1, <1>2, <1>4 DEF SyncInv
<1>7. MatchEvent(j, m) \in Events
  BY <1>3 DEF Events
<1>8. Holds(MatchEvent(j, m))'
  BY <1>3, <1>4 DEF Holds
<1>9. SyncInv'
  <2>1. sync.todo \subseteq Projects \X Supervisors
    BY <1>1, <1>2 DEF SyncInv, Stopped
  <2>2. \A ev \in sync'.events : Scheduled(ev)'
    BY <1>6, <1>8 DEF Scheduled
  <2> QED  BY <1>6, <1>7, <2>1, <2>2 DEF SyncInv
<1>10. GraphInv' /\ FeedInv'
  BY <1>1, NothingAppended
<1>11. Pending = {}
  BY <1>1 DEF Pending
<1>12. ASSUME NEW ev, Holds(ev)' PROVE Told(ev)'
  <2>1. CASE ev = MatchEvent(j, m) /\ match' # match
    <3>1. ev \in sync'.events
      BY <1>6, <2>1
    <3> QED  BY <3>1 DEF Told, Pending
  <2>2. CASE Holds(ev)
    <3>1. Told(ev)
      BY <2>2 DEF MirrorInv
    <3> QED  BY <1>1, <1>11, <3>1, StillTold
  <2>3. Holds(ev) \/ (ev = MatchEvent(j, m) /\ match' # match)
    BY <1>1, <1>4, <1>12 DEF Holds
  <2> QED  BY <2>1, <2>2, <2>3
<1> QED  BY <1>5, <1>9, <1>10, <1>12 DEF MirrorInv
\* One person's transaction: what it changes is scheduled, but for new links.
LEMMA PersonStep ==
  ASSUME MirrorInv, NEW f \in Persons, SyncPerson(f)
  PROVE  MirrorInv'
<1>0. PICK known : known = Known \union {f}
  OBVIOUS
<1>1. /\ feed' = feed /\ sync.pc = "persons" /\ sync.events = {} /\ f \in sync.todo
      /\ UNCHANGED <<graphVars, source, supervisor, match, stamp>>
      /\ person' = [person EXCEPT ![f] = source.person[f]]
      /\ publication' = [b \in Publications |->
           IF b \in PublicationsOf(f)
             THEN [authors |-> source.authors[b], linked |-> Linked(b, known)]
             ELSE publication[b]]
      /\ course' = course \union CoursesOf[f]
      /\ sync' = [sync EXCEPT !.todo = @ \ {f}, !.events = EventsOf(f)]
      /\ missed' = missed \union {<<"faculty_publication", b>> : b \in Relinked(f)}
  BY <1>0 DEF SyncPerson
<1>2. RowsInv /\ SyncInv
  BY DEF MirrorInv
<1>3. /\ source.person \in [Persons -> Profiles] /\ source.authors \in [Publications -> SUBSET Persons]
      /\ person \in [Persons -> Profiles \union {Null}] /\ known \subseteq Persons
  BY <1>0, <1>2 DEF RowsInv, Known
<1>4. /\ person' \in [Persons -> Profiles \union {Null}]
      /\ person'[f] = source.person[f] /\ person'[f] # Null
      /\ \A g \in Persons : g # f => person'[g] = person[g]
  BY <1>1, <1>3, KeysAssumption
<1>5. \A b \in Publications :
        IF b \in PublicationsOf(f)
          THEN publication'[b] = [authors |-> source.authors[b], linked |-> Linked(b, known)]
          ELSE publication'[b] = publication[b]
  BY <1>1
<1>6. \A b \in Publications :
        /\ source.authors[b] \in SUBSET Persons /\ Linked(b, known) \in SUBSET Persons
        /\ Linked(b, known) \subseteq source.authors[b]
  BY <1>3 DEF Linked
<1>7. \A b \in PublicationsOf(f) :
        /\ b \in Publications
        /\ publication'[b] \in [authors : SUBSET Persons, linked : SUBSET Persons]
        /\ publication'[b].authors = source.authors[b]
        /\ publication'[b].linked = Linked(b, known)
        /\ publication'[b].linked \subseteq publication'[b].authors
  <2> SUFFICES ASSUME NEW b \in PublicationsOf(f)
               PROVE  /\ b \in Publications
                      /\ publication'[b] \in [authors : SUBSET Persons, linked : SUBSET Persons]
                      /\ publication'[b].authors = source.authors[b]
                      /\ publication'[b].linked = Linked(b, known)
                      /\ publication'[b].linked \subseteq publication'[b].authors
    OBVIOUS
  <2>1. b \in Publications
    BY DEF PublicationsOf
  <2>2. PICK A, L \in SUBSET Persons : A = source.authors[b] /\ L = Linked(b, known) /\ L \subseteq A
    BY <1>6, <2>1
  <2>3. publication'[b] = [authors |-> A, linked |-> L]
    BY <1>5, <2>1, <2>2
  <2> QED  BY <2>1, <2>2, <2>3
<1>8. RowsInv'
  <2>1. publication' \in [Publications -> {Null} \union
          {row \in [authors : SUBSET Persons, linked : SUBSET Persons] : row.linked \subseteq row.authors}]
    <3> SUFFICES ASSUME NEW b \in Publications
                 PROVE  publication'[b] \in {Null} \union
          {row \in [authors : SUBSET Persons, linked : SUBSET Persons] : row.linked \subseteq row.authors}
      BY <1>1
    <3>1. CASE b \in PublicationsOf(f)
      BY <1>7, <3>1
    <3>2. CASE b \notin PublicationsOf(f)
      BY <1>2, <1>5, <3>2 DEF RowsInv
    <3> QED  BY <3>1, <3>2
  <2>2. course' \in SUBSET UNION {CoursesOf[g] : g \in Persons}
    BY <1>1, <1>2 DEF RowsInv
  <2> QED  BY <1>1, <1>2, <1>4, <2>1, <2>2 DEF RowsInv<1>9. \A b \in PublicationsOf(f) :
        /\ b \in Publications /\ publication'[b] # Null
        /\ publication'[b].authors = source.authors[b]
        /\ publication'[b].linked = Linked(b, known)
  BY <1>7, KeysAssumption
<1>10. EventsOf(f) = (IF PersonChanged(f) THEN {PersonEvent(f, source.person[f])} ELSE {})
        \union {PublicationEvent(b, source.authors[b], Linked(b, known)) :
                  b \in {b \in PublicationsOf(f) : PublicationChanged(b)}}
        \union {CourseEvent(f, c) : c \in NewCourses(f)}
  BY <1>0 DEF EventsOf
<1>11. ASSUME NEW ev \in EventsOf(f) PROVE ev \in Events /\ Holds(ev)'
  <2>1. CASE ev = PersonEvent(f, source.person[f])
    <3>1. source.person[f] \in Profiles
      BY <1>3
    <3> QED  BY <1>4, <2>1, <3>1 DEF Events, Holds
  <2>2. CASE \E b \in PublicationsOf(f) : ev = PublicationEvent(b, source.authors[b], Linked(b, known))
    <3>1. PICK b \in PublicationsOf(f) : ev = PublicationEvent(b, source.authors[b], Linked(b, known))
      BY <2>2
    <3>2. b \in Publications
      BY <1>9
    <3>3. ev \in Events
      BY <1>6, <3>1, <3>2 DEF Events
    <3>4. ev = PublicationEvent(b, publication'[b].authors, publication'[b].linked)
      BY <1>9, <3>1
    <3> QED  BY <1>9, <3>2, <3>3, <3>4 DEF Holds
  <2>3. CASE \E c \in NewCourses(f) : ev = CourseEvent(f, c)
    <3>1. PICK c \in CoursesOf[f] : ev = CourseEvent(f, c)
      BY <2>3 DEF NewCourses
    <3>2. c \in course'
      BY <1>1
    <3> QED  BY <3>1, <3>2 DEF Events, CourseEvents, Holds
  <2> QED  BY <1>10, <1>11, <2>1, <2>2, <2>3
<1>12. /\ sync'.events = EventsOf(f) /\ sync'.pc = "persons" /\ sync'.todo = sync.todo \ {f}
       /\ sync' = [pc |-> sync'.pc, todo |-> sync'.todo, events |-> sync'.events]
  BY <1>1, <1>2 DEF SyncInv
<1>13. SyncInv'
  <2>1. sync.todo \subseteq Persons
    BY <1>1, <1>2 DEF SyncInv, Stopped
  <2>2. sync'.events \subseteq Events /\ \A ev \in sync'.events : Scheduled(ev)'
    BY <1>11, <1>12 DEF Scheduled
  <2> QED  BY <1>12, <2>1, <2>2 DEF SyncInv
<1>14. GraphInv' /\ FeedInv'
  BY <1>1, NothingAppended
<1>15. Pending = {} /\ missed \union Pending \subseteq (missed \union Pending)'
  BY <1>1 DEF Pending
<1>16. ASSUME NEW ev, Holds(ev)'
       PROVE  Holds(ev) \/ ev \in EventsOf(f) \/ Aggregate(ev) \in missed'
  <2>1. ASSUME NEW g \in Persons, person'[g] # Null, ev = PersonEvent(g, person'[g])
        PROVE  Holds(ev) \/ ev \in EventsOf(f)
    <3>1. CASE g = f /\ PersonChanged(f)
      BY <1>4, <1>10, <2>1, <3>1
    <3>2. CASE ~(g = f /\ PersonChanged(f))
      <4>1. person'[g] = person[g]
        BY <1>4, <3>2 DEF PersonChanged
      <4> QED  BY <2>1, <4>1 DEF Holds
    <3> QED  BY <3>1, <3>2
  <2>2. ASSUME NEW b \in Publications, publication'[b] # Null,
               ev = PublicationEvent(b, publication'[b].authors, publication'[b].linked)
        PROVE  Holds(ev) \/ ev \in EventsOf(f) \/ Aggregate(ev) \in missed'
    <3>1. CASE b \in PublicationsOf(f) /\ PublicationChanged(b)
      <4>1. ev = PublicationEvent(b, source.authors[b], Linked(b, known))
        BY <1>9, <2>2, <3>1
      <4> QED  BY <1>10, <3>1, <4>1
    <3>2. CASE b \in Relinked(f)
      BY <1>1, <2>2, <3>2 DEF Aggregate, PublicationEvent
    <3>3. CASE b \in PublicationsOf(f) /\ ~PublicationChanged(b) /\ b \notin Relinked(f)
      <4>1. /\ publication[b] # Null /\ publication[b].authors = source.authors[b]
            /\ publication[b].linked = Linked(b, known)
        BY <1>0, <3>3 DEF PublicationChanged, Relinked
      <4>2. ev = PublicationEvent(b, publication[b].authors, publication[b].linked)
        BY <1>9, <2>2, <3>3, <4>1
      <4> QED  BY <4>1, <4>2 DEF Holds
    <3>4. CASE b \notin PublicationsOf(f)
      <4>1. publication'[b] = publication[b]
        BY <1>5, <3>4
      <4> QED  BY <2>2, <4>1 DEF Holds
    <3> QED  BY <3>1, <3>2, <3>3, <3>4
  <2>3. ASSUME NEW g \in Persons, NEW c \in course', c \in CoursesOf[g], ev = CourseEvent(g, c)
        PROVE  Holds(ev) \/ ev \in EventsOf(f)
    <3>1. CASE c \in course
      BY <2>3, <3>1 DEF Holds
    <3>2. CASE c \notin course
      <4>1. c \in NewCourses(f)
        BY <1>1, <3>2 DEF NewCourses
      <4>2. g = f
        BY <2>3, <4>1, KeysAssumption DEF NewCourses
      <4> QED  BY <1>10, <2>3, <4>1, <4>2
    <3> QED  BY <3>1, <3>2
  <2>4. ASSUME NEW j \in Projects, match'[j] # NoMatch, ev = MatchEvent(j, match'[j])
        PROVE  Holds(ev)
    BY <1>1, <2>4 DEF Holds
  <2> QED  BY <1>16, <2>1, <2>2, <2>3, <2>4 DEF Holds
<1>17. ASSUME NEW ev, Holds(ev)' PROVE Told(ev)'
  <2>1. CASE Holds(ev)
    <3>1. Told(ev)
      BY <2>1 DEF MirrorInv
    <3> QED  BY <1>1, <1>15, <3>1, StillTold
  <2>2. CASE ev \in EventsOf(f)
    BY <1>12, <2>2 DEF Told, Pending
  <2>3. CASE Aggregate(ev) \in missed'
    BY <2>3 DEF Told
  <2> QED  BY <1>16, <1>17, <2>1, <2>2, <2>3
<1> QED  BY <1>8, <1>13, <1>14, <1>17 DEF MirrorInv
\* The service and the projects change; a deleted project loses its match.
LEMMA EnvironmentStep ==
  ASSUME MirrorInv, Environment
  PROVE  MirrorInv'
<1>1. /\ UNCHANGED <<graphVars, person, publication, course, sync, stamp, missed>>
      /\ SourceChanges \/ EditSupervisor \/ DeleteProject
  BY DEF Environment
<1>2. RowsInv /\ SyncInv
  BY DEF MirrorInv
<1>3. Pending' = Pending /\ missed' = missed
  BY <1>1 DEF Pending
<1>4. CASE SourceChanges \/ EditSupervisor
  <2>1. feed' = feed /\ match' = match
    BY <1>4 DEF SourceChanges, EditSupervisor
  <2>2. source' \in [person : [Persons -> Profiles], authors : [Publications -> SUBSET Persons]]
    <3>1. CASE source' = source
      BY <1>2, <3>1 DEF RowsInv
    <3>2. ASSUME NEW f \in Movers, NEW r \in Profiles, source' = [source EXCEPT !.person[f] = r]
          PROVE  source' \in [person : [Persons -> Profiles], authors : [Publications -> SUBSET Persons]]
      BY <1>2, <3>2 DEF RowsInv
    <3>3. ASSUME NEW b \in Publications, NEW A \in AuthorLists,
                 source' = [source EXCEPT !.authors[b] = A]
          PROVE  source' \in [person : [Persons -> Profiles], authors : [Publications -> SUBSET Persons]]
      BY <1>2, <3>3, ChangesAssumption DEF RowsInv
    <3> QED  BY <1>4, <3>1, <3>2, <3>3 DEF SourceChanges, EditSupervisor
  <2>3. supervisor' \in [Projects -> Supervisors \union {Gone}]
    BY <1>2, <1>4 DEF RowsInv, SourceChanges, EditSupervisor
  <2>4. RowsInv'
    BY <1>1, <1>2, <2>1, <2>2, <2>3 DEF RowsInv
  <2>5. SyncInv'
    BY <1>1, <1>2, <2>1 DEF SyncInv, Scheduled, Holds
  <2> QED  BY <1>1, <1>3, <2>1, <2>4, <2>5, QuietStep DEF mirrorVars
<1>5. CASE DeleteProject
  <2>1. PICK j \in Projects :
          /\ Len(feed) < MaxEvents /\ feed' = Append(feed, DeletedEvent(j))
          /\ supervisor' = [supervisor EXCEPT ![j] = Gone]
          /\ match' = [match EXCEPT ![j] = NoMatch]
          /\ source' = source
    BY <1>5 DEF DeleteProject, DeletedEvent
  <2>2. DeletedEvent(j) \in Events /\ Aggregate(DeletedEvent(j)) = <<"project", j>>
    BY DEF Events, DeletedEvent, Aggregate
  <2>3. GraphInv' /\ FeedInv'
    BY <1>1, <2>1, <2>2, SomethingAppended
  <2>4. match'[j] = NoMatch /\ \A i \in Projects : i # j => match'[i] = match[i]
    BY <1>2, <2>1 DEF RowsInv
  <2>5. NoMatch \in Matches
    BY DEF NoMatch, Matches
  <2>6. RowsInv'
    BY <1>1, <1>2, <2>1, <2>5 DEF RowsInv
  <2>7. ASSUME NEW ev, Holds(ev)'
        PROVE  Holds(ev) /\ Aggregate(ev) # <<"project", j>>
    <3>1. Holds(ev)
      BY <1>1, <2>4, <2>7 DEF Holds
    <3> QED  BY <3>1 DEF Holds, Aggregate, PersonEvent, PublicationEvent, CourseEvent, MatchEvent
  <2>8. ASSUME NEW ev, Scheduled(ev) PROVE Scheduled(ev)'
    <3>1. ASSUME NEW i \in Projects, match[i] # NoMatch, ev = MatchEvent(i, match[i])
          PROVE  Scheduled(ev)'
      <4>1. PICK m \in Matches : m = match[i]
        BY <1>2 DEF RowsInv
      <4>2. CASE i = j
        BY <2>4, <3>1, <4>1, <4>2 DEF Scheduled
      <4>3. CASE i # j
        BY <2>4, <3>1, <4>3 DEF Scheduled, Holds
      <4> QED  BY <4>2, <4>3
    <3>2. ASSUME NEW i \in Projects, NEW m \in Matches, match[i] = NoMatch, ev = MatchEvent(i, m)
          PROVE  Scheduled(ev)'
      <4>1. match'[i] = NoMatch
        BY <2>4, <3>2
      <4> QED  BY <3>2, <4>1 DEF Scheduled
    <3> QED  BY <1>1, <2>8, <3>1, <3>2 DEF Scheduled, Holds
  <2>9. SyncInv'
    BY <1>1, <1>2, <2>8 DEF SyncInv
  <2>10. ASSUME NEW ev, Holds(ev)' PROVE Told(ev)'
    <3>1. Told(ev) /\ Aggregate(ev) # <<"project", j>>
      BY <2>7, <2>10 DEF MirrorInv
    <3>2. CASE Announced(ev)
      <4>1. feed \in Seq(Events)
        BY DEF MirrorInv, FeedInv
      <4> QED  BY <2>1, <2>2, <3>1, <3>2, <4>1, AppendTells DEF Told
    <3> QED  BY <1>3, <3>1, <3>2 DEF Told
  <2> QED  BY <2>3, <2>6, <2>9, <2>10 DEF MirrorInv
<1> QED  BY <1>1, <1>4, <1>5

LEMMA MirrorInit ==
  ASSUME Init
  PROVE  MirrorInv
<1>1. GraphInit /\ feed = <<>> /\ sync = Stopped /\ stamp = 0
  BY DEF Init, GraphInit
<1>2. GraphInv
  BY <1>1, GraphInitInv
<1>3. FeedInv
  BY <1>1, GraphBoundsAssumption DEF FeedInv
<1>4. NoMatch \in Matches
  BY DEF NoMatch, Matches
<1>5. RowsInv
  BY <1>4, ProfilesAssumption DEF Init, RowsInv
<1>6. SyncInv
  BY <1>1 DEF SyncInv, Stopped
<1>7. \A ev : ~Holds(ev)
  BY DEF Init, Holds
<1> QED  BY <1>2, <1>3, <1>5, <1>6, <1>7 DEF MirrorInv

\* Whatever the command, the service, the deaths and the graph service do, the mirror
\* and its feed keep the invariant that the other results follow from.
THEOREM MirrorInvariant == Spec => []MirrorInv
<1>1. Init => MirrorInv
  BY MirrorInit
<1>2. MirrorInv /\ [Next]_vars => MirrorInv'
  <2> SUFFICES ASSUME MirrorInv, [Next]_vars PROVE MirrorInv'
    OBVIOUS
  <2>1. CASE SyncStep
    BY <2>1, CommandStep, EmitStep, PersonStep, MatchStep DEF SyncStep
  <2>2. CASE SyncDies
    BY <2>2, SyncDiesStep
  <2>3. CASE Environment
    BY <2>3, EnvironmentStep
  <2>4. CASE GraphStep /\ UNCHANGED facultyVars
    BY <2>4, ConsumerStep
  <2>5. CASE UNCHANGED vars
    BY <2>5, MirrorStutters
  <2> QED  BY <2>1, <2>2, <2>3, <2>4, <2>5 DEF Next
<1> QED  BY <1>1, <1>2, PTL DEF Spec

\* The mirror, the running command, the feed and the graph have the values their
\* tables and queues allow: a confirmed match has a time and no other has one, a link
\* to an author is one of the publication's, and a page ends before the feed does.
THEOREM FacultyTypeCorrect == Spec => []TypeOK
<1>1. MirrorInv => TypeOK
  <2> SUFFICES ASSUME MirrorInv PROVE TypeOK
    OBVIOUS
  <2>1. GraphTypeOK
    <3>1. PageInv /\ IsGraph(graph) /\ FeedInv
      BY DEF MirrorInv, GraphInv
    <3>2. Len(feed) \in Nat
      BY <3>1 DEF FeedInv
    <3> QED  BY <3>1, <3>2 DEF GraphTypeOK, PageInv, IsGraph, FeedInv
  <2>2. /\ source.person \in [Persons -> Profiles]
        /\ source.authors \in [Publications -> SUBSET Persons]
    BY DEF MirrorInv, RowsInv
  <2>3. \A b \in Publications : publication[b] = Null \/
          /\ publication[b].authors \in SUBSET Persons
          /\ publication[b].linked \subseteq publication[b].authors
    BY DEF MirrorInv, RowsInv
  <2>4. \A j \in Projects :
          /\ match[j].status \in {"none", "unmatched", "candidate", "confirmed", "ambiguous"}
          /\ match[j].status = "confirmed" <=> match[j].at # 0
    BY DEF MirrorInv, RowsInv, Matches
  <2> QED  BY <2>1, <2>2, <2>3, <2>4 DEF MirrorInv, RowsInv, SyncInv, TypeOK
<1> QED  BY <1>1, MirrorInvariant, PTL

\* What the mirror holds is what was announced last about it, is about to be
\* announced, or is one of the gaps that missed names: a death after the commit, a
\* content announced once before, links made without an event (sync_faculty).
THEOREM AlwaysAnnounced == Spec => []MirrorIsAnnounced
<1>1. MirrorInv => MirrorIsAnnounced
  BY HoldsIsTold DEF MirrorInv
<1> QED  BY <1>1, MirrorInvariant, PTL

\* A project has one confirmed head in the graph at most, also between the two
\* transactions of a match and after a death there (project_event).
THEOREM AlwaysOneFacultyEdge == Spec => []OneFacultyEdge
<1>1. MirrorInv => OneFacultyEdge
  BY DEF MirrorInv, GraphInv
<1> QED  BY <1>1, MirrorInvariant, PTL

\* The feed of the mirror is one of those that AnyFeedIsShown speaks of: once the
\* graph service has caught up, the graph shows the last event about each person,
\* publication, course and match (sync_from_outbox).
THEOREM MirrorIsShown == Spec => []GraphShowsLastEvents
<1>1. MirrorInv => GraphShowsLastEvents
  BY CaughtUpShows DEF MirrorInv
<1> QED  BY <1>1, MirrorInvariant, PTL
-----------------------------------------------------------------------------
(***************************************************************************)
(* The web service.  Its handlers are another such producer: an event      *)
(* waits in its thread between the commit of the row and emit_event.  The  *)
(* hypotheses below are the assumptions of GraphMirror on its keys.        *)
(***************************************************************************)
CONSTANTS Applications, Users, Contents, InterestSets, ProfileId, New, Deleted, Threads
VARIABLES project, application, profile, thread

Web == INSTANCE GraphMirror

Rows == [student : Users, project : Projects]

WebEvents ==
  {Web!ProjectEventOf(p, c) : p \in Projects, c \in Contents}
  \union {[kind |-> "project.deleted", id |-> p] : p \in Projects}
  \union {Web!ApplicationEventOf(a, row) : a \in Applications, row \in Rows}
  \union {[kind |-> "application.deleted", id |-> a] : a \in Applications}
  \union {Web!ProfileEventOf(u, I) : u \in Users, I \in InterestSets}

SiteInv ==
  /\ application \in [Applications -> Rows \union {New, Deleted}]
  /\ profile \in [Users -> InterestSets]
  /\ DOMAIN thread = Threads
  /\ \A t \in Threads :
       /\ thread[t].pc = "loaded" => thread[t].user \in Users /\ thread[t].copy \in InterestSets
       /\ thread[t].pc = "saved" => thread[t].event \in WebEvents
  /\ feed \in Seq(WebEvents)

\* The projection of the one module is that of the other.
LEMMA SameProjection ==
  ASSUME NEW g, NEW ev
  PROVE  /\ Web!Project(g, ev) = Project(g, ev)
         /\ Web!AttachMatch(g, ev) = AttachMatch(g, ev)
         /\ Web!Confirms(ev) <=> Confirms(ev)
BY Zenon
   DEF
      Node, Tags, ProjectNode, StudentNode, ApplicationNode, PersonNode, Merge, Link,
      UnlinkFrom, UnlinkInto, DetachDelete, Confirms, AttachMatch, DetachMatch,
      ProjectProject, ProjectProfile, ProjectApplication, ProjectPerson,
      ProjectPublication, ProjectCourse, DeleteProjectNode, DeleteApplicationNode,
      Project,
      Web!Node, Web!Tags, Web!ProjectNode, Web!StudentNode, Web!ApplicationNode,
      Web!PersonNode, Web!Merge, Web!Link, Web!UnlinkFrom, Web!UnlinkInto,
      Web!DetachDelete, Web!Confirms, Web!AttachMatch, Web!DetachMatch,
      Web!ProjectProject, Web!ProjectProfile, Web!ProjectApplication, Web!ProjectPerson,
      Web!ProjectPublication, Web!ProjectCourse, Web!DeleteProjectNode,
      Web!DeleteApplicationNode, Web!Project

LEMMA SameConsumer ==
  ASSUME Web!GraphStep
  PROVE  GraphStep
<1>1. Web!ShownUpTo = ShownUpTo /\ \A S : Web!Max(S) = Max(S)
  BY Zenon DEF Web!ShownUpTo, ShownUpTo, Web!Max, Max
<1>2. CASE Web!Poll
  BY <1>2 DEF Web!Poll, Web!FetchEvents, Web!Busy, Web!NoPage, GraphStep, Poll, FetchEvents, Busy, NoPage
<1>3. CASE Web!Replay
  BY <1>3 DEF Web!Replay, Web!FetchEvents, Web!Busy, Web!NoPage, GraphStep, Replay, FetchEvents, Busy, NoPage
<1>4. CASE Web!ProjectEvent
  BY <1>4, SameProjection DEF Web!ProjectEvent, Web!Busy, Web!NoPage, GraphStep, ProjectEvent, Busy, NoPage
<1>5. CASE Web!FinishMatch
  BY <1>5, SameProjection DEF Web!FinishMatch, GraphStep, FinishMatch
<1>6. CASE Web!AckEvent
  BY <1>1, <1>6 DEF Web!AckEvent, Web!Busy, Web!NoPage, GraphStep, AckEvent, Busy, NoPage
<1>7. CASE Web!GraphDies
  BY <1>1, <1>7 DEF Web!GraphDies, Web!Busy, Web!NoPage, GraphStep, GraphDies, Busy, NoPage
<1> QED  BY <1>2, <1>3, <1>4, <1>5, <1>6, <1>7 DEF Web!GraphStep
\* Whatever a request does, what a thread is about to emit is an event of the site.
LEMMA RequestStep ==
  ASSUME SiteInv, Web!Request
  PROVE  SiteInv'
<1>1. ASSUME NEW t \in Threads, NEW ev \in WebEvents, Web!Announces(t, ev),
             application' \in [Applications -> Rows \union {New, Deleted}],
             profile' \in [Users -> InterestSets]
      PROVE  SiteInv'
  BY <1>1 DEF SiteInv, Web!Announces, Web!Request
<1>2. ASSUME NEW p \in Projects, Web!WithoutProject(p)
      PROVE  application' \in [Applications -> Rows \union {New, Deleted}]
  BY <1>2 DEF SiteInv, Web!WithoutProject
<1>3. ASSUME NEW a \in Applications, Web!Filed(a) PROVE application[a] \in Rows
  BY <1>3 DEF SiteInv, Web!Filed
<1>4. ASSUME NEW t \in Threads, NEW p \in Projects, NEW c \in Contents, Web!SaveProject(t, p, c)
      PROVE  SiteInv'
  <2>1. Web!ProjectEventOf(p, c) \in WebEvents
    BY DEF WebEvents
  <2> QED  BY <1>1, <1>4, <2>1 DEF Web!SaveProject, SiteInv
<1>5. ASSUME NEW t \in Threads, NEW p \in Projects, Web!DestroyProject(t, p)
      PROVE  SiteInv'
  <2>1. [kind |-> "project.deleted", id |-> p] \in WebEvents
    BY DEF WebEvents
  <2> QED  BY <1>1, <1>2, <1>5, <2>1 DEF Web!DestroyProject, SiteInv
<1>6. ASSUME NEW a \in Applications, NEW row \in Rows
      PROVE  Web!ApplicationEventOf(a, row) \in WebEvents
  BY DEF WebEvents
<1>7. ASSUME NEW t \in Threads, NEW a \in Applications, NEW u \in Users, NEW p \in Projects,
             Web!FileApplication(t, a, u, p)
      PROVE  SiteInv'
  <2> DEFINE row == [student |-> u, project |-> p]
  <2>1. row \in Rows /\ application' = [application EXCEPT ![a] = row]
    BY <1>7 DEF Rows, Web!FileApplication
  <2> HIDE DEF row
  <2>2. application'[a] = row /\ application' \in [Applications -> Rows \union {New, Deleted}]
    BY <2>1 DEF SiteInv
  <2> QED  BY <1>1, <1>6, <1>7, <2>1, <2>2 DEF Web!FileApplication, SiteInv
<1>8. ASSUME NEW t \in Threads, NEW a \in Applications, Web!ReviewApplication(t, a)
      PROVE  SiteInv'
  BY <1>1, <1>3, <1>6, <1>8 DEF Web!ReviewApplication, SiteInv
<1>9. ASSUME NEW t \in Threads, NEW a \in Applications, Web!DestroyApplication(t, a)
      PROVE  SiteInv'
  <2>1. [kind |-> "application.deleted", id |-> a] \in WebEvents
    BY DEF WebEvents
  <2>2. application' \in [Applications -> Rows \union {New, Deleted}]
    BY <1>9 DEF Web!DestroyApplication, SiteInv
  <2> QED  BY <1>1, <1>9, <2>1, <2>2 DEF Web!DestroyApplication, SiteInv
<1>10. ASSUME NEW t \in Threads, NEW u \in Users, Web!LoadProfile(t, u)
       PROVE  SiteInv'
  BY <1>10 DEF Web!LoadProfile, SiteInv, Web!Request
<1>11. ASSUME NEW u \in Users, NEW I \in InterestSets
       PROVE  Web!ProfileEventOf(u, I) \in WebEvents
  BY DEF WebEvents
<1>12. ASSUME NEW t \in Threads, NEW I \in InterestSets, Web!PatchProfile(t, I)
       PROVE  SiteInv'
  <2>1. thread[t].user \in Users
    BY <1>12 DEF SiteInv, Web!PatchProfile
  <2>2. profile' \in [Users -> InterestSets]
    BY <1>12 DEF SiteInv, Web!PatchProfile
  <2> QED  BY <1>1, <1>11, <1>12, <2>1, <2>2 DEF Web!PatchProfile, SiteInv
<1>13. ASSUME NEW t \in Threads, Web!SaveFavourites(t)
       PROVE  SiteInv'
  <2>1. thread[t].user \in Users /\ thread[t].copy \in InterestSets
    BY <1>13 DEF SiteInv, Web!SaveFavourites
  <2> QED  BY <1>1, <1>11, <1>13, <2>1 DEF Web!SaveFavourites, SiteInv
<1>14. ASSUME NEW p \in Projects, (\E c \in Contents : Web!EditPage(p, c)) \/ Web!DeletePage(p)
       PROVE  SiteInv'
  BY <1>2, <1>14 DEF Web!EditPage, Web!DeletePage, SiteInv, Web!Request
<1>15. ASSUME NEW a \in Applications, Web!WithdrawPage(a) PROVE SiteInv'
  BY <1>15 DEF Web!WithdrawPage, SiteInv, Web!Request
<1>16. ASSUME NEW u \in Users, NEW I \in InterestSets, Web!ProfilePage(u, I) PROVE SiteInv'
  BY <1>16 DEF Web!ProfilePage, SiteInv, Web!Request
<1> QED
  BY <1>4, <1>5, <1>7, <1>8, <1>9, <1>10, <1>12, <1>13, <1>14, <1>15, <1>16 DEF Web!Request

\* The events of the site are well formed: none is about a blank key, and none is
\* about a course.
LEMMA WebEventsAreWellFormed ==
  ASSUME Null \notin Projects \union Applications \union Nat, ProfileId \in [Users -> Nat],
         NEW F \in Seq(WebEvents)
  PROVE  IsFeed(F)
<1>1. ASSUME NEW ev \in WebEvents PROVE IsEvent(ev) /\ ev.kind # "faculty_course"
  BY <1>1 DEF WebEvents, Web!ProjectEventOf, Web!ApplicationEventOf, Web!ProfileEventOf,
     IsEvent, Kinds
<1> QED  BY <1>1 DEF IsFeed

\* The site implements the producer of well-formed events: what its threads, pages
\* and dying workers do is, for the feed and the graph, an event published, a step of
\* the graph service or nothing at all (emit_event, sync_from_outbox).
THEOREM SiteIsAProducer ==
  ASSUME Null \notin Projects \union Applications \union Nat, ProfileId \in [Users -> Nat]
  PROVE  Web!Spec => FeedSpec(WebEvents)
<1>1. Web!Init => SiteInv /\ GraphInit
  <2> SUFFICES ASSUME Web!Init PROVE SiteInv /\ GraphInit
    OBVIOUS
  <2>1. GraphInit
    BY DEF Web!Init, Web!GraphInit, GraphInit, Web!EmptyGraph, EmptyGraph, Web!NoPage, NoPage
  <2> QED  BY <2>1 DEF Web!Init, Web!Ready, SiteInv, GraphInit
<1>2. ASSUME SiteInv, [Web!Next]_Web!vars
      PROVE  SiteInv' /\ [GraphStep \/ Publish(WebEvents)]_<<feed, graphVars>>
  <2>1. CASE Web!Request
    <3>1. UNCHANGED <<feed, graphVars>>
      BY <2>1 DEF Web!Request, Web!graphVars, graphVars
    <3> QED  BY <1>2, <2>1, <3>1, RequestStep
  <2>2. ASSUME NEW t \in Threads, Web!EmitEvent(t)
        PROVE  SiteInv' /\ Publish(WebEvents)
    <3>1. /\ thread[t].pc = "saved" /\ feed' = Append(feed, thread[t].event)
          /\ thread' = [thread EXCEPT ![t] = Web!Ready]
          /\ UNCHANGED <<graphVars, application, profile>>
      BY <2>2 DEF Web!EmitEvent, Web!graphVars, graphVars
    <3>2. thread[t].event \in WebEvents
      BY <1>2, <3>1 DEF SiteInv
    <3>3. Append(feed, thread[t].event) \in Seq(WebEvents)
      BY <1>2, <3>2 DEF SiteInv
    <3>4. SiteInv'
      BY <1>2, <3>1, <3>3 DEF SiteInv, Web!Ready
    <3> QED  BY <3>1, <3>2, <3>3, <3>4, WebEventsAreWellFormed DEF Publish
  <2>3. ASSUME NEW t \in Threads, Web!WorkerDies(t)
        PROVE  SiteInv' /\ UNCHANGED <<feed, graphVars>>
    BY <1>2, <2>3 DEF Web!WorkerDies, Web!graphVars, graphVars, SiteInv, Web!Ready
  <2>4. CASE Web!GraphStep /\ UNCHANGED Web!webVars
    <3>1. GraphStep
      BY <2>4, SameConsumer
    <3>2. feed' = feed
      BY <3>1 DEF GraphStep, Poll, Replay, FetchEvents, ProjectEvent, FinishMatch, AckEvent,
         GraphDies
    <3> QED  BY <1>2, <2>4, <3>1, <3>2 DEF SiteInv, Web!webVars
  <2>5. CASE UNCHANGED Web!vars
    BY <1>2, <2>5 DEF Web!vars, Web!graphVars, Web!webVars, graphVars, SiteInv
  <2> QED  BY <1>2, <2>1, <2>2, <2>3, <2>4, <2>5 DEF Web!Next
<1> QED  BY <1>1, <1>2, PTL DEF Web!Spec, FeedSpec

\* Once the graph service has caught up with the site, the graph shows the last event
\* about each project, application and profile, whatever the handlers, the pages, the
\* replays and the deaths did (sync_from_outbox).
THEOREM SiteIsShown ==
  ASSUME Null \notin Projects \union Applications \union Nat, ProfileId \in [Users -> Nat]
  PROVE  Web!Spec => []GraphShowsLastEvents
<1>1. FeedSpec(WebEvents) => [](GraphShowsLastEvents /\ OneFacultyEdge)
  BY AnyFeedIsShown
<1> QED  BY <1>1, SiteIsAProducer, PTL
=============================================================================

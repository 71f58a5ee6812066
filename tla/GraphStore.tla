------------------------------ MODULE GraphStore ------------------------------
(***************************************************************************)
(* The Cypher projection of src/graph (graph_store.py): what each event    *)
(* does to the nodes and edges of the graph.  Titles, names and other      *)
(* texts of a node are left out; a payload is what decides edges.          *)
(***************************************************************************)
EXTENDS FiniteSets

CONSTANT Null   \* an absent or blank field of a payload

\* A node is its label and the key of its uniqueness constraint.
Node(label, keys) == {<<label, k>> : k \in keys \ {Null}}

Relations ==
  {"SUPERVISED_BY", "TAGGED_WITH", "INTERESTED_IN", "SUBMITTED", "TARGETS", "LOCATED_AT",
   "HAS_INTEREST", "AUTHORED", "TEACHES", "SUPERVISED_BY_FACULTY"}

EmptyGraph == [nodes |-> {}, edges |-> {}]

Merge(g, N) == [g EXCEPT !.nodes = @ \union N]

\* MERGE of the nodes F and T and of an edge from each of F to each of T.
Link(g, F, rel, T) ==
  [nodes |-> g.nodes \union F \union T, edges |-> g.edges \union (F \X {rel} \X T)]

\* DELETE of the edges of these relations that leave, or enter, a node of N.
UnlinkFrom(g, N, rels) ==
  [g EXCEPT !.edges = {e \in @ : ~(e[1] \in N /\ e[2] \in rels)}]
UnlinkInto(g, N, rels) ==
  [g EXCEPT !.edges = {e \in @ : ~(e[3] \in N /\ e[2] \in rels)}]

\* Mutation of DetachDelete: DELETE without DETACH.
DeleteOnly(g, N) == [g EXCEPT !.nodes = @ \ N]

\* DETACH DELETE
DetachDelete(g, N) ==
  [nodes |-> g.nodes \ N, edges |-> {e \in g.edges : e[1] \notin N /\ e[3] \notin N}]

-----------------------------------------------------------------------------
ProjectNode(p) == Node("Project", {p})
StudentNode(s) == Node("Student", {s})
ApplicationNode(a) == Node("Application", {a})
PersonNode(f) == Node("FacultyPerson", {f})
Tags(S) == Node("Tag", S)

\* Mutation of ProjectProject: the old supervisor's edge is kept.
ProjectProjectAdds(g, ev) ==
  Link(Link(Merge(g, ProjectNode(ev.id)),
            ProjectNode(ev.id), "SUPERVISED_BY", Node("Supervisor", {ev.supervisor})),
       ProjectNode(ev.id), "TAGGED_WITH", Tags(ev.tags))

\* _project_project: supervisor and tags are replaced.
ProjectProject(g, ev) ==
  LET p == ProjectNode(ev.id)
      led == Link(UnlinkFrom(Merge(g, p), p, {"SUPERVISED_BY"}),
                  p, "SUPERVISED_BY", Node("Supervisor", {ev.supervisor}))
  IN  Link(UnlinkFrom(led, p, {"TAGGED_WITH"}), p, "TAGGED_WITH", Tags(ev.tags))

\* _project_profile
ProjectProfile(g, ev) ==
  LET s == StudentNode(ev.id)
  IN  Link(UnlinkFrom(Merge(g, s), s, {"INTERESTED_IN"}),
           s, "INTERESTED_IN", Tags(ev.interests))

\* _project_application: student and project are created when they are missing.
ProjectApplication(g, ev) ==
  LET a == ApplicationNode(ev.id)
      bare == UnlinkFrom(UnlinkInto(Merge(g, a), a, {"SUBMITTED"}), a, {"TARGETS"})
  IN  Link(Link(bare, StudentNode(ev.student), "SUBMITTED", a),
           a, "TARGETS", ProjectNode(ev.project))

\* _delete_project, _delete_application
DeleteProjectNode(g, ev) == DetachDelete(g, ProjectNode(ev.id))
DeleteApplicationNode(g, ev) == DetachDelete(g, ApplicationNode(ev.id))

\* _project_faculty_person
ProjectPerson(g, ev) ==
  LET f == PersonNode(ev.id)
      here == Link(UnlinkFrom(Merge(g, f), f, {"LOCATED_AT"}),
                   f, "LOCATED_AT", Node("Campus", {ev.campus}))
  IN  Link(UnlinkFrom(here, f, {"HAS_INTEREST"}), f, "HAS_INTEREST", Tags(ev.interests))

\* Mutation of ProjectPublication: former authors keep their edge.
ProjectPublicationAdds(g, ev) ==
  LET p == Node("Publication", {ev.id})
  IN  Link(Merge(g, p), Node("FacultyPerson", ev.authors), "AUTHORED", p)

\* _project_faculty_publication: authors without a person are left out.
ProjectPublication(g, ev) ==
  LET p == Node("Publication", {ev.id})
  IN  Link(UnlinkInto(Merge(g, p), p, {"AUTHORED"}),
           Node("FacultyPerson", ev.authors), "AUTHORED", p)

\* _project_faculty_course: edges are only added.
ProjectCourse(g, ev) == Link(g, PersonNode(ev.person), "TEACHES", Node("Course", {ev.id}))

\* Mutation of DetachMatch: only an unconfirmed match takes the edge away.
DetachMatchUnconfirmed(g, ev) ==
  IF ev.status = "confirmed" THEN Merge(g, ProjectNode(ev.id))
  ELSE UnlinkFrom(Merge(g, ProjectNode(ev.id)), ProjectNode(ev.id), {"SUPERVISED_BY_FACULTY"})

\* _project_faculty_match, its first transaction ...
DetachMatch(g, ev) ==
  UnlinkFrom(Merge(g, ProjectNode(ev.id)), ProjectNode(ev.id), {"SUPERVISED_BY_FACULTY"})

Confirms(ev) == ev.status = "confirmed" /\ ev.person # Null

\* ... and its second.
AttachMatch(g, ev) ==
  Link(g, ProjectNode(ev.id), "SUPERVISED_BY_FACULTY", PersonNode(ev.person))

\* project_event: all other events are projected in one transaction.
Project(g, ev) ==
  CASE ev.kind = "project.deleted" -> DeleteProjectNode(g, ev)
    [] ev.kind = "application.deleted" -> DeleteApplicationNode(g, ev)
    [] ev.kind = "project" -> ProjectProject(g, ev)
    [] ev.kind = "user_profile" -> ProjectProfile(g, ev)
    [] ev.kind = "application" -> ProjectApplication(g, ev)
    [] ev.kind = "faculty_person" -> ProjectPerson(g, ev)
    [] ev.kind = "faculty_publication" -> ProjectPublication(g, ev)
    [] ev.kind = "faculty_course" -> ProjectCourse(g, ev)
    [] ev.kind = "project_faculty_match" -> DetachMatch(g, ev)

-----------------------------------------------------------------------------
(***************************************************************************)
(* What an event claims, and which edges of a graph its aggregate owns:    *)
(* the reference the projection is compared with.                          *)
(***************************************************************************)
Claims(ev) ==
  CASE ev.kind = "project" ->
         (ProjectNode(ev.id) \X {"SUPERVISED_BY"} \X Node("Supervisor", {ev.supervisor}))
         \union (ProjectNode(ev.id) \X {"TAGGED_WITH"} \X Tags(ev.tags))
    [] ev.kind = "user_profile" ->
         StudentNode(ev.id) \X {"INTERESTED_IN"} \X Tags(ev.interests)
    [] ev.kind = "application" ->
         (StudentNode(ev.student) \X {"SUBMITTED"} \X ApplicationNode(ev.id))
         \union (ApplicationNode(ev.id) \X {"TARGETS"} \X ProjectNode(ev.project))
    [] ev.kind = "faculty_person" ->
         (PersonNode(ev.id) \X {"LOCATED_AT"} \X Node("Campus", {ev.campus}))
         \union (PersonNode(ev.id) \X {"HAS_INTEREST"} \X Tags(ev.interests))
    [] ev.kind = "faculty_publication" ->
         Node("FacultyPerson", ev.authors) \X {"AUTHORED"} \X Node("Publication", {ev.id})
    [] ev.kind = "faculty_course" ->
         PersonNode(ev.person) \X {"TEACHES"} \X Node("Course", {ev.id})
    [] ev.kind = "project_faculty_match" /\ Confirms(ev) ->
         ProjectNode(ev.id) \X {"SUPERVISED_BY_FACULTY"} \X PersonNode(ev.person)
    [] OTHER -> {}

\* The aggregate an event is about; a match is one beside its project.
Aggregate(ev) ==
  CASE ev.kind = "project.deleted" -> <<"project", ev.id>>
    [] ev.kind = "application.deleted" -> <<"application", ev.id>>
    [] OTHER -> <<ev.kind, ev.id>>

Owned(g, x) ==
  LET from(label, rels) == {e \in g.edges : e[1] = <<label, x[2]>> /\ e[2] \in rels}
      into(label, rels) == {e \in g.edges : e[3] = <<label, x[2]>> /\ e[2] \in rels}
  IN  CASE x[1] = "project" -> from("Project", {"SUPERVISED_BY", "TAGGED_WITH"})
        [] x[1] = "user_profile" -> from("Student", {"INTERESTED_IN"})
        [] x[1] = "application" ->
             into("Application", {"SUBMITTED"}) \union from("Application", {"TARGETS"})
        [] x[1] = "faculty_person" -> from("FacultyPerson", {"LOCATED_AT", "HAS_INTEREST"})
        [] x[1] = "faculty_publication" -> into("Publication", {"AUTHORED"})
        [] x[1] = "faculty_course" -> into("Course", {"TEACHES"})
        [] x[1] = "project_faculty_match" -> from("Project", {"SUPERVISED_BY_FACULTY"})

\* The nodes an event removes, with the edges of other aggregates that touch them.
Removes(ev) ==
  CASE ev.kind = "project.deleted" -> ProjectNode(ev.id)
    [] ev.kind = "application.deleted" -> ApplicationNode(ev.id)
    [] OTHER -> {}
=============================================================================

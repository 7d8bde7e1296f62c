---------------------------- MODULE MCMcpErrors ----------------------------
(* McpErrors for TLC: comments on two issues and on a project, one of them *)
(* also with its target lost; a read; and a tool that neither verb list    *)
(* knows.                                                                  *)
EXTENDS McpErrors, TLC

CONSTANTS empty, a, b, project, x, y

Comment(entity, input, body) ==
  [name |-> "save_comment", input |-> input, body |-> body, entity |-> entity]
Comments == {
  Comment(a, "issueId" :> a, x), Comment(a, "issueId" :> a, y), Comment(b, "issueId" :> b, x),
  Comment(project, "projectId" :> project, x), Comment(project, "issueId" :> empty, x)}
Read == [name |-> "get_issue", input |-> "id" :> a, body |-> x, entity |-> a]
Archive == [name |-> "archive_issue", input |-> "id" :> a, body |-> x, entity |-> a]

(* An empty issueId beside the id of the project that is written to, and a *)
(* write to something of a project that leads with the project's id.       *)
Blank(entity) == Comment(entity, "issueId" :> empty @@ "projectId" :> entity, x)
Blanks == {Blank(project), Blank(b)}
Scoped == {Comment(a, "projectId" :> project @@ "id" :> a, x)}

Mixed == Comments \cup {Read} \cup Blanks \cup Scoped
Archives == {Archive, Read}
=============================================================================

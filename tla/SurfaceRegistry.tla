--------------------------- MODULE SurfaceRegistry ---------------------------
(***************************************************************************)
(* The surface registry of dispatch-worker/src/activities: what one block  *)
(* of lines means, how an epic's registry overrides its project's, and     *)
(* what a story's surfaces resolve to.                                     *)
(*                                                                         *)
(* A line is [key, value].  A value is the sequence of tokens the code     *)
(* cuts it into, at "/" for repo, ref and path and at "," for skills; the  *)
(* empty value is <<"">>.  The key of a line that is no "key: value", or   *)
(* has no known key, is "junk".                                            *)
(***************************************************************************)
EXTENDS Lists

CONSTANTS
  Names,        \* tokens of lower-case letters, digits and hyphens
  Placeholders  \* tokens with whitespace, a backtick, "<" or ">"

Blank == <<"">>
Root  == <<"", "">>
Statuses == {"active", "none", "deprecated"}
Keys == {"surface", "repo", "ref", "path", "conventions", "skills", "status"}

(* The lines of a document.  A surface or status is not cut.               *)
IsText(lines) ==
  /\ lines \in Seq(Range(lines))
  /\ \A line \in Range(lines) :
       /\ line.key \in Keys \cup {"comment", "blank", "junk"}
       /\ line.value # <<>> /\ line.value \in Seq(Range(line.value))
       /\ line.key \in {"surface", "status"} => Len(line.value) = 1

Get(fields, key, default) == IF key \in DOMAIN fields THEN fields[key] ELSE default

(* A leading "/" or "./" goes, a trailing "/" is added.                    *)
NormalizePath(value) ==
  IF value \in {Blank, Root} THEN Root
  ELSE LET path == IF Len(value) > 1 /\ value[1] \in {"", "."} THEN Tail(value) ELSE value
       IN  IF path = Blank \/ Last(path) # "" THEN Append(path, "") ELSE path

IsRepo(value) == Len(value) = 3 /\ Range(value) \cap (Placeholders \cup {""}) = {}
IsRef(value) == value # Blank /\ Range(value) \cap Placeholders = {}

StatusOf(fields) == Get(fields, "status", <<"active">>)[1]
NoneRecord(name) == [surface |-> name, repo |-> <<>>, ref |-> <<>>, path |-> Root,
                     conventions |-> <<>>, skills |-> <<>>, status |-> "none"]

(* What finish() rejects and what it makes of the rest.                    *)
IsValid(fields) ==
  /\ fields["surface"][1] \in Names
  /\ StatusOf(fields) \in Statuses
  /\ StatusOf(fields) # "none" =>
       /\ IsRepo(Get(fields, "repo", Blank))
       /\ IsRef(Get(fields, "ref", Blank))
       /\ Range(Listed(Get(fields, "skills", Blank))) \subseteq Names

RecordOf(fields) ==
  LET name == fields["surface"][1]
      path == NormalizePath(Get(fields, "path", Blank))
      conventions == Get(fields, "conventions", Blank)
  IN  IF StatusOf(fields) = "none" THEN NoneRecord(name)
      ELSE [surface |-> name, repo |-> fields["repo"], ref |-> fields["ref"], path |-> path,
            conventions |-> IF conventions # Blank THEN conventions
                            ELSE (IF path = Root THEN <<>> ELSE Front(path)) \o <<"CONVENTIONS.md">>,
            skills |-> Listed(Get(fields, "skills", Blank)),
            status |-> StatusOf(fields)]

-----------------------------------------------------------------------------
(* The parser: the records so far, the fields of the current one, and      *)
(* whether it has thrown.                                                  *)
Fresh == [records |-> <<>>, current |-> <<>>, error |-> FALSE]
Thrown(p) == [p EXCEPT !.error = TRUE]

Finish(p) ==
  IF DOMAIN p.current = {} THEN p
  ELSE IF ~IsValid(p.current) THEN Thrown(p)
  ELSE [p EXCEPT !.records = Append(@, RecordOf(p.current)), !.current = <<>>]

(* A surface: line finishes the record before it and starts another.       *)
Begin_Drops(p, line) == [p EXCEPT !.current = [key \in {"surface"} |-> line.value]]
Begin(p, line) == [Finish(p) EXCEPT !.current = [key \in {"surface"} |-> line.value]]

AddField(p, line) ==
  IF DOMAIN p.current = {} \/ line.key \in DOMAIN p.current THEN Thrown(p)
  ELSE [p EXCEPT !.current = [key \in DOMAIN @ \cup {line.key} |->
                                IF key = line.key THEN line.value ELSE @[key]]]

Take(p, line) ==
  IF p.error \/ line.key = "comment" THEN p
  ELSE IF line.key = "junk" THEN Thrown(p)
  ELSE IF line.key = "blank" THEN Finish(p)
  ELSE IF line.key = "surface" THEN Begin(p, line)
  ELSE AddField(p, line)

Repeats(records) ==
  \E i, j \in DOMAIN records : i < j /\ records[i].surface = records[j].surface

Close(p) ==
  LET q == IF p.error THEN p ELSE Finish(p)
  IN  IF ~q.error /\ Repeats(q.records) THEN Thrown(q) ELSE q

(* After each line, and at the end.                                        *)
ParsedOf(lines) ==
  LET after[i \in 0..Len(lines)] == IF i = 0 THEN Fresh ELSE Take(after[i - 1], lines[i])
  IN  after
ParseSurfacesBlock(lines) == Close(ParsedOf(lines)[Len(lines)])

(* The canonical block of some records.                                    *)
RenderRecord_NoStatus(r) ==
  LET line(key, value) == [key |-> key, value |-> value]
  IN  IF r.status = "none" THEN <<line("surface", <<r.surface>>), line("status", <<"none">>)>>
      ELSE <<line("surface", <<r.surface>>), line("repo", r.repo), line("ref", r.ref),
             line("path", r.path), line("conventions", r.conventions),
             line("skills", IF r.skills = <<>> THEN Blank ELSE r.skills)>>
RenderRecord(r) ==
  LET line(key, value) == [key |-> key, value |-> value]
  IN  IF r.status = "none" THEN <<line("surface", <<r.surface>>), line("status", <<"none">>)>>
      ELSE <<line("surface", <<r.surface>>), line("repo", r.repo), line("ref", r.ref),
             line("path", r.path), line("conventions", r.conventions),
             line("skills", IF r.skills = <<>> THEN Blank ELSE r.skills),
             line("status", <<r.status>>)>>
RenderSurfacesBlock(records) ==
  FlattenSeq([i \in DOMAIN records |->
    IF i = 1 THEN RenderRecord(records[i])
    ELSE <<[key |-> "blank", value |-> Blank]>> \o RenderRecord(records[i])])

-----------------------------------------------------------------------------
(* Registries as resolution sees them: one record for each surface.        *)
BySurface(records) ==
  [name \in {r.surface : r \in Range(records)} |->
     CHOOSE r \in Range(records) : r.surface = name]

MergeRegistries_ProjectWins(project, override) ==
  LET p == BySurface(project) o == BySurface(override)
  IN  [name \in DOMAIN p \cup DOMAIN o |-> IF name \in DOMAIN p THEN p[name] ELSE o[name]]
MergeRegistries(project, override) ==
  LET p == BySurface(project) o == BySurface(override)
  IN  [name \in DOMAIN p \cup DOMAIN o |-> IF name \in DOMAIN o THEN o[name] ELSE p[name]]

SameRepoAndRef_NoRef(a, b) == a.repo = b.repo
SameRepoAndRef(a, b) == a.repo = b.repo /\ a.ref = b.ref

Refusal(reason) == [reason |-> reason, surfaces |-> <<>>]
ResolveSurfaces(registry, surfaces) ==
  IF surfaces = <<>> \/ ~(Range(surfaces) \subseteq DOMAIN registry) THEN Refusal("unresolved")
  ELSE LET records == [i \in DOMAIN surfaces |-> registry[surfaces[i]]]
       IN  IF \E i \in DOMAIN records :
                records[i].status # "active" \/ ~SameRepoAndRef(records[i], records[1])
           THEN Refusal("unresolved")
           ELSE [reason |-> "ok", surfaces |-> records]

=============================================================================

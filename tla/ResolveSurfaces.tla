--------------------------- MODULE ResolveSurfaces ---------------------------
(***************************************************************************)
(* resolveSurfacesActivity of dispatch-worker/src/activities/resolve-      *)
(* surfaces.ts, for the surfaces a story was labelled with: two reads of   *)
(* the tracker, the epic's documents and then the project's, while agents  *)
(* may rewrite either at any time, and Temporal's retries of a read that   *)
(* failed.  A document is the lines of the first ```surfaces block of the  *)
(* first document with the registry's title; without one it is <<>>, an    *)
(* empty registry.                                                         *)
(***************************************************************************)
EXTENDS SurfaceRegistry, StoryLabels, FiniteSets

CONSTANTS
  Documents,    \* what a registry document may hold
  Stories,      \* labels of a story
  MaxAttempts,  \* maximumAttempts of the activity's proxy
  MaxEdits      \* bound: rewrites of a document

ASSUME ResolveAssumption ==
  /\ MaxAttempts \in Nat \ {0} /\ MaxEdits \in Nat
  /\ <<>> \in Documents /\ \A text \in Documents : IsText(text)
  /\ \A story \in Stories : story \in Seq(Range(story))

VARIABLES
  labels,     \* the story's, as they were when it was dispatched
  inProject,  \* the epic belongs to a project
  epic,       \* the epic's "Surfaces (override)"
  project,    \* the project's "Surfaces"
  pc,         \* "epic", "project" or "done"
  read,       \* the epic's document as this attempt read it
  attempt,    \* attempt of the activity, from 1
  result,     \* [reason, surfaces]
  edits,      \* rewrites so far
  epics, projects  \* history: what each document held during this attempt

vars == <<labels, inProject, epic, project, pc, read, attempt, result, edits, epics, projects>>

TypeOK ==
  /\ labels \in Stories /\ inProject \in BOOLEAN
  /\ {epic, project, read} \subseteq Documents
  /\ pc \in {"epic", "project", "done"} /\ attempt \in 1..MaxAttempts /\ edits \in 0..MaxEdits
  /\ epics \subseteq Documents /\ projects \subseteq Documents
  /\ result.reason \in {"none", "ok", "malformed", "missing", "unresolved", "unreachable"}

Init ==
  /\ labels \in Stories /\ inProject \in BOOLEAN
  /\ epic \in Documents /\ project \in Documents
  /\ pc = "epic" /\ read = <<>> /\ attempt = 1 /\ edits = 0
  /\ result = Refusal("none")
  /\ epics = {epic} /\ projects = {project}

Conclude(answer) ==
  /\ pc' = "done" /\ result' = answer
  /\ UNCHANGED <<labels, inProject, epic, project, read, attempt, edits, epics, projects>>

surfaces == ParseSurfaces(labels)

(* buildEffectiveRegistry and resolveSurfaces on what was read.  A refusal *)
(* is nonRetryable: it ends the activity.                                  *)
Decide(override, own) ==
  LET p == ParseSurfacesBlock(own) o == ParseSurfacesBlock(override)
  IN  IF p.error \/ o.error THEN Refusal("malformed")
      ELSE IF p.records = <<>> /\ o.records = <<>> THEN Refusal("missing")
      ELSE ResolveSurfaces(MergeRegistries(p.records, o.records), surfaces)

GetIssueDocuments ==
  /\ pc = "epic"
  /\ \/ inProject /\ pc' = "project" /\ read' = epic
        /\ UNCHANGED <<labels, inProject, epic, project, attempt, result, edits, epics, projects>>
     \/ ~inProject /\ Conclude(Decide(epic, <<>>))

GetProjectDocuments == pc = "project" /\ Conclude(Decide(read, project))

(* Either read may fail: the activity starts over, or has failed.          *)
ReadFails ==
  /\ pc \in {"epic", "project"}
  /\ \/ /\ attempt < MaxAttempts /\ attempt' = attempt + 1 /\ pc' = "epic" /\ read' = <<>>
        /\ epics' = {epic} /\ projects' = {project}
        /\ UNCHANGED <<labels, inProject, epic, project, result, edits>>
     \/ attempt = MaxAttempts /\ Conclude(Refusal("unreachable"))

(* An agent rewrites a registry document.                                  *)
Edit ==
  /\ pc # "done" /\ edits < MaxEdits /\ edits' = edits + 1
  /\ \/ epic' \in Documents \ {epic} /\ epics' = epics \cup {epic'} /\ UNCHANGED <<project, projects>>
     \/ project' \in Documents \ {project} /\ projects' = projects \cup {project'}
        /\ UNCHANGED <<epic, epics>>
  /\ UNCHANGED <<labels, inProject, pc, read, attempt, result>>

Next == GetIssueDocuments \/ GetProjectDocuments \/ ReadFails \/ Edit

Spec == Init /\ [][Next]_vars

-----------------------------------------------------------------------------
(* Properties.  A document read as a whole: a record is the lines from its *)
(* surface: line up to the next one or to a blank line.                    *)
Starts(text) == {i \in DOMAIN text : text[i].key = "surface"}
Span(text, i) ==
  LET fences == {j \in DOMAIN text : j > i /\ text[j].key \in {"surface", "blank"}}
  IN  {j \in i..Len(text) : text[j].key # "comment" /\ \A k \in fences : j < k}
FieldsAt(text, i) ==
  [key \in {text[j].key : j \in Span(text, i)} |->
     text[CHOOSE j \in Span(text, i) : text[j].key = key].value]

(* Every line belongs to one complete record, and no two are of a surface. *)
WellFormed(text) ==
  /\ \A i \in DOMAIN text :
       text[i].key \in {"comment", "blank"} \/ \E s \in Starts(text) : i \in Span(text, s)
  /\ \A s \in Starts(text) :
       /\ \A i, j \in Span(text, s) : text[i].key = text[j].key => i = j
       /\ DOMAIN FieldsAt(text, s) \subseteq Keys
       /\ IsValid(FieldsAt(text, s))
  /\ \A s, t \in Starts(text) : text[s].value = text[t].value => s = t

Records(text) ==
  {RecordOf(FieldsAt(text, s)) : s \in IF WellFormed(text) THEN Starts(text) ELSE {}}
Recorded(name, text) == \E r \in Records(text) : r.surface = name
Resolved == result.reason = "ok"

(* A story is only dispatched into active surfaces that share one repo and *)
(* ref: every surface it is labelled with, each once, in the order of its  *)
(* labels (surface-registry.ts:214-219: "one story, one branch, one PR";   *)
(* story-context.ts:138-143: "places no upper bound on count").            *)
OneTarget ==
  Resolved => \A r, q \in Range(result.surfaces) :
                r.status = "active" /\ r.repo = q.repo /\ r.ref = q.ref
TargetIsOneRepo ==
  /\ OneTarget
  /\ Resolved =>
    LET taken == [i \in DOMAIN result.surfaces |-> result.surfaces[i].surface]
        is(i, name) == labels[i].prefix = "surface" /\ labels[i].value = name
        at(name) == CHOOSE i \in DOMAIN labels :
                      is(i, name) /\ \A j \in 1..i - 1 : ~is(j, name)
    IN  /\ Range(taken) = Values(labels, "surface")
        /\ \A i, j \in DOMAIN taken : i < j => at(taken[i]) < at(taken[j])

(* However the documents were rewritten while the activity ran, a surface  *)
(* the epic overrode throughout is resolved to one of its overrides, one   *)
(* it never overrode to a record of the project, and none to a record that *)
(* neither document held while this attempt ran (surface-registry.ts:      *)
(* 186-190: a record in the override "replaces the project's record for    *)
(* the same surface wholesale").                                           *)
OverrideDecides ==
  Resolved =>
    \A r \in Range(result.surfaces) :
      LET overridden == \E text \in epics : r \in Records(text)
          own == inProject /\ \E text \in projects : r \in Records(text)
      IN  /\ overridden \/ own
          /\ (\A text \in epics : Recorded(r.surface, text)) => overridden
          /\ (\A text \in epics : ~Recorded(r.surface, text)) => own

(* A refusal is for something that was there to fix: when nobody rewrote a *)
(* document meanwhile, a story is refused just when a registry is          *)
(* malformed as a whole, or it has no surface, or one that has no record,  *)
(* is not active, or is in another repo or ref than the others             *)
(* (resolve-surfaces.ts:10-14, surface-registry.ts:26-32).                 *)
RefusalsAreGrounded ==
  pc = "done" /\ result.reason # "unreachable" /\ epics = {epic} /\ projects = {project} =>
    LET own == IF inProject THEN project ELSE <<>>
        names == Values(labels, "surface")
        Effective(name) == {r \in Records(epic) : r.surface = name} \cup
          {r \in Records(own) : r.surface = name /\ ~Recorded(name, epic)}
        Dispatchable ==
          /\ names # {} /\ \A name \in names : Effective(name) # {}
          /\ \A r, q \in UNION {Effective(name) : name \in names} :
               r.status = "active" /\ r.repo = q.repo /\ r.ref = q.ref
    IN  Resolved <=> IF WellFormed(epic) /\ WellFormed(own) THEN Dispatchable ELSE FALSE

(* An epic's registry that was read, written in its canonical form and     *)
(* parsed again holds the same records, the records of its text (surface-  *)
(* registry.ts:262: "one canonical rendering, so regeneration is stable"), *)
(* as long as no path begins with an empty or a dot directory once it is   *)
(* normalized, as "./." and "//x" do.                                      *)
PlainPaths(text) ==
  \A line \in Range(text) :
    line.key = "path" => LET path == NormalizePath(line.value)
                         IN  path = Root \/ path[1] \notin {"", "."}
RegenerationIsStable ==
  pc = "project" /\ WellFormed(read) /\ PlainPaths(read) =>
    LET records == ParseSurfacesBlock(read).records
        again == ParseSurfacesBlock(RenderSurfacesBlock(records))
    IN  ~again.error /\ again.records = records /\ Range(records) = Records(read)

(* A typo in a tier or size label never costs the story its budget, and    *)
(* never blocks it: the budget is that of some recognized label of each    *)
(* kind, wherever it stands among the others (story-context.ts:73-78).     *)
TyposCostNothing ==
  ResolveMaxTurns(ParseTier(labels), ParseSize(labels)) \in
    {BaseMaxTurns * tier * size : tier \in Implied(labels, "tier", TierMultiplier),
                                  size \in Implied(labels, "size", SizeMultiplier)}
=============================================================================

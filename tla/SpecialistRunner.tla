-------------------------- MODULE SpecialistRunner --------------------------
(***************************************************************************)
(* One specialist container: what dispatch-worker puts into its            *)
(* environment, what specialist-runner reads there, how it prepares the    *)
(* workspace and the prompt, and how a run ends.  Everything the           *)
(* specialist does in its session is external, apart from the number of    *)
(* its turns.                                                              *)
(*                                                                         *)
(* A list travels as one comma-separated variable; it is kept here as the  *)
(* sequence of what stands between its commas, and the empty value as      *)
(* <<"">>.  A path may hold commas of its own (surface-registry.ts:83-88), *)
(* so it is the sequence of its pieces.                                    *)
(***************************************************************************)
EXTENDS Lists

CONSTANTS
  Targets,     \* resolved surfaces: sequences of [surface, path, skills]
  Revisions,   \* revision assignments, FirstBuild among them
  MaxTurns,    \* turns of the session
  Drops,       \* sets of variables a dispatcher may fail to set
  Unset,       \* sets of settings a deployment may lack
  Skills       \* skills that may be in the framework's catalog or the surface repo

(* A target has a surface or more; no name or skill in it is empty, and no *)
(* path ends with an empty piece, since each ends with a slash.            *)
ASSUME RunnerAssumption ==
  /\ MaxTurns \in Nat \ {0}
  /\ \A chosen \in Targets :
       /\ chosen # <<>> /\ chosen \in Seq(Range(chosen))
       /\ \A on \in Range(chosen) :
            /\ on.surface # ""
            /\ on.path # <<>> /\ on.path \in Seq(Range(on.path)) /\ on.path[Len(on.path)] # ""
            /\ on.skills \in Seq(Range(on.skills) \ {""})
  /\ \A made \in Revisions :
       made = [round |-> 0]
       \/ made = [round |-> made.round, roundCap |-> made.roundCap,
                  pullRequestNumber |-> made.pullRequestNumber, reviewId |-> made.reviewId]

VARIABLES
  target, revision,     \* the dispatcher's input
  dropped, unset,       \* variables and settings that are missing
  env,                  \* process.env, as far as the dispatcher fills it
  branch,               \* the story branch exists
  catalog, surfaceRepo, \* skills in the framework and in the surface repo
  pc, context, skills,  \* the runner: its step, what it read, what it inlined
  turns,                \* turns of the session
  exit,                 \* "none", "zero", "one" or "killed"
  comment               \* the fallback comment: "none", "posted" or "lost"

world == <<target, revision, dropped, unset, env, branch, catalog, surfaceRepo>>
vars  == <<world, pc, context, skills, turns, exit, comment>>

FirstBuild == [round |-> 0]
NoContext == [loaded |-> FALSE]
RevisionVars == {"REVISION_ROUND", "REVISION_ROUND_CAP", "PULL_REQUEST_NUMBER", "REVIEW_ID"}
FrameworkSkillNames == <<"story_contract", "epic_writing">>

-----------------------------------------------------------------------------
(* The dispatcher: dispatchStoryWorkflow's input and the overrides made of *)
(* it.                                                                     *)
Join(items) == IF items = <<>> THEN <<"">> ELSE items
Paths == [i \in DOMAIN target |-> target[i].path]
SurfaceSkills == Distinct(FlattenSeq([i \in DOMAIN target |-> target[i].skills]))

RevisionOverrides_Crossed ==
  [REVISION_ROUND |-> revision.round, REVISION_ROUND_CAP |-> revision.roundCap,
   PULL_REQUEST_NUMBER |-> revision.reviewId, REVIEW_ID |-> revision.pullRequestNumber]
RevisionOverrides ==
  [REVISION_ROUND |-> revision.round, REVISION_ROUND_CAP |-> revision.roundCap,
   PULL_REQUEST_NUMBER |-> revision.pullRequestNumber, REVIEW_ID |-> revision.reviewId]
StoryOverrides ==
  [SURFACES |-> Join([i \in DOMAIN target |-> target[i].surface]),
   SURFACE_PATHS |-> Join(FlattenSeq(Paths)),
   SURFACE_SKILLS |-> Join(SurfaceSkills), STORY_ID |-> "story", MAX_TURNS |-> MaxTurns]
Overrides ==
  IF revision = FirstBuild THEN StoryOverrides
  ELSE [name \in DOMAIN StoryOverrides \cup RevisionVars |->
          IF name \in RevisionVars THEN RevisionOverrides[name] ELSE StoryOverrides[name]]

-----------------------------------------------------------------------------
(* loadDispatchContext.                                                    *)
OptionalList(name) == IF name \in DOMAIN env THEN Listed(env[name]) ELSE <<>>

PathsFit == OptionalList("SURFACE_PATHS") = <<>>
            \/ Len(OptionalList("SURFACE_PATHS")) = Len(Listed(env["SURFACES"]))
SurfacePaths ==
  IF OptionalList("SURFACE_PATHS") # <<>> THEN OptionalList("SURFACE_PATHS")
  ELSE [i \in DOMAIN Listed(env["SURFACES"]) |-> "/"]

IsRevision == "REVISION_ROUND" \in DOMAIN env
CanLoad ==
  /\ {"STORY_ID", "SURFACES", "MAX_TURNS"} \subseteq DOMAIN env
  /\ {"FRAMEWORK_REPO", "FRAMEWORK_REF"} \cap unset = {}
  /\ Listed(env["SURFACES"]) # <<>> /\ PathsFit
  /\ IsRevision => RevisionVars \subseteq DOMAIN env

Context ==
  [loaded |-> TRUE, surfaces |-> Listed(env["SURFACES"]), paths |-> SurfacePaths,
   skills |-> OptionalList("SURFACE_SKILLS"), maxTurns |-> env["MAX_TURNS"],
   revision |-> IF ~IsRevision THEN FirstBuild
                ELSE [round |-> env["REVISION_ROUND"], roundCap |-> env["REVISION_ROUND_CAP"],
                      pullRequestNumber |-> env["PULL_REQUEST_NUMBER"],
                      reviewId |-> env["REVIEW_ID"]]]

-----------------------------------------------------------------------------
Steps == {"context", "config", "clone_framework", "clone_surface", "checkout", "identity",
          "prompt", "session", "fallback", "ended"}

TypeOK ==
  /\ pc \in Steps /\ turns \in 0..MaxTurns
  /\ context.loaded \in BOOLEAN /\ (context.loaded => context.maxTurns = MaxTurns)
  /\ exit \in {"none", "zero", "one", "killed"} /\ (exit # "none" <=> pc = "ended")
  /\ comment \in {"none", "posted", "lost"}

Init ==
  /\ target \in Targets /\ revision \in Revisions
  /\ dropped \in Drops /\ unset \in Unset /\ branch \in BOOLEAN
  /\ env = [name \in DOMAIN Overrides \ dropped |-> Overrides[name]]
  /\ catalog \in SUBSET (Skills \cup Range(FrameworkSkillNames)) /\ surfaceRepo \in SUBSET Skills
  /\ pc = "context" /\ context = NoContext /\ skills = <<>>
  /\ turns = 0 /\ exit = "none" /\ comment = "none"

(* Whatever main() throws, its catch hands to the fallback.                *)
Throw_Silent == pc' = "ended" /\ exit' = "one" /\ UNCHANGED <<world, context, skills, turns, comment>>
Throw == pc' = "fallback" /\ UNCHANGED <<world, context, skills, turns, exit, comment>>
GoOn(next) == pc' = next /\ UNCHANGED <<world, context, skills, turns, exit, comment>>

LoadDispatchContext ==
  /\ pc = "context"
  /\ \/ ~CanLoad /\ Throw
     \/ /\ CanLoad /\ context' = Context /\ pc' = "config"
        /\ UNCHANGED <<world, skills, turns, exit, comment>>

LoadClaudeConfig ==
  /\ pc = "config"
  /\ IF {"CLAUDE_MODEL", "CLAUDE_EFFORT"} \cap unset # {} THEN Throw
     ELSE GoOn("clone_framework")

(* prepareWorkspace: every git command may fail, and a checkout of a       *)
(* branch that does not exist does.                                        *)
Git(step, next) == pc = step /\ (GoOn(next) \/ Throw)
PrepareWorkspace ==
  \/ Git("clone_framework", "clone_surface")
  \/ Git("clone_surface", "checkout")
  \/ Git("checkout", "identity") /\ (pc' = "identity" => branch)
  \/ Git("identity", "prompt")

(* A mandatory skill is looked for in the surface repo, then in the        *)
(* framework; the framework's own two are only read there.                 *)
Source(name) == IF name \in surfaceRepo THEN "surface" ELSE "framework"
MandatorySkills == Kept(context.skills, Range(context.skills) \ Range(FrameworkSkillNames))
Resolves_Always(name) == TRUE
Resolves(name) == name \in surfaceRepo \cup catalog

(* Any of the files may turn out not to be readable, the agent's own, which *)
(* every specialist needs, among them.                                     *)
BuildSystemPrompt ==
  /\ pc = "prompt"
  /\ \/ Throw
     \/ /\ Range(FrameworkSkillNames) \subseteq catalog
        /\ \A name \in Range(MandatorySkills) : Resolves(name)
        /\ skills' = [i \in DOMAIN FrameworkSkillNames |->
                        [name |-> FrameworkSkillNames[i], source |-> "framework"]]
                     \o [i \in DOMAIN MandatorySkills |->
                        [name |-> MandatorySkills[i], source |-> Source(MandatorySkills[i])]]
        /\ pc' = "session"
        /\ UNCHANGED <<world, context, turns, exit, comment>>

(* The Agent SDK's stream: turns up to the cap, and an end, in a result of *)
(* success or of error, which is logged alike; or it throws.  Both may be  *)
(* before its first turn or after any.                                     *)
Turn ==
  /\ pc = "session" /\ turns < context.maxTurns /\ turns' = turns + 1
  /\ UNCHANGED <<world, pc, context, skills, exit, comment>>
StreamEnds ==
  /\ pc = "session" /\ pc' = "ended" /\ exit' = "zero"
  /\ UNCHANGED <<world, context, skills, turns, comment>>
StreamThrows == pc = "session" /\ Throw

(* The comment needs a story to go to and a key; Linear may refuse it.     *)
PostFallbackComment ==
  /\ pc = "fallback"
  /\ comment' \in (IF "STORY_ID" \notin DOMAIN env \/ "LINEAR_AGENT_API_KEY" \in unset
                   THEN {"none"} ELSE {"posted", "lost"})
  /\ pc' = "ended" /\ exit' = "one"
  /\ UNCHANGED <<world, context, skills, turns>>

Main ==
  \/ LoadDispatchContext \/ LoadClaudeConfig \/ PrepareWorkspace \/ BuildSystemPrompt
  \/ Turn \/ StreamEnds \/ StreamThrows \/ PostFallbackComment

(* ECS stops the task, or the process is killed.                           *)
Killed ==
  /\ pc # "ended" /\ pc' = "ended" /\ exit' = "killed"
  /\ UNCHANGED <<world, context, skills, turns, comment>>

Next == Main \/ Killed

Spec == Init /\ [][Next]_vars

-----------------------------------------------------------------------------
Whole(vs) == vs \cap dropped = {}

(* No path has a piece that is empty, as one with a leading comma has.     *)
Unbroken == \A i \in DOMAIN target : "" \notin Range(target[i].path)

(* Any context the runner accepts is the one that was sent: each surface   *)
(* with its own whole path, however many commas the paths have, the union  *)
(* of the surfaces' skills, and a revision with its round, its PR and its  *)
(* review in their places, unless its round went missing                   *)
(* (dispatch-specialist.ts:3-6: "mirror ... documented contract exactly"). *)
(* A dispatcher without the registry's two variables gets the whole        *)
(* repository and no skills.                                               *)
ContextIsInput ==
  context.loaded =>
    /\ Len(context.surfaces) = Len(target) /\ Len(context.paths) = Len(target)
    /\ \A i \in DOMAIN target : context.surfaces[i] = target[i].surface
    /\ Unbroken =>
         \A i \in DOMAIN target :
           <<context.paths[i]>> = IF Whole({"SURFACE_PATHS"}) THEN target[i].path ELSE <<"/">>
    /\ Range(context.skills) = IF Whole({"SURFACE_SKILLS"})
                               THEN UNION {Range(target[i].skills) : i \in DOMAIN target} ELSE {}
    /\ Whole({"REVISION_ROUND"}) => context.revision = revision

(* Every skill the surfaces make mandatory is in the prompt, the client's  *)
(* own version where the surface repo has one, and the framework's two as  *)
(* the framework has them, and no other is.                                *)
PromptIsRead ==
  LET read == Range(skills)
  IN  /\ \A name \in Range(FrameworkSkillNames) :
           name \in catalog /\ [name |-> name, source |-> "framework"] \in read
      /\ \A i \in DOMAIN target : \A name \in Range(target[i].skills) :
           Whole({"SURFACE_SKILLS"}) /\ name \notin Range(FrameworkSkillNames) =>
             \/ name \in surfaceRepo /\ [name |-> name, source |-> "surface"] \in read
             \/ /\ name \in catalog \ surfaceRepo
                /\ [name |-> name, source |-> "framework"] \in read
      /\ {skill.name : skill \in read} \subseteq
           Range(FrameworkSkillNames) \cup UNION {Range(target[i].skills) : i \in DOMAIN target}

(* No session starts on a prompt that lacks a mandatory skill or has       *)
(* another (prompt.ts:46-49: "a silent skip is exactly the failure         *)
(* discretionary discovery already has").                                  *)
MandatoryAreRead == pc = "session" => PromptIsRead

(* A container that ends without a word on the story was killed, or was    *)
(* not told which story or has no key, or else it exits zero and is one    *)
(* that had a session, on a complete prompt: whatever fails on the way to  *)
(* it, at whichever step, is said (run.ts:7-8: "something is visible if it *)
(* crashes").                                                              *)
SilenceHadSession ==
  exit # "none" /\ comment = "none" =>
    \/ exit = "killed"
    \/ ~Whole({"STORY_ID"}) \/ "LINEAR_AGENT_API_KEY" \in unset
    \/ exit = "zero" /\ PromptIsRead

(***************************************************************************)
(* What the repository says and the code does not do (README, section 5).  *)
(* The run's configuration refutes each of these when it is added to it.   *)
(***************************************************************************)
(* dispatch-context.ts:143-146: "All four revision vars travel together or *)
(* not at all.  A partial set means the dispatcher is broken", and is to   *)
(* be refused.  Without REVISION_ROUND the other three are not looked at   *)
(* and the run is a first build.                                           *)
PartialSetRefused ==
  pc = "session" /\ revision # FirstBuild =>
    RevisionVars \cap dropped \in {{}, RevisionVars}

(* tracker-fallback.ts:2-3 says its comment is for a runner that "fails    *)
(* before Claude gets a turn", and the comment that the run "failed to     *)
(* start".  A stream that throws after any turn posts it as well.          *)
FallbackMeansNoTurn == comment = "posted" => turns = 0

(* run.ts:7-9: "something is visible if it crashes before Claude gets a    *)
(* turn".  A stream that ends before its first turn, a result of error     *)
(* among them, is logged, and the container exits zero without a word.     *)
TurnlessIsSaid ==
  exit \in {"zero", "one"} /\ turns = 0 =>
    \/ comment # "none"
    \/ ~Whole({"STORY_ID"}) \/ "LINEAR_AGENT_API_KEY" \in unset

(* dispatch-context.ts:128: paths and surfaces "must correspond one to     *)
(* one".  They are counted after the empty items are dropped, so a path    *)
(* with a leading comma arrives without it, and is accepted.               *)
PathsArriveWhole ==
  context.loaded /\ Whole({"SURFACE_PATHS"}) =>
    \A i \in DOMAIN target : <<context.paths[i]>> = target[i].path
=============================================================================

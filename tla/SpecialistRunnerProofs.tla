----------------------- MODULE SpecialistRunnerProofs -----------------------
(***************************************************************************)
(* Theorems about SpecialistRunner, for every target, dispatcher, catalog  *)
(* and turn budget.                                                        *)
(***************************************************************************)
EXTENDS SpecialistRunner, ListProofs

(* What the dispatcher set, as far as the proofs need it: the story and    *)
(* the turn budget are what they should be, or were dropped.               *)
EnvIsSent ==
  /\ "STORY_ID" \in DOMAIN env \/ "STORY_ID" \in dropped
  /\ "MAX_TURNS" \in DOMAIN env => env["MAX_TURNS"] = MaxTurns

(* Before its session a run has had no turn, at its session it knows its   *)
(* budget, and after it there is a reason for silence, or its stream ended.*)
Said ==
  \/ exit = "killed" \/ comment \in {"posted", "lost"}
  \/ "STORY_ID" \in dropped \/ "LINEAR_AGENT_API_KEY" \in unset
Located ==
  /\ pc \notin {"session", "fallback", "ended"} => turns = 0
  /\ pc = "session" => context.loaded
  /\ pc \in {"config", "clone_framework", "clone_surface", "checkout", "identity", "prompt"}
       => context.loaded
  /\ pc = "ended" => Said \/ exit = "zero"

RunnerInv == TypeOK /\ EnvIsSent /\ Located

-----------------------------------------------------------------------------
LEMMA TurnsPositive == MaxTurns \in Nat \ {0}
  BY RunnerAssumption DEF RunnerAssumption

LEMMA OverridesNameStory ==
  /\ {"STORY_ID", "MAX_TURNS"} \subseteq DOMAIN Overrides
  /\ Overrides["MAX_TURNS"] = MaxTurns
  BY DEF Overrides, StoryOverrides, RevisionVars

LEMMA InvInit == Init => RunnerInv
<1>. SUFFICES ASSUME Init PROVE RunnerInv
  OBVIOUS
<1>1. TypeOK
  BY TurnsPositive DEF Init, TypeOK, Steps, NoContext
<1>2. EnvIsSent
  BY OverridesNameStory DEF Init, EnvIsSent
<1>3. Located
  BY DEF Init, Located
<1>. QED
  BY <1>1, <1>2, <1>3 DEF RunnerInv

(* Steps of main() that only move on or throw.                             *)
LEMMA MovesOn ==
  ASSUME RunnerInv, NEW next \in Steps \ {"session", "fallback", "ended"},
         pc \in {"config", "clone_framework", "clone_surface", "checkout", "identity"},
         GoOn(next) \/ Throw, next # "context"
  PROVE  RunnerInv'
<1>. USE TurnsPositive DEF RunnerInv, world
<1>1. TypeOK'
  BY DEF TypeOK, GoOn, Throw, Steps
<1>2. EnvIsSent'
  BY DEF EnvIsSent, GoOn, Throw
<1>3. Located'
  BY DEF Located, TypeOK, GoOn, Throw, Steps, Said
<1>. QED
  BY <1>1, <1>2, <1>3

LEMMA Threw ==
  ASSUME RunnerInv, pc # "ended", Throw
  PROVE  RunnerInv'
  BY TurnsPositive
  DEF RunnerInv, TypeOK, EnvIsSent, Located, Said, Throw, Steps, world

LEMMA LoadStep == ASSUME RunnerInv, LoadDispatchContext PROVE RunnerInv'
<1>1. CASE ~CanLoad /\ Throw
  BY <1>1, Threw DEF LoadDispatchContext
<1>2. CASE CanLoad /\ context' = Context /\ pc' = "config"
           /\ UNCHANGED <<world, skills, turns, exit, comment>>
  <2>1. env["MAX_TURNS"] = MaxTurns
    BY <1>2 DEF CanLoad, RunnerInv, EnvIsSent
  <2>2. context'.loaded = TRUE /\ context'.maxTurns = MaxTurns
    BY <1>2, <2>1 DEF Context
  <2>3. TypeOK'
    BY <1>2, <2>2 DEF LoadDispatchContext, RunnerInv, TypeOK, Steps
  <2>4. EnvIsSent'
    BY <1>2 DEF RunnerInv, EnvIsSent, world
  <2>5. Located'
    BY <1>2, <2>2 DEF LoadDispatchContext, RunnerInv, Located
  <2>. QED
    BY <2>3, <2>4, <2>5 DEF RunnerInv
<1>. QED
  BY <1>1, <1>2 DEF LoadDispatchContext

LEMMA ConfigStep == ASSUME RunnerInv, LoadClaudeConfig PROVE RunnerInv'
  BY MovesOn, Threw DEF LoadClaudeConfig, Steps

LEMMA WorkspaceStep == ASSUME RunnerInv, PrepareWorkspace PROVE RunnerInv'
  BY MovesOn DEF PrepareWorkspace, Git, Steps

LEMMA PromptStep == ASSUME RunnerInv, BuildSystemPrompt PROVE RunnerInv'
<1>1. CASE Throw
  BY <1>1, Threw DEF BuildSystemPrompt
<1>2. CASE pc' = "session" /\ UNCHANGED <<world, context, turns, exit, comment>>
  BY <1>2, TurnsPositive
  DEF BuildSystemPrompt, RunnerInv, TypeOK, EnvIsSent, Located, Steps, world
<1>. QED
  BY <1>1, <1>2 DEF BuildSystemPrompt

LEMMA SessionStep ==
  ASSUME RunnerInv, Turn \/ StreamEnds \/ StreamThrows PROVE RunnerInv'
<1>. USE TurnsPositive DEF RunnerInv, TypeOK, EnvIsSent, Located, Steps, world
<1>1. CASE Turn
  <2>1. turns' \in 0..MaxTurns /\ turns' > 0
    BY <1>1 DEF Turn
  <2>. QED
    BY <1>1, <2>1 DEF Turn
<1>2. CASE StreamEnds
  BY <1>2 DEF StreamEnds
<1>3. CASE StreamThrows
  BY <1>3, Threw DEF StreamThrows
<1>. QED
  BY <1>1, <1>2, <1>3

LEMMA EndStep == ASSUME RunnerInv, PostFallbackComment \/ Killed PROVE RunnerInv'
<1>. USE DEF RunnerInv, TypeOK, EnvIsSent, Located, Said, Steps, world
<1>1. CASE PostFallbackComment
  BY <1>1 DEF PostFallbackComment
<1>2. CASE Killed
  BY <1>2 DEF Killed
<1>. QED
  BY <1>1, <1>2

LEMMA InvStep == RunnerInv /\ [Next]_vars => RunnerInv'
<1>. SUFFICES ASSUME RunnerInv, [Next]_vars PROVE RunnerInv'
  OBVIOUS
<1>1. CASE UNCHANGED vars
  BY <1>1 DEF vars, world, RunnerInv, TypeOK, EnvIsSent, Located, Said
<1>. QED
  BY <1>1, LoadStep, ConfigStep, WorkspaceStep, PromptStep, SessionStep, EndStep DEF Next, Main

LEMMA InvHolds == Spec => []RunnerInv
  BY InvInit, InvStep, PTL DEF Spec

(* The runner's state keeps its type: the session never has more turns     *)
(* than the dispatch allows, whatever the environment it was given         *)
(* (run.ts:51-111).                                                        *)
THEOREM ContainerTypeCorrect == Spec => []TypeOK
<1>1. RunnerInv => TypeOK
  BY DEF RunnerInv
<1>. QED
  BY <1>1, InvHolds, PTL

-----------------------------------------------------------------------------
(* What the runner knows comes from what the dispatcher sent: the          *)
(* environment is the overrides without the dropped ones, the context is   *)
(* what loadDispatchContext makes of it, and a session has the skills that *)
(* buildSystemPrompt found.                                                *)
Sent ==
  /\ target \in Targets /\ revision \in Revisions
  /\ env = [name \in DOMAIN Overrides \ dropped |-> Overrides[name]]
Read == context.loaded => context = Context /\ CanLoad
FrameworkRead == [i \in DOMAIN FrameworkSkillNames |->
                    [name |-> FrameworkSkillNames[i], source |-> "framework"]]
MandatoryRead == [i \in DOMAIN MandatorySkills |->
                    [name |-> MandatorySkills[i], source |-> Source(MandatorySkills[i])]]
Inlined ==
  pc = "session" \/ exit = "zero" =>
    /\ context.loaded
    /\ skills = FrameworkRead \o MandatoryRead
    /\ Range(FrameworkSkillNames) \subseteq catalog
    /\ \A name \in Range(MandatorySkills) : Resolves(name)

SentInv == RunnerInv /\ Sent /\ Read /\ Inlined

LEMMA SentInit == Init => SentInv
<1>. SUFFICES ASSUME Init PROVE SentInv
  OBVIOUS
<1>1. RunnerInv
  BY InvInit
<1>2. Sent
  BY DEF Init, Sent
<1>3. Read /\ Inlined
  BY DEF Init, Read, Inlined, NoContext
<1>. QED
  BY <1>1, <1>2, <1>3 DEF SentInv

(* What the world determines stays while the world does.                   *)
LEMMA WorldStays == [Next]_vars => UNCHANGED world
  BY DEF Next, Main, vars, LoadDispatchContext, LoadClaudeConfig, PrepareWorkspace, Git,
     BuildSystemPrompt, Turn, StreamEnds, StreamThrows, PostFallbackComment, Killed, GoOn, Throw

LEMMA ContextStays ==
  ASSUME UNCHANGED world PROVE Context' = Context /\ CanLoad' = CanLoad
<1>1. env' = env /\ unset' = unset
  BY DEF world
<1>2. \A name : OptionalList(name)' = OptionalList(name)
  BY <1>1 DEF OptionalList
<1>. QED
  BY <1>1, <1>2 DEF Context, CanLoad, SurfacePaths, PathsFit, IsRevision

LEMMA SentStays ==
  ASSUME UNCHANGED world, Sent PROVE Sent'
<1>1. /\ target' = target /\ revision' = revision /\ env' = env /\ dropped' = dropped
  BY DEF world
<1>2. Overrides' = Overrides
  BY <1>1 DEF Overrides, StoryOverrides, RevisionOverrides, SurfaceSkills, Paths
<1>. QED
  BY <1>1, <1>2 DEF Sent

LEMMA InlinedStays ==
  ASSUME UNCHANGED world, UNCHANGED <<context, skills>>, Inlined,
         pc' = "session" \/ exit' = "zero" => pc = "session" \/ exit = "zero"
  PROVE  Inlined'
<1>1. MandatorySkills' = MandatorySkills /\ FrameworkRead' = FrameworkRead
  BY DEF MandatorySkills, FrameworkRead
<1>2. surfaceRepo' = surfaceRepo /\ catalog' = catalog
  BY DEF world
<1>3. MandatoryRead' = MandatoryRead
  BY <1>1, <1>2 DEF MandatoryRead, Source
<1>. QED
  BY <1>1, <1>2, <1>3 DEF Inlined, Resolves

(* Only the first step touches the context, only the prompt's brings a     *)
(* session, and only a session exits zero.                                 *)
LEMMA StepsInOrder ==
  ASSUME RunnerInv, [Next]_vars
  PROVE  /\ context' = context \/ (CanLoad /\ context' = Context /\ pc' = "config")
         /\ \/ /\ skills' = skills
               /\ pc' = "session" \/ exit' = "zero" => pc = "session" \/ exit = "zero"
            \/ BuildSystemPrompt /\ pc' = "session" /\ context' = context
<1>1. CASE UNCHANGED vars
  BY <1>1 DEF vars
<1>2. CASE LoadDispatchContext
  BY <1>2 DEF LoadDispatchContext, Throw
<1>3. CASE LoadClaudeConfig \/ PrepareWorkspace
  BY <1>3 DEF LoadClaudeConfig, PrepareWorkspace, Git, GoOn, Throw
<1>4. CASE BuildSystemPrompt
  BY <1>4 DEF BuildSystemPrompt, Throw
<1>5. CASE Turn \/ StreamEnds \/ StreamThrows \/ PostFallbackComment \/ Killed
  BY <1>5 DEF Turn, StreamEnds, StreamThrows, PostFallbackComment, Killed, Throw
<1>. QED
  BY <1>1, <1>2, <1>3, <1>4, <1>5 DEF Next, Main

LEMMA SentStep == SentInv /\ [Next]_vars => SentInv'
<1>. SUFFICES ASSUME SentInv, [Next]_vars PROVE SentInv'
  OBVIOUS
<1>1. RunnerInv' /\ RunnerInv
  BY InvStep DEF SentInv
<1>2. UNCHANGED world
  BY WorldStays
<1>3. Sent'
  BY <1>2, SentStays DEF SentInv
<1>4. Read'
  BY <1>1, <1>2, ContextStays, StepsInOrder DEF SentInv, Read
<1>5. Inlined'
  <2>1. CASE BuildSystemPrompt /\ pc' = "session" /\ context' = context
    <3>1. pc = "prompt" /\ ~Throw
      BY <2>1 DEF BuildSystemPrompt, Throw
    <3>6. context'.loaded
      BY <1>1, <2>1, <3>1 DEF RunnerInv, Located
    <3>2. /\ skills' = FrameworkRead \o MandatoryRead
          /\ Range(FrameworkSkillNames) \subseteq catalog
          /\ \A name \in Range(MandatorySkills) : Resolves(name)
      BY <2>1, <3>1 DEF BuildSystemPrompt, FrameworkRead, MandatoryRead
    <3>3. MandatorySkills' = MandatorySkills /\ FrameworkRead' = FrameworkRead
      BY <2>1 DEF MandatorySkills, FrameworkRead
    <3>4. surfaceRepo' = surfaceRepo /\ catalog' = catalog
      BY <1>2 DEF world
    <3>5. MandatoryRead' = MandatoryRead
      BY <3>3, <3>4 DEF MandatoryRead, Source
    <3>. QED
      BY <3>2, <3>3, <3>4, <3>5, <3>6 DEF Inlined, Resolves
  <2>2. CASE /\ skills' = skills /\ context' = context
             /\ pc' = "session" \/ exit' = "zero" => pc = "session" \/ exit = "zero"
    BY <1>2, <2>2, InlinedStays DEF SentInv
  <2>3. CASE pc' = "config"
    BY <1>1, <2>3 DEF Inlined, RunnerInv, TypeOK
  <2>. QED
    BY <1>1, <2>1, <2>2, <2>3, StepsInOrder
<1>. QED
  BY <1>1, <1>3, <1>4, <1>5 DEF SentInv

LEMMA SentHolds == Spec => []SentInv
  BY SentInit, SentStep, PTL DEF Spec

-----------------------------------------------------------------------------
(* What the dispatcher's variables hold.                                   *)
Surfaces == [i \in DOMAIN target |-> target[i].surface]
Pieces == UNION {Range(target[i].path) : i \in DOMAIN target}
AllSkills == UNION {Range(target[i].skills) : i \in DOMAIN target}

LEMMA OverridesAre ==
  ASSUME Sent
  PROVE  /\ "SURFACES" \in DOMAIN env => env["SURFACES"] = Join(Surfaces)
         /\ "SURFACE_PATHS" \in DOMAIN env <=> "SURFACE_PATHS" \notin dropped
         /\ "SURFACE_PATHS" \in DOMAIN env => env["SURFACE_PATHS"] = Join(FlattenSeq(Paths))
         /\ "SURFACE_SKILLS" \in DOMAIN env <=> "SURFACE_SKILLS" \notin dropped
         /\ "SURFACE_SKILLS" \in DOMAIN env => env["SURFACE_SKILLS"] = Join(SurfaceSkills)
         /\ IsRevision => revision # FirstBuild
         /\ \A name \in RevisionVars :
              revision # FirstBuild /\ name \notin dropped => name \in DOMAIN env
         /\ \A name \in RevisionVars \cap DOMAIN env : env[name] = RevisionOverrides[name]
<1>. DEFINE five == {"SURFACES", "SURFACE_PATHS", "SURFACE_SKILLS", "STORY_ID", "MAX_TURNS"}
<1>1. /\ DOMAIN StoryOverrides = five /\ five \cap RevisionVars = {}
      /\ StoryOverrides["SURFACES"] = Join(Surfaces)
      /\ StoryOverrides["SURFACE_PATHS"] = Join(FlattenSeq(Paths))
      /\ StoryOverrides["SURFACE_SKILLS"] = Join(SurfaceSkills)
  BY DEF StoryOverrides, RevisionVars, Surfaces
<1>2. /\ DOMAIN Overrides = IF revision = FirstBuild THEN five ELSE five \cup RevisionVars
      /\ \A name \in five : Overrides[name] = StoryOverrides[name]
      /\ revision # FirstBuild =>
           \A name \in RevisionVars : Overrides[name] = RevisionOverrides[name]
  BY <1>1 DEF Overrides
<1>3. /\ DOMAIN env = DOMAIN Overrides \ dropped
      /\ \A name \in DOMAIN env : env[name] = Overrides[name]
  BY DEF Sent
<1>. QED
  <2>. HIDE DEF five
  <2>1. {"SURFACES", "SURFACE_PATHS", "SURFACE_SKILLS"} \subseteq five
    BY DEF five
  <2>2. "REVISION_ROUND" \in RevisionVars
    BY DEF RevisionVars
  <2>. QED
    BY <1>1, <1>2, <1>3, <2>1, <2>2 DEF IsRevision

(* A target's fields, as sequences.                                        *)
LEMMA TargetLists ==
  ASSUME Sent
  PROVE  /\ Len(target) \in Nat \ {0} /\ DOMAIN target = 1..Len(target)
         /\ \E V : Surfaces \in Seq(V)
         /\ Surfaces # <<>> /\ Len(Surfaces) = Len(target) /\ "" \notin Range(Surfaces)
<1>. DEFINE n == Len(target)
            V == Range(Surfaces)
<1>1. /\ target # <<>> /\ target \in Seq(Range(target))
      /\ \A on \in Range(target) : on.surface # ""
  BY RunnerAssumption DEF Sent, RunnerAssumption
<1>2. n \in Nat \ {0} /\ DOMAIN target = 1..n
  BY <1>1, EmptySeq, LenProperties
<1>3. \A i \in 1..n : target[i].surface # ""
  BY <1>1, <1>2 DEF Range
<1>. HIDE DEF n
<1>4. DOMAIN Surfaces = 1..n
  BY <1>2 DEF Surfaces
<1>5. Surfaces \in [1..n -> V]
  BY <1>2, <1>4 DEF Surfaces, Range
<1>6. Surfaces \in Seq(V) /\ Len(Surfaces) = n
  BY <1>2, <1>5, <1>4, SeqDef, LenProperties
<1>7. "" \notin Range(Surfaces)
  BY <1>2, <1>3, <1>4 DEF Surfaces, Range
<1>8. Surfaces # <<>>
  BY <1>2, <1>6, EmptySeq
<1>. QED
  BY <1>2, <1>6, <1>7, <1>8 DEF n

(* A target's paths, as the lists of their pieces, and as they are sent.   *)
LEMMA PathLists ==
  ASSUME Sent
  PROVE  /\ Paths \in ListsOfLists(Pieces) /\ Len(Paths) = Len(target)
         /\ \A i \in 1..Len(target) : Paths[i] = target[i].path /\ Paths[i] # <<>>
         /\ FlattenSeq(Paths) \in Seq(Pieces) /\ Range(FlattenSeq(Paths)) = Pieces
         /\ Unbroken <=> "" \notin Pieces
<1>. DEFINE n == Len(target)
            V == Pieces
            P == Paths
<1>1. /\ target \in Seq(Range(target))
      /\ \A on \in Range(target) : on.path # <<>> /\ on.path \in Seq(Range(on.path))
  BY RunnerAssumption DEF Sent, RunnerAssumption
<1>2. n \in Nat \ {0} /\ DOMAIN target = 1..n
  BY TargetLists
<1>3. \A i \in 1..n : target[i].path # <<>> /\ target[i].path \in Seq(Range(target[i].path))
  BY <1>1, <1>2 DEF Range
<1>4. \A i \in 1..n : P[i] \in Seq(V)
  <2>. TAKE i \in 1..n
  <2>. DEFINE W == Range(target[i].path)
  <2>1. target[i].path \in Seq(W) /\ W \subseteq V /\ P[i] = target[i].path
    BY <1>2, <1>3 DEF Pieces, Paths
  <2>. HIDE DEF W, V, P
  <2>. QED
    BY <2>1, <1>2
<1>5. DOMAIN P = 1..n /\ P = [i \in 1..n |-> P[i]] /\ \A i \in 1..n : P[i] = target[i].path
  BY <1>2 DEF Paths
<1>6. P \in Seq(Seq(V)) /\ Len(P) = n
  <2>. DEFINE S == Seq(V)
  <2>1. P \in [1..n -> S]
    BY <1>4, <1>5
  <2>. HIDE DEF S, P, n
  <2>. QED
    BY <1>2, <1>5, <2>1, SeqDef, LenProperties DEF S
<1>7. P # <<>>
  BY <1>2, <1>6, EmptySeq
<1>8. {Range(P[i]) : i \in 1..n} = {Range(target[i].path) : i \in DOMAIN target}
  BY <1>2, <1>5
<1>9. FlattenSeq(P) \in Seq(V) /\ Range(FlattenSeq(P)) = V
  <2>. HIDE DEF P, n
  <2>. QED
    BY <1>6, <1>8, FlattenRange DEF Pieces
<1>10. Unbroken <=> "" \notin V
  BY <1>2 DEF Unbroken, Pieces
<1>. QED
  <2>. HIDE DEF n, P
  <2>1. P \in ListsOfLists(V)
    BY <1>6, <1>7 DEF ListsOfLists
  <2>. QED
    BY <1>3, <1>5, <1>6, <1>9, <1>10, <2>1 DEF n, P

LEMMA SkillsAre ==
  ASSUME Sent
  PROVE  /\ SurfaceSkills \in Seq(AllSkills) /\ Range(SurfaceSkills) = AllSkills
         /\ "" \notin AllSkills
<1>. DEFINE lists == [i \in DOMAIN target |-> target[i].skills]
            n == Len(target)
            V == AllSkills
<1>1. /\ target \in Seq(Range(target))
      /\ \A on \in Range(target) : on.skills \in Seq(Range(on.skills) \ {""})
  BY RunnerAssumption DEF Sent, RunnerAssumption
<1>2. n \in Nat /\ DOMAIN target = 1..n
  BY <1>1, LenProperties
<1>3. \A i \in 1..n : target[i].skills \in Seq(Range(target[i].skills) \ {""})
  BY <1>1, <1>2 DEF Range
<1>4. \A i \in 1..n : Range(target[i].skills) \subseteq Range(target[i].skills) \ {""}
  <2>. TAKE i \in 1..n
  <2>. DEFINE list == target[i].skills
              W == Range(list) \ {""}
  <2>1. list \in Seq(W)
    BY <1>3
  <2>2. \A m \in 1..Len(list) : list[m] \in W /\ DOMAIN list = 1..Len(list)
    <3>. HIDE DEF list, W
    <3>. QED
      BY <2>1, LenProperties, ElementOfSeq
  <2>. QED
    BY <2>1, <2>2, LenProperties DEF Range
<1>5. "" \notin AllSkills
  BY <1>2, <1>4 DEF AllSkills
<1>6. \A i \in 1..n : lists[i] \in Seq(V)
  <2>. TAKE i \in 1..n
  <2>. DEFINE W == Range(target[i].skills) \ {""}
  <2>1. target[i].skills \in Seq(W) /\ W \subseteq V
    BY <1>2, <1>3 DEF AllSkills
  <2>. HIDE DEF W, V
  <2>. QED
    BY <2>1, <1>2
<1>7. lists \in Seq(Seq(V)) /\ Len(lists) = n
  <2>. DEFINE S == Seq(V)
  <2>1. lists \in [1..n -> S]
    BY <1>2, <1>6
  <2>. HIDE DEF S, lists, n
  <2>. QED
    BY <1>2, <2>1, SeqDef, LenProperties DEF S
<1>8. {Range(lists[i]) : i \in 1..n} = {Range(target[i].skills) : i \in DOMAIN target}
  BY <1>2
<1>9. FlattenSeq(lists) \in Seq(V) /\ Range(FlattenSeq(lists)) = V
  <2>. HIDE DEF lists, n
  <2>. QED
    BY <1>7, <1>8, FlattenRange DEF AllSkills
<1>10. SurfaceSkills = Distinct(FlattenSeq(lists))
  BY DEF SurfaceSkills
<1>. HIDE DEF lists
<1>11. SurfaceSkills \in Seq(V) /\ Range(SurfaceSkills) = V
  BY <1>9, <1>10, DistinctFirsts, DistinctRange
<1>. QED
  BY <1>5, <1>11

(* A list that was sent, and whose items are not empty, arrives.           *)
LEMMA JoinedArrives ==
  ASSUME NEW V, NEW items \in Seq(V), "" \notin Range(items)
  PROVE  Listed(Join(items)) = items
<1>1. CASE items = <<>>
  BY <1>1, ListedNothing DEF Join
<1>2. CASE items # <<>>
  BY <1>2, ListedWhole DEF Join
<1>. QED
  BY <1>1, <1>2

(* The context of a runner that has one.                                   *)
LEMMA ContextIs ==
  ASSUME Sent, Read, context.loaded
  PROVE  /\ context.surfaces = Surfaces
         /\ context.skills = IF "SURFACE_SKILLS" \notin dropped THEN SurfaceSkills ELSE <<>>
         /\ "REVISION_ROUND" \notin dropped => context.revision = revision
<1>1. context = Context /\ CanLoad
  BY DEF Read
<1>2. Listed(env["SURFACES"]) = Surfaces
  <2>1. env["SURFACES"] = Join(Surfaces)
    BY <1>1, OverridesAre DEF CanLoad
  <2>. QED
    BY <2>1, TargetLists, JoinedArrives
<1>4. OptionalList("SURFACE_SKILLS") =
        IF "SURFACE_SKILLS" \notin dropped THEN SurfaceSkills ELSE <<>>
  <2>1. Listed(Join(SurfaceSkills)) = SurfaceSkills
    BY SkillsAre, JoinedArrives
  <2>. QED
    BY <2>1, OverridesAre DEF OptionalList
<1>6. "REVISION_ROUND" \notin dropped => Context.revision = revision
  <2>. SUFFICES ASSUME "REVISION_ROUND" \notin dropped PROVE Context.revision = revision
    OBVIOUS
  <2>1. CASE revision = FirstBuild
    BY <2>1, OverridesAre DEF Context
  <2>2. CASE revision # FirstBuild
    <3>1. revision = [round |-> revision.round, roundCap |-> revision.roundCap,
                      pullRequestNumber |-> revision.pullRequestNumber,
                      reviewId |-> revision.reviewId]
      BY <2>2, RunnerAssumption DEF Sent, RunnerAssumption, FirstBuild
    <3>2. IsRevision
      BY <2>2, OverridesAre DEF IsRevision, RevisionVars
    <3>3. \A name \in RevisionVars :
            name \in DOMAIN env /\ env[name] = RevisionOverrides[name]
      BY <1>1, <3>2, OverridesAre DEF CanLoad
    <3>4. /\ env["REVISION_ROUND"] = revision.round
          /\ env["REVISION_ROUND_CAP"] = revision.roundCap
          /\ env["PULL_REQUEST_NUMBER"] = revision.pullRequestNumber
          /\ env["REVIEW_ID"] = revision.reviewId
      BY <3>3 DEF RevisionVars, RevisionOverrides
    <3>. QED
      BY <3>1, <3>2, <3>4 DEF Context
  <2>. QED
    BY <2>1, <2>2
<1>. QED
  BY <1>1, <1>2, <1>4, <1>6 DEF Context

(* Its paths are as many as its surfaces, because it was accepted; and if  *)
(* no piece of them was dropped, each is one path.                         *)
LEMMA PathsAre ==
  ASSUME Sent, Read, context.loaded
  PROVE  /\ Len(context.paths) = Len(target)
         /\ Unbroken =>
              \A i \in DOMAIN target :
                <<context.paths[i]>> = IF "SURFACE_PATHS" \notin dropped THEN target[i].path
                                       ELSE <<"/">>
<1>. DEFINE sent == OptionalList("SURFACE_PATHS")
            n == Len(target)
            whole == [i \in DOMAIN target |-> "/"]
<1>1. context = Context /\ CanLoad
  BY DEF Read
<1>2. Listed(env["SURFACES"]) = Surfaces /\ Len(Surfaces) = n /\ DOMAIN Surfaces = DOMAIN target
  <2>1. env["SURFACES"] = Join(Surfaces)
    BY <1>1, OverridesAre DEF CanLoad
  <2>. QED
    BY <2>1, TargetLists, JoinedArrives DEF Surfaces
<1>3. context.paths = IF sent # <<>> THEN sent ELSE whole
  BY <1>1, <1>2 DEF Context, SurfacePaths
<1>4. sent = <<>> \/ Len(sent) = n
  BY <1>1, <1>2 DEF CanLoad, PathsFit
<1>5. n \in Nat \ {0} /\ DOMAIN target = 1..n
  BY TargetLists
<1>6. Len(whole) = n
  <2>1. whole \in [1..n -> {"/"}] /\ DOMAIN whole = 1..n
    BY <1>5
  <2>. HIDE DEF n, whole
  <2>. QED
    BY <1>5, <2>1, SeqDef, LenProperties
<1>7. Len(context.paths) = n
  BY <1>3, <1>4, <1>6
<1>8. ASSUME Unbroken, NEW i \in DOMAIN target
      PROVE  <<context.paths[i]>> = IF "SURFACE_PATHS" \notin dropped THEN target[i].path
                                    ELSE <<"/">>
  <2>1. CASE "SURFACE_PATHS" \notin dropped
    <3>. DEFINE flat == FlattenSeq(Paths)
    <3>1. flat \in Seq(Pieces) /\ "" \notin Range(flat)
      BY <1>8, PathLists
    <3>2. sent = flat
      <4>1. Listed(Join(flat)) = flat
        BY <3>1, JoinedArrives
      <4>. QED
        BY <2>1, <4>1, OverridesAre DEF OptionalList
    <3>3. flat # <<>>
      <4>1. 1 \in 1..n /\ 1 \in DOMAIN target
        BY <1>5
      <4>2. target[1].path # <<>> /\ target[1].path \in Seq(Range(target[1].path))
        BY <4>1, RunnerAssumption DEF Sent, RunnerAssumption, Range
      <4>3. target[1].path[1] \in Pieces
        <5>1. 1 \in 1..Len(target[1].path)
          BY <4>2, EmptySeq, LenProperties
        <5>2. target[1].path[1] \in Range(target[1].path)
          BY <4>2, <5>1, RangeEquality
        <5>. QED
          BY <4>1, <5>2 DEF Pieces
      <4>4. Range(flat) # {}
        BY <4>3, PathLists
      <4>. QED
        BY <4>4, RangeEquality, LenProperties DEF Range
    <3>4. Len(flat) = Len(Paths) /\ context.paths = flat
      BY <1>3, <1>4, <3>2, <3>3, PathLists
    <3>5. \A k \in 1..Len(Paths) : Paths[k] = <<flat[k]>>
      BY <3>4, PathLists, FlattenSingles
    <3>. QED
      BY <1>5, <2>1, <3>4, <3>5, PathLists
  <2>2. CASE "SURFACE_PATHS" \in dropped
    <3>1. sent = <<>>
      BY <2>2, OverridesAre DEF OptionalList
    <3>. QED
      BY <1>3, <2>2, <3>1
  <2>. QED
    BY <2>1, <2>2
<1>. QED
  BY <1>7, <1>8

(* Any context the runner accepts is the one that was sent, for any target *)
(* of any number of surfaces, paths with any number of commas, any         *)
(* revision and any set of variables that the dispatcher failed to set:    *)
(* each surface has its own path, the skills are the union of the          *)
(* surfaces' and the revision has its PR and review in their places        *)
(* (dispatch-context.ts:86-174, dispatch-specialist.ts:65-93).             *)
THEOREM ContextsArriveWhole == Spec => []ContextIsInput
<1>1. SentInv => ContextIsInput
  <2>. SUFFICES ASSUME SentInv, context.loaded PROVE ContextIsInput
    BY DEF ContextIsInput
  <2>1. Sent /\ Read
    BY DEF SentInv
  <2>2. /\ Whole({"SURFACE_PATHS"}) <=> "SURFACE_PATHS" \notin dropped
        /\ Whole({"SURFACE_SKILLS"}) <=> "SURFACE_SKILLS" \notin dropped
        /\ Whole({"REVISION_ROUND"}) <=> "REVISION_ROUND" \notin dropped
    BY DEF Whole
  <2>3. Len(context.surfaces) = Len(target) /\ Len(context.paths) = Len(target)
    BY <2>1, ContextIs, PathsAre, TargetLists
  <2>4. \A i \in DOMAIN target : context.surfaces[i] = target[i].surface
    BY <2>1, ContextIs DEF Surfaces
  <2>5. Range(<<>>) = {}
    BY RangeEquality, LenProperties DEF Range
  <2>6. Range(context.skills) = IF Whole({"SURFACE_SKILLS"}) THEN AllSkills ELSE {}
    BY <2>1, <2>2, <2>5, ContextIs, SkillsAre
  <2>7. Whole({"REVISION_ROUND"}) => context.revision = revision
    BY <2>1, <2>2, ContextIs
  <2>8. Unbroken =>
          \A i \in DOMAIN target :
            <<context.paths[i]>> = IF Whole({"SURFACE_PATHS"}) THEN target[i].path ELSE <<"/">>
    BY <2>1, <2>2, PathsAre
  <2>. QED
    BY <2>3, <2>4, <2>6, <2>7, <2>8 DEF ContextIsInput, AllSkills
<1>. QED
  BY <1>1, SentHolds, PTL

-----------------------------------------------------------------------------
(* The prompt of a session, and of one that ended, is the whole one.       *)
LEMMA PromptIs ==
  ASSUME SentInv, pc = "session" \/ exit = "zero"
  PROVE  PromptIsRead
<1>. DEFINE fw == Range(FrameworkSkillNames)
            read == Range(skills)
<1>1. Sent /\ Read /\ context.loaded
  BY DEF SentInv, Inlined
<1>2. Whole({"SURFACE_SKILLS"}) <=> "SURFACE_SKILLS" \notin dropped
  BY DEF Whole
<1>3. context.skills \in Seq(AllSkills)
      /\ Range(context.skills) = IF Whole({"SURFACE_SKILLS"}) THEN AllSkills ELSE {}
  <2>1. <<>> \in Seq(AllSkills) /\ Range(<<>>) = {}
    BY RangeEquality, LenProperties DEF Range
  <2>. QED
    BY <1>1, <1>2, <2>1, ContextIs, SkillsAre
<1>4. /\ MandatorySkills \in Seq(AllSkills)
      /\ Range(MandatorySkills) = Range(context.skills) \ fw
  <2>. HIDE DEF fw
  <2>1. MandatorySkills = Kept(context.skills, Range(context.skills) \ fw)
    BY DEF MandatorySkills, fw
  <2>2. MandatorySkills \in Seq(AllSkills)
    BY <1>3, <2>1, KeptPicks
  <2>3. Range(MandatorySkills) = Range(context.skills) \cap (Range(context.skills) \ fw)
    BY <1>3, <2>1, KeptRange
  <2>. QED
    BY <2>2, <2>3
<1>5. read = Range(FrameworkRead) \cup Range(MandatoryRead)
  <2>. DEFINE V == Range(FrameworkRead) \cup Range(MandatoryRead)
  <2>1. FrameworkRead \in Seq(V)
    <3>1. FrameworkRead \in [1..2 -> V] /\ 2 \in Nat
      BY DEF FrameworkRead, FrameworkSkillNames, Range
    <3>. HIDE DEF V
    <3>. QED
      BY <3>1, SeqDef
  <2>2. MandatoryRead \in Seq(V)
    <3>. DEFINE n == Len(MandatorySkills)
    <3>1. n \in Nat /\ DOMAIN MandatorySkills = 1..n
      BY <1>4, LenProperties
    <3>2. MandatoryRead \in [1..n -> V]
      BY <3>1 DEF MandatoryRead, Range
    <3>. HIDE DEF V, n
    <3>. QED
      BY <3>1, <3>2, SeqDef
  <2>3. skills = FrameworkRead \o MandatoryRead
    BY DEF SentInv, Inlined
  <2>. HIDE DEF V
  <2>. QED
    BY <2>1, <2>2, <2>3, RangeConcatenation
<1>6. Range(FrameworkRead) = {[name |-> name, source |-> "framework"] : name \in fw}
  BY DEF FrameworkRead, Range
<1>7. Range(MandatoryRead) =
        {[name |-> name, source |-> Source(name)] : name \in Range(MandatorySkills)}
  BY DEF MandatoryRead, Range
<1>8. /\ fw \subseteq catalog
      /\ \A name \in Range(MandatorySkills) : name \in surfaceRepo \cup catalog
  BY DEF SentInv, Inlined, Resolves
<1>. HIDE DEF fw
<1>9. \A name \in fw :
        name \in catalog /\ [name |-> name, source |-> "framework"] \in read
  BY <1>5, <1>6, <1>8
<1>10. ASSUME NEW name \in AllSkills, Whole({"SURFACE_SKILLS"}), name \notin fw
       PROVE  \/ name \in surfaceRepo /\ [name |-> name, source |-> "surface"] \in read
              \/ /\ name \in catalog \ surfaceRepo
                 /\ [name |-> name, source |-> "framework"] \in read
  <2>1. name \in Range(MandatorySkills)
    BY <1>3, <1>4, <1>10
  <2>2. [name |-> name, source |-> Source(name)] \in read
    BY <1>5, <1>7, <2>1
  <2>3. name \in surfaceRepo \cup catalog
    BY <1>8, <2>1
  <2>. QED
    BY <2>2, <2>3 DEF Source
<1>11. {skill.name : skill \in read} \subseteq fw \cup AllSkills
  BY <1>3, <1>4, <1>5, <1>6, <1>7
<1>12. \A i \in DOMAIN target : Range(target[i].skills) \subseteq AllSkills
  BY DEF AllSkills
<1>. QED
  BY <1>9, <1>10, <1>11, <1>12 DEF PromptIsRead, AllSkills, fw

(* No session starts without every mandatory skill of its surfaces in its  *)
(* prompt, from where it should come, nor with any other, for any target   *)
(* and whatever the framework and the surface repo have (prompt.ts:51-90). *)
THEOREM MandatorySkillsAreRead == Spec => []MandatoryAreRead
<1>1. SentInv => MandatoryAreRead
  BY PromptIs DEF MandatoryAreRead
<1>. QED
  BY <1>1, SentHolds, PTL

(* A container that ends without a word was killed, cannot speak, or had a *)
(* session on a complete prompt, for any target, catalog and dispatcher    *)
(* and whichever step fails (run.ts:27-52, 113-140).                       *)
THEOREM SilentEndsHadSession == Spec => []SilenceHadSession
<1>1. SentInv => SilenceHadSession
  <2>. SUFFICES ASSUME SentInv, exit # "none", comment = "none" PROVE SilenceHadSession
    BY DEF SilenceHadSession
  <2>1. Said \/ exit = "zero"
    BY DEF SentInv, RunnerInv, TypeOK, Located
  <2>. QED
    BY <2>1, PromptIs DEF SilenceHadSession, Said, Whole
<1>. QED
  BY <1>1, SentHolds, PTL
=============================================================================

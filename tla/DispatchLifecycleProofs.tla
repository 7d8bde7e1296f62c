----------------------- MODULE DispatchLifecycleProofs -----------------------
(***************************************************************************)
(* Theorems about DispatchLifecycle, for every set of stories, every bound *)
(* and every choice of faults.                                             *)
(***************************************************************************)
EXTENDS DispatchLifecycle, TLAPS

(* A run is for a move that was made, is behind its own execution unless   *)
(* it met another, and an execution that ends has an ending.               *)
MovesWereMade == \A r \in Runs : run[r].move <= moves[StoryOf(r)]
BehindItsOwn == \A r \in Runs : run[r].at \notin {"absorbed", "late"} => run[r].by = r
EndsSomehow == \A e \in Runs : exec[e].phase \in {"closing", "closed"} => exec[e].ending # "none"

DispatchInv == TypeOK /\ OneDispatch
ExplainedInv ==
  TypeOK /\ MovesWereMade /\ BehindItsOwn /\ EndsSomehow /\ InProgressIsExplained

RunRecord == [at : Stages, move : Nat, by : Runs, doubt : BOOLEAN]
ExecRecord == [phase : Phases, ending : Endings]

-----------------------------------------------------------------------------
LEMMA RunsAre == \A r \in Runs : StoryOf(r) \in Stories
  BY DEF Runs, StoryOf

LEMMA TypeInit == Init => TypeOK
  BY LifecycleAssumption DEF LifecycleAssumption, Init, TypeOK, Stages, Phases, Endings

LEMMA StageOf ==
  ASSUME NEW x \in RunRecord, NEW stage \in Stages
  PROVE  /\ [x EXCEPT !.at = stage] \in RunRecord
         /\ [x EXCEPT !.at = stage].at = stage
         /\ [x EXCEPT !.at = stage].move = x.move
         /\ [x EXCEPT !.at = stage].by = x.by
  BY DEF RunRecord

LEMMA DoubtOf ==
  ASSUME NEW x \in RunRecord
  PROVE  /\ [x EXCEPT !.doubt = TRUE] \in RunRecord
         /\ [x EXCEPT !.doubt = TRUE].at = x.at
         /\ [x EXCEPT !.doubt = TRUE].move = x.move
         /\ [x EXCEPT !.doubt = TRUE].by = x.by
  BY DEF RunRecord

LEMMA PhaseOf ==
  ASSUME NEW x \in ExecRecord, NEW phase \in Phases
  PROVE  /\ [x EXCEPT !.phase = phase] \in ExecRecord
         /\ [x EXCEPT !.phase = phase].phase = phase
         /\ [x EXCEPT !.phase = phase].ending = x.ending
  BY DEF ExecRecord

(* A run moves on, keeping what it runs for.                               *)
LEMMA GoesType ==
  ASSUME TypeOK, NEW r \in Runs, NEW stage \in Stages, Goes(r, stage)
  PROVE  /\ run' \in [Runs -> RunRecord]
         /\ \A q \in Runs : /\ run'[q].move = run[q].move /\ run'[q].by = run[q].by
                            /\ run'[q].at = IF q = r THEN stage ELSE run[q].at
<1>1. run \in [Runs -> RunRecord]
  BY DEF TypeOK, RunRecord
<1>2. run' = [run EXCEPT ![r] = [run[r] EXCEPT !.at = stage]]
  BY DEF Goes
<1>3. run[r] \in RunRecord
  BY <1>1
<1> DEFINE moved == [run[r] EXCEPT !.at = stage]
<1>4. moved \in RunRecord /\ moved.at = stage /\ moved.move = run[r].move /\ moved.by = run[r].by
  BY <1>3, StageOf
<1> HIDE DEF moved
<1>5. run' \in [Runs -> RunRecord] /\ run'[r] = moved /\ \A q \in Runs \ {r} : run'[q] = run[q]
  BY <1>1, <1>2, <1>4 DEF moved
<1> QED BY <1>4, <1>5

LEMMA StopsType ==
  ASSUME TypeOK, Stops
  PROVE  /\ run' \in [Runs -> RunRecord]
         /\ \A q \in Runs : /\ run'[q].move = run[q].move /\ run'[q].by = run[q].by
                            /\ run'[q].at = IF run[q].at \in InFlight THEN "cut" ELSE run[q].at
<1>1. run \in [Runs -> RunRecord] /\ "cut" \in Stages
  BY DEF TypeOK, RunRecord, Stages
<1> DEFINE cut(q) == [run[q] EXCEPT !.at = "cut"]
<1>2. \A q \in Runs : /\ cut(q) \in RunRecord /\ cut(q).at = "cut"
                      /\ cut(q).move = run[q].move /\ cut(q).by = run[q].by
  BY <1>1, StageOf
<1>3. run' = [q \in Runs |-> IF run[q].at \in InFlight THEN cut(q) ELSE run[q]]
  BY DEF Stops
<1> HIDE DEF cut
<1>4. /\ run' \in [Runs -> RunRecord]
      /\ \A q \in Runs : run'[q] = IF run[q].at \in InFlight THEN cut(q) ELSE run[q]
  BY <1>1, <1>2, <1>3
<1> QED BY <1>2, <1>4

LEMMA ArriveType ==
  ASSUME TypeOK, NEW r \in Runs, Arrive(r)
  PROVE  /\ run' \in [Runs -> RunRecord]
         /\ \A q \in Runs \ {r} : run'[q] = run[q]
         /\ run[r].at = "idle" /\ run'[r].at = "context" /\ run'[r].by = run[r].by
         /\ run'[r].move \in 1..moves[StoryOf(r)]
<1>1. run \in [Runs -> RunRecord] /\ run[r] \in RunRecord
  BY DEF TypeOK, RunRecord
<1>2. PICK n \in 1..moves[StoryOf(r)] :
        run' = [run EXCEPT ![r].at = "context", ![r].move = n, ![r].doubt = (temporal # "up")]
  BY DEF Arrive
<1>3. n \in Nat
  BY <1>2, RunsAre DEF TypeOK
<1>4. PICK d \in BOOLEAN : d = (temporal # "up")
  OBVIOUS
<1> DEFINE arrived == [run[r] EXCEPT !.at = "context", !.move = n, !.doubt = d]
<1>5. run' = [run EXCEPT ![r] = arrived]
  <2>1. run' = [run EXCEPT ![r].at = "context", ![r].move = n, ![r].doubt = d]
    BY <1>2, <1>4
  <2> QED BY <2>1, <1>1
<1>6. /\ arrived \in RunRecord /\ arrived.at = "context"
      /\ arrived.move = n /\ arrived.by = run[r].by
  BY <1>1, <1>3, <1>4 DEF RunRecord, Stages, InFlight
<1>7. run[r].at = "idle"
  BY DEF Arrive
<1> HIDE DEF arrived
<1>8. /\ run' \in [Runs -> RunRecord] /\ run'[r] = arrived
      /\ \A q \in Runs \ {r} : run'[q] = run[q]
  BY <1>1, <1>5, <1>6
<1> QED BY <1>2, <1>6, <1>7, <1>8

LEMMA GoDownType ==
  ASSUME TypeOK, GoDown
  PROVE  /\ run' \in [Runs -> RunRecord]
         /\ \A q \in Runs : /\ run'[q].at = run[q].at /\ run'[q].move = run[q].move
                            /\ run'[q].by = run[q].by
<1>1. run \in [Runs -> RunRecord]
  BY DEF TypeOK, RunRecord
<1> DEFINE doubted(q) == [run[q] EXCEPT !.doubt = TRUE]
<1>2. \A q \in Runs : /\ doubted(q) \in RunRecord /\ doubted(q).at = run[q].at
                      /\ doubted(q).move = run[q].move /\ doubted(q).by = run[q].by
  BY <1>1, DoubtOf
<1>3. run' = [q \in Runs |-> IF Doubted(q) THEN doubted(q) ELSE run[q]]
  BY DEF GoDown
<1> HIDE DEF doubted
<1>4. /\ run' \in [Runs -> RunRecord]
      /\ \A q \in Runs : run'[q] = IF Doubted(q) THEN doubted(q) ELSE run[q]
  BY <1>1, <1>2, <1>3
<1> QED BY <1>2, <1>4

(* What each step does to the executions.                                  *)
LEMMA AcceptedType ==
  ASSUME TypeOK, NEW r \in Runs, Accepted(r)
  PROVE  /\ exec' \in [Runs -> ExecRecord]
         /\ exec'[r].phase = "running" /\ exec'[r].ending = exec[r].ending
         /\ \A q \in Runs \ {r} : exec'[q] = exec[q]
<1>1. exec \in [Runs -> ExecRecord] /\ exec[r] \in ExecRecord /\ "running" \in Phases
  BY DEF TypeOK, ExecRecord, Phases
<1> DEFINE opened == [exec[r] EXCEPT !.phase = "running"]
<1>2. exec' = [exec EXCEPT ![r] = opened]
  BY DEF Accepted
<1>3. opened \in ExecRecord /\ opened.phase = "running" /\ opened.ending = exec[r].ending
  BY <1>1, PhaseOf
<1> HIDE DEF opened
<1> QED BY <1>1, <1>2, <1>3

LEMMA WorkflowType ==
  ASSUME TypeOK, NEW e \in Runs, Workflow(e)
  PROVE  /\ exec' \in [Runs -> ExecRecord]
         /\ \A q \in Runs \ {e} : exec'[q] = exec[q]
         /\ \/ exec' = exec
            \/ Works(e) /\ exec'[e].phase \in {"handing", "closing"} /\
               (exec'[e].phase = "closing" => exec'[e].ending # "none") /\
               (exec'[e].ending = "handed" => exec[e].ending = "handed" \/ board'[StoryOf(e)] = "Todo") /\
               (exec'[e].phase = "handing" => exec'[e].ending = exec[e].ending)
            \/ exec[e].phase = "closing" /\ exec'[e].phase = "closed" /\ exec'[e].ending = exec[e].ending
<1>1. exec \in [Runs -> ExecRecord] /\ exec[e] \in ExecRecord
      /\ {"handing", "closing", "closed"} \subseteq Phases
  BY DEF TypeOK, ExecRecord, Phases
<1>2. ASSUME NEW x \in ExecRecord, exec' = [exec EXCEPT ![e] = x]
      PROVE  /\ exec' \in [Runs -> ExecRecord] /\ exec'[e] = x
             /\ \A q \in Runs \ {e} : exec'[q] = exec[q]
  BY <1>1, <1>2
<1>3. ASSUME NEW ending \in Endings \ {"none"}, Works(e),
             ending = "handed" => board'[StoryOf(e)] = "Todo",
             exec' = [exec EXCEPT ![e] = [phase |-> "closing", ending |-> ending]]
      PROVE  /\ exec' \in [Runs -> ExecRecord]
             /\ \A q \in Runs \ {e} : exec'[q] = exec[q]
             /\ exec'[e].phase = "closing" /\ exec'[e].ending = ending
  <2>1. [phase |-> "closing", ending |-> ending] \in ExecRecord
    BY <1>1 DEF ExecRecord
  <2> QED BY <1>2, <1>3, <2>1
<1>4. ASSUME NEW phase \in Phases, exec' = [exec EXCEPT ![e].phase = phase]
      PROVE  /\ exec' \in [Runs -> ExecRecord]
             /\ \A q \in Runs \ {e} : exec'[q] = exec[q]
             /\ exec'[e].phase = phase /\ exec'[e].ending = exec[e].ending
  <2> DEFINE x == [exec[e] EXCEPT !.phase = phase]
  <2>1. x \in ExecRecord /\ x.phase = phase /\ x.ending = exec[e].ending
    BY <1>1, PhaseOf
  <2>2. exec' = [exec EXCEPT ![e] = x]
    BY <1>4
  <2> HIDE DEF x
  <2> QED BY <1>2, <2>1, <2>2
<1>5. CASE Decide(e)
  <2>1. Works(e)
    BY <1>5 DEF Decide, Works
  <2>2. CASE exec' = [exec EXCEPT ![e] = [phase |-> "closing", ending |-> "merged"]]
    <3>1. "merged" \in Endings \ {"none"} /\ "merged" # "handed"
      BY DEF Endings
    <3>2. /\ exec' \in [Runs -> ExecRecord]
          /\ \A q \in Runs \ {e} : exec'[q] = exec[q]
          /\ exec'[e].phase = "closing" /\ exec'[e].ending = "merged"
      BY <1>3, <2>1, <2>2, <3>1
    <3> QED BY <2>1, <3>2
  <2>3. CASE exec' = [exec EXCEPT ![e].phase = "handing"]
    BY <1>1, <1>4, <2>1, <2>3
  <2> QED BY <1>5, <2>2, <2>3 DEF Decide
<1>6. CASE MoveStoryToTodo(e)
  <2>1. Works(e)
    BY <1>6 DEF MoveStoryToTodo, Works
  <2>2. CASE /\ board' = [board EXCEPT ![StoryOf(e)] = "Todo"]
             /\ exec' = [exec EXCEPT ![e] = [phase |-> "closing", ending |-> "handed"]]
    <3>1. board'[StoryOf(e)] = "Todo"
      BY <2>2, RunsAre DEF TypeOK
    <3>2. "handed" \in Endings \ {"none"}
      BY DEF Endings
    <3>3. /\ exec' \in [Runs -> ExecRecord]
          /\ \A q \in Runs \ {e} : exec'[q] = exec[q]
          /\ exec'[e].phase = "closing" /\ exec'[e].ending = "handed"
      BY <1>3, <2>1, <2>2, <3>1, <3>2
    <3> QED BY <2>1, <3>1, <3>3
  <2>3. CASE exec' = [exec EXCEPT ![e] = [phase |-> "closing", ending |-> "unwritten"]]
    <3>1. "unwritten" \in Endings \ {"none"} /\ "unwritten" # "handed"
      BY DEF Endings
    <3>2. /\ exec' \in [Runs -> ExecRecord]
          /\ \A q \in Runs \ {e} : exec'[q] = exec[q]
          /\ exec'[e].phase = "closing" /\ exec'[e].ending = "unwritten"
      BY <1>3, <2>1, <2>3, <3>1
    <3> QED BY <2>1, <3>2
  <2>4. CASE UNCHANGED exec
    BY <1>1, <2>4
  <2> QED BY <1>6, <2>2, <2>3, <2>4 DEF MoveStoryToTodo
<1>7. CASE Close(e)
  BY <1>1, <1>4, <1>7 DEF Close
<1> QED BY <1>5, <1>6, <1>7 DEF Workflow

(* An execution that leaves the board alone goes on, or ends otherwise     *)
(* than by handing back.                                                   *)
LEMMA WorkAtTodo ==
  ASSUME TypeOK, NEW e \in Runs, Workflow(e), board'[StoryOf(e)] # "Todo"
  PROVE  \/ exec' = exec
         \/ Works(e) /\ exec'[e].phase = "handing"
         \/ Works(e) /\ exec'[e].phase = "closing" /\ exec'[e].ending \in {"unwritten", "merged"}
         \/ exec[e].phase = "closing" /\ exec'[e].ending = exec[e].ending
<1>1. exec \in [Runs -> ExecRecord] /\ StoryOf(e) \in Stories
  BY RunsAre DEF TypeOK, ExecRecord
<1>2. CASE Decide(e)
  BY <1>1, <1>2 DEF Decide, Works, ExecRecord
<1>3. CASE MoveStoryToTodo(e)
  <2>1. CASE board' = [board EXCEPT ![StoryOf(e)] = "Todo"]
    BY <1>1, <2>1 DEF TypeOK
  <2>2. CASE exec' = [exec EXCEPT ![e] = [phase |-> "closing", ending |-> "unwritten"]]
    <3>1. exec'[e] = [phase |-> "closing", ending |-> "unwritten"]
      BY <1>1, <2>2
    <3>2. Works(e)
      BY <1>3 DEF MoveStoryToTodo, Works
    <3> QED BY <3>1, <3>2
  <2> QED BY <1>3, <2>1, <2>2 DEF MoveStoryToTodo
<1>4. CASE Close(e)
  BY <1>1, <1>4 DEF Close, ExecRecord
<1> QED BY <1>2, <1>3, <1>4 DEF Workflow

(* What one run's step does to the runs, whatever else it does.            *)
LEMMA RunsMove ==
  ASSUME TypeOK, NEW r \in Runs,
         ReadContext(r) \/ GetClient(r) \/ Start(r) \/ Comment(r) \/ HandBack(r)
  PROVE  /\ run' \in [Runs -> RunRecord]
         /\ \A q \in Runs : StoryOf(run'[q].by) = StoryOf(q)
<1>1. \A q \in Runs : StoryOf(run[q].by) = StoryOf(q) /\ run \in [Runs -> RunRecord]
  BY DEF TypeOK, RunRecord
<1>2. ASSUME NEW stage \in Stages, Goes(r, stage)
      PROVE  run' \in [Runs -> RunRecord] /\ \A q \in Runs : StoryOf(run'[q].by) = StoryOf(q)
  BY <1>1, <1>2, GoesType
<1>3. ASSUME NEW e \in RunsOf(StoryOf(r)), NEW stage \in Stages,
             run' = [run EXCEPT ![r].by = e, ![r].at = stage]
      PROVE  run' \in [Runs -> RunRecord] /\ \A q \in Runs : StoryOf(run'[q].by) = StoryOf(q)
  BY <1>1, <1>3 DEF RunsOf, RunRecord
<1>4. CASE UNCHANGED run
  BY <1>1, <1>4
<1>5. CASE ReadContext(r) \/ GetClient(r) \/ Comment(r) \/ HandBack(r)
  <2>1. UNCHANGED run \/ \E stage \in {"client", "comment", "start", "move", "handed", "stuck"} : Goes(r, stage)
    BY <1>5 DEF ReadContext, GetClient, Comment, HandBack
  <2> QED BY <2>1, <1>2, <1>4 DEF Stages, InFlight
<1>6. CASE Start(r)
  <2>1. CASE Goes(r, "started") \/ Goes(r, "comment")
    BY <2>1, <1>2 DEF Stages, InFlight
  <2>2. CASE AlreadyStarted(r)
    BY <2>2, <1>3 DEF AlreadyStarted, OpenOf, Stages
  <2> QED BY <1>6, <2>1, <2>2 DEF Start, Accepted
<1> QED BY <1>5, <1>6

LEMMA TypeStep == TypeOK /\ [Next]_vars => TypeOK'
<1> SUFFICES ASSUME TypeOK, [Next]_vars PROVE TypeOK'
  OBVIOUS
<1>1. ASSUME NEW s \in Stories, People(s) PROVE TypeOK'
  <2>1. MoveIn(s) => moves[s] + 1 \in 0..MaxMoves
    BY LifecycleAssumption DEF LifecycleAssumption, MoveIn, TypeOK
  <2> QED BY <1>1, <2>1 DEF People, MoveIn, MoveOut, TypeOK
<1>2. ASSUME NEW r \in Runs, Arrive(r) PROVE TypeOK'
  <2>1. /\ run' \in [Runs -> RunRecord] /\ run'[r].by = run[r].by
        /\ \A q \in Runs \ {r} : run'[q] = run[q]
    BY <1>2, ArriveType
  <2> QED BY <1>2, <2>1 DEF Arrive, TypeOK, RunRecord
<1>3. ASSUME NEW r \in Runs, ContextThrows(r) PROVE TypeOK'
  BY <1>3, StopsType DEF ContextThrows, Stops, TypeOK, RunRecord
<1>4. ASSUME NEW r \in Runs, Trigger(r) PROVE TypeOK'
  <2>1. run' \in [Runs -> RunRecord] /\ \A q \in Runs : StoryOf(run'[q].by) = StoryOf(q)
    BY <1>4, RunsMove DEF Trigger
  <2>2. /\ board' \in [Stories -> {"Todo", "In_Progress"}]
        /\ client' \in {"none", "connecting", "ready", "rejected"}
        /\ UNCHANGED <<moves, temporal, restarts>>
    BY <1>4, RunsAre DEF Trigger, ReadContext, GetClient, Start, Comment, HandBack, TypeOK
  <2>3. exec' \in [Runs -> ExecRecord]
    <3>1. UNCHANGED exec \/ Accepted(r)
      BY <1>4 DEF Trigger, ReadContext, GetClient, Start, AlreadyStarted, Comment, HandBack
    <3> QED BY <3>1, AcceptedType DEF TypeOK, ExecRecord
  <2> QED BY <2>1, <2>2, <2>3 DEF TypeOK, RunRecord, ExecRecord
<1>5. ASSUME NEW e \in Runs, Workflow(e) PROVE TypeOK'
  <2>1. exec' \in [Runs -> ExecRecord]
    BY <1>5, WorkflowType
  <2>2. board' \in [Stories -> {"Todo", "In_Progress"}] /\ UNCHANGED <<moves, run, client, temporal, restarts>>
    BY <1>5, RunsAre DEF Workflow, Decide, MoveStoryToTodo, Close, TypeOK
  <2> QED BY <2>1, <2>2 DEF TypeOK, ExecRecord
<1>6. ASSUME Connect \/ ComeUp PROVE TypeOK'
  BY <1>6 DEF Connect, ComeUp, TypeOK
<1>7. ASSUME GoDown PROVE TypeOK'
  <2>1. run' \in [Runs -> RunRecord] /\ \A q \in Runs : run'[q].by = run[q].by
    BY <1>7, GoDownType
  <2> QED BY <1>7, <2>1 DEF GoDown, TypeOK, RunRecord
<1>8. ASSUME Restart PROVE TypeOK'
  <2>1. restarts' \in 0..MaxRestarts
    BY <1>8, LifecycleAssumption DEF LifecycleAssumption, Restart, TypeOK
  <2> QED BY <1>8, <2>1, StopsType DEF Restart, Stops, TypeOK, RunRecord
<1>9. CASE UNCHANGED vars
  BY <1>9 DEF vars, TypeOK
<1> QED BY <1>1, <1>2, <1>3, <1>4, <1>5, <1>6, <1>7, <1>8, <1>9 DEF Next

(* TypeOK holds throughout (DispatchLifecycle.tla; the state behind        *)
(* dispatch-trigger.ts and temporal-client.ts).                            *)
THEOREM LifecycleTypeCorrect == Spec => []TypeOK
  BY TypeInit, TypeStep, PTL DEF Spec

-----------------------------------------------------------------------------
(* Executions open one at a time, and only where none of the story is.     *)
LEMMA WhoOpens ==
  ASSUME TypeOK, [Next]_vars
  PROVE  \/ \A e \in Runs : Open(e)' => Open(e)
         \/ \E r \in Runs : /\ OpenOf(StoryOf(r)) = {}
                            /\ \A e \in Runs : Open(e)' => Open(e) \/ e = r
<1>0. exec \in [Runs -> ExecRecord]
  BY DEF TypeOK, ExecRecord
<1>1. ASSUME UNCHANGED exec PROVE \A e \in Runs : Open(e)' => Open(e)
  BY <1>1 DEF Open
<1>2. ASSUME NEW r \in Runs, Start(r), Accepted(r)
      PROVE  OpenOf(StoryOf(r)) = {} /\ \A e \in Runs : Open(e)' => Open(e) \/ e = r
  BY <1>0, <1>2 DEF Accepted, Open, ExecRecord
<1>3. ASSUME NEW r \in Runs, Workflow(r) PROVE \A e \in Runs : Open(e)' => Open(e)
  BY <1>0, <1>3 DEF Workflow, Decide, MoveStoryToTodo, Close, Open, ExecRecord
<1>4. ASSUME NEW r \in Runs,
             \/ Arrive(r) \/ ContextThrows(r) \/ ReadContext(r) \/ GetClient(r)
             \/ Comment(r) \/ HandBack(r) \/ (Start(r) /\ ~Accepted(r))
      PROVE  UNCHANGED exec
  BY <1>4 DEF Arrive, ContextThrows, ReadContext, GetClient, Comment, HandBack, Start, AlreadyStarted
<1>5. ASSUME \/ \E s \in Stories : People(s)
             \/ Connect \/ GoDown \/ ComeUp \/ Restart \/ UNCHANGED vars
      PROVE  UNCHANGED exec
  BY <1>5 DEF People, MoveIn, MoveOut, Connect, GoDown, ComeUp, Restart, vars
<1> QED BY <1>1, <1>2, <1>3, <1>4, <1>5 DEF Next, Trigger

LEMMA DispatchStep == DispatchInv /\ [Next]_vars => DispatchInv'
<1> SUFFICES ASSUME DispatchInv, [Next]_vars PROVE OneDispatch'
  BY TypeStep DEF DispatchInv
<1> SUFFICES ASSUME NEW d \in Runs, NEW e \in Runs, StoryOf(d) = StoryOf(e), Open(d)', Open(e)'
             PROVE  d = e
  BY DEF OneDispatch
<1>1. CASE \A q \in Runs : Open(q)' => Open(q)
  BY <1>1 DEF DispatchInv, OneDispatch
<1>2. ASSUME NEW r \in Runs, OpenOf(StoryOf(r)) = {},
             \A q \in Runs : Open(q)' => Open(q) \/ q = r
      PROVE  d = e
  BY <1>2 DEF DispatchInv, OneDispatch, OpenOf, RunsOf
<1> QED BY <1>1, <1>2, WhoOpens DEF DispatchInv

(* One story never has two executions at once (dispatch-trigger.ts:        *)
(* 163-166), so its branch has one writer.                                 *)
THEOREM OneDispatchAtATime == Spec => []OneDispatch
<1>1. Init => DispatchInv
  BY TypeInit DEF Init, DispatchInv, OneDispatch, Open
<1>2. DispatchInv => OneDispatch
  BY DEF DispatchInv
<1> QED BY <1>1, <1>2, DispatchStep, PTL DEF Spec

-----------------------------------------------------------------------------
(* InProgressIsExplained, one story and one run at a time.                 *)
Hears(r) == run[r].at # "idle" /\ run[r].move = moves[StoryOf(r)]
Explained(s) ==
  board[s] = "In_Progress" =>
    \/ \A r \in RunsOf(s) : ~Hears(r)
    \/ \E r \in RunsOf(s) : Hears(r) /\ Accounts(r)

LEMMA ExplainedByStory == InProgressIsExplained <=> \A s \in Stories : Explained(s)
<1>1. \A s \in Stories : \A r \in RunsOf(s) : StoryOf(r) = s
  BY DEF RunsOf
<1>2. \A s \in Stories : \A r \in Runs : r \in Heard(s) <=> r \in RunsOf(s) /\ Hears(r)
  BY <1>1 DEF Heard, Hears, RunsOf
<1>3. \A s \in Stories : Heard(s) \subseteq Runs /\ RunsOf(s) \subseteq Runs
  BY DEF Heard, RunsOf
<1>4. \A s \in Stories : Heard(s) = {} <=> \A r \in RunsOf(s) : ~Hears(r)
  BY <1>2, <1>3
<1>5. \A s \in Stories : (\E r \in Heard(s) : Accounts(r))
                           <=> (\E r \in RunsOf(s) : Hears(r) /\ Accounts(r))
  BY <1>2, <1>3
<1> QED BY <1>4, <1>5 DEF InProgressIsExplained, Explained

(* A story stays explained when no run of it forgets its move and every    *)
(* run of it that accounted for it does, or is newly heard and does.       *)
LEMMA Keeps ==
  ASSUME NEW s \in Stories, Explained(s),
         board'[s] = "In_Progress" => board[s] = "In_Progress",
         \A r \in RunsOf(s) : /\ Hears(r) => Hears(r)'
                              /\ Hears(r)' => Hears(r) \/ Accounts(r)'
                              /\ Hears(r) /\ Accounts(r) => Accounts(r)'
  PROVE  Explained(s)'
<1>1. RunsOf(s)' = RunsOf(s)
  BY DEF RunsOf
<1>2. CASE \A r \in RunsOf(s) : ~Hears(r)'
  BY <1>1, <1>2 DEF Explained
<1>3. ASSUME NEW r \in RunsOf(s), Hears(r)' PROVE Explained(s)'
  <2>1. CASE Accounts(r)'
    BY <1>1, <1>3, <2>1 DEF Explained
  <2>2. CASE Hears(r)
    BY <1>1, <1>3, <2>2 DEF Explained
  <2> QED BY <1>3, <2>1, <2>2
<1> QED BY <1>2, <1>3

(* What a run accounts for is up to itself and what it is behind.          *)
LEMMA AccountsStay ==
  ASSUME NEW r \in Runs, run'[r].at = run[r].at, run'[r].by = run[r].by,
         exec'[run[r].by] = exec[run[r].by]
  PROVE  Accounts(r) => Accounts(r)'
  BY DEF Accounts, Works

LEMMA ExplainedInit == Init => ExplainedInv
<1> SUFFICES ASSUME Init PROVE ExplainedInv
  OBVIOUS
<1>1. InProgressIsExplained
  BY DEF Init, InProgressIsExplained
<1>2. \A r \in Runs : /\ run[r].at = "idle" /\ run[r].move = 0 /\ run[r].by = r
                      /\ exec[r].phase = "none" /\ moves[StoryOf(r)] = 0
  BY RunsAre DEF Init
<1> QED BY TypeInit, <1>1, <1>2 DEF ExplainedInv, MovesWereMade, BehindItsOwn, EndsSomehow

(* The three invariants that are about one run or execution each.          *)
LEMMA RunStep ==
  TypeOK /\ MovesWereMade /\ BehindItsOwn /\ EndsSomehow /\ [Next]_vars
    => MovesWereMade' /\ BehindItsOwn' /\ EndsSomehow'
<1> SUFFICES ASSUME TypeOK, MovesWereMade, BehindItsOwn, EndsSomehow, [Next]_vars
             PROVE  MovesWereMade' /\ BehindItsOwn' /\ EndsSomehow'
  OBVIOUS
<1>t. /\ run \in [Runs -> RunRecord] /\ exec \in [Runs -> ExecRecord]
      /\ moves \in [Stories -> Nat]
  BY DEF TypeOK, RunRecord, ExecRecord
<1>a. ASSUME UNCHANGED <<moves, exec>>,
             \A q \in Runs : /\ run'[q].move = run[q].move /\ run'[q].by = run[q].by
                             /\ run[q].at \in {"absorbed", "late"} => run'[q].at = run[q].at
      PROVE  MovesWereMade' /\ BehindItsOwn' /\ EndsSomehow'
  <2>1. \A q \in Runs : run'[q].at \notin {"absorbed", "late"} => run[q].at \notin {"absorbed", "late"}
    BY <1>a
  <2> QED BY <1>a, <2>1 DEF MovesWereMade, BehindItsOwn, EndsSomehow
<1>1. ASSUME NEW s \in Stories, People(s) PROVE MovesWereMade' /\ BehindItsOwn' /\ EndsSomehow'
  <2>1. CASE MoveIn(s)
    <3>1. \A r \in Runs : moves[StoryOf(r)] <= moves'[StoryOf(r)] /\ moves'[StoryOf(r)] \in Nat
                          /\ run[r].move \in Nat /\ moves[StoryOf(r)] \in Nat
      BY <2>1, <1>t, RunsAre DEF MoveIn, RunRecord
    <3>2. MovesWereMade'
      BY <2>1, <3>1 DEF MoveIn, MovesWereMade
    <3> QED BY <2>1, <3>2 DEF MoveIn, BehindItsOwn, EndsSomehow
  <2> QED BY <1>1, <2>1 DEF People, MoveOut, MovesWereMade, BehindItsOwn, EndsSomehow
<1>2. ASSUME NEW r \in Runs, Arrive(r) PROVE MovesWereMade' /\ BehindItsOwn' /\ EndsSomehow'
  <2>1. /\ \A q \in Runs \ {r} : run'[q] = run[q]
        /\ run[r].at = "idle" /\ run'[r].by = run[r].by
        /\ run'[r].move \in 1..moves[StoryOf(r)] /\ UNCHANGED <<moves, exec>>
    BY <1>2, ArriveType DEF Arrive
  <2>2. run'[r].move <= moves[StoryOf(r)]
    BY <2>1, <1>t, RunsAre
  <2>3. MovesWereMade'
    BY <2>1, <2>2 DEF MovesWereMade
  <2>4. BehindItsOwn'
    <3>1. run[r].by = r
      BY <2>1 DEF BehindItsOwn
    <3> QED BY <2>1, <3>1 DEF BehindItsOwn
  <2> QED BY <2>1, <2>3, <2>4 DEF EndsSomehow
<1>3. ASSUME NEW r \in Runs, Goes(r, "client") \/ Goes(r, "comment") \/ Goes(r, "start")
               \/ Goes(r, "move") \/ Goes(r, "handed") \/ Goes(r, "stuck") \/ Goes(r, "started"),
             run[r].at \notin {"absorbed", "late"}
      PROVE  \A q \in Runs : /\ run'[q].move = run[q].move /\ run'[q].by = run[q].by
                             /\ run[q].at \in {"absorbed", "late"} => run'[q].at = run[q].at
  BY <1>3, GoesType DEF Stages, InFlight
<1>4. ASSUME NEW r \in Runs, ReadContext(r) \/ GetClient(r) \/ Comment(r) \/ HandBack(r)
      PROVE  MovesWereMade' /\ BehindItsOwn' /\ EndsSomehow'
  <2>1. /\ UNCHANGED <<moves, exec>> /\ run[r].at \notin {"absorbed", "late"}
        /\ \/ UNCHANGED run
           \/ Goes(r, "client") \/ Goes(r, "comment") \/ Goes(r, "start")
           \/ Goes(r, "move") \/ Goes(r, "handed") \/ Goes(r, "stuck")
    BY <1>4 DEF ReadContext, GetClient, Comment, HandBack
  <2> QED BY <1>3, <1>a, <2>1
<1>5. ASSUME NEW r \in Runs, Start(r) PROVE MovesWereMade' /\ BehindItsOwn' /\ EndsSomehow'
  <2>1. run[r].at = "start" /\ UNCHANGED moves
    BY <1>5 DEF Start
  <2>2. CASE Accepted(r)
    <3>1. Goes(r, "started") \/ Goes(r, "comment")
      BY <2>2 DEF Accepted
    <3>2. \A q \in Runs : /\ run'[q].move = run[q].move /\ run'[q].by = run[q].by
                          /\ run[q].at \in {"absorbed", "late"} => run'[q].at = run[q].at
      BY <1>3, <2>1, <3>1
    <3>3. EndsSomehow'
      BY <2>2, AcceptedType DEF EndsSomehow
    <3> QED BY <2>1, <3>2, <3>3 DEF MovesWereMade, BehindItsOwn
  <2>3. CASE AlreadyStarted(r)
    <3>1. PICK e \in OpenOf(StoryOf(r)), stage \in {"late", "absorbed"} :
            run' = [run EXCEPT ![r].by = e, ![r].at = stage] /\ UNCHANGED exec
      BY <2>3 DEF AlreadyStarted
    <3>2. /\ run'[r].at = stage /\ run'[r].move = run[r].move
          /\ \A q \in Runs \ {r} : run'[q] = run[q]
      BY <3>1, <1>t DEF RunRecord
    <3> QED BY <2>1, <3>1, <3>2 DEF MovesWereMade, BehindItsOwn, EndsSomehow
  <2>4. CASE Goes(r, "comment") /\ UNCHANGED exec
    BY <1>3, <1>a, <2>1, <2>4
  <2> QED BY <1>5, <2>2, <2>3, <2>4 DEF Start
<1>6. ASSUME Stops, UNCHANGED <<moves, exec>> PROVE MovesWereMade' /\ BehindItsOwn' /\ EndsSomehow'
  BY <1>6, <1>a, StopsType DEF InFlight
<1>7. ASSUME NEW e \in Runs, Workflow(e) PROVE MovesWereMade' /\ BehindItsOwn' /\ EndsSomehow'
  <2>1. UNCHANGED <<run, moves>>
    BY <1>7 DEF Workflow, Decide, MoveStoryToTodo, Close
  <2>2. EndsSomehow'
    BY <1>7, WorkflowType DEF EndsSomehow, Works
  <2> QED BY <2>1, <2>2 DEF MovesWereMade, BehindItsOwn
<1>8. ASSUME GoDown PROVE MovesWereMade' /\ BehindItsOwn' /\ EndsSomehow'
  BY <1>8, <1>a, GoDownType DEF GoDown
<1>9. ASSUME Connect \/ ComeUp \/ UNCHANGED vars PROVE MovesWereMade' /\ BehindItsOwn' /\ EndsSomehow'
  BY <1>9 DEF Connect, ComeUp, vars, MovesWereMade, BehindItsOwn, EndsSomehow
<1>10. ASSUME NEW r \in Runs, ContextThrows(r) PROVE MovesWereMade' /\ BehindItsOwn' /\ EndsSomehow'
  BY <1>6, <1>10 DEF ContextThrows
<1>11. ASSUME Restart PROVE MovesWereMade' /\ BehindItsOwn' /\ EndsSomehow'
  BY <1>6, <1>11 DEF Restart
<1> QED BY <1>1, <1>2, <1>4, <1>5, <1>7, <1>8, <1>9, <1>10, <1>11 DEF Next, Trigger

LEMMA ExplainedStep == ExplainedInv /\ [Next]_vars => ExplainedInv'
<1> SUFFICES ASSUME ExplainedInv, [Next]_vars PROVE InProgressIsExplained'
  BY TypeStep, RunStep DEF ExplainedInv
<1> SUFFICES ASSUME NEW s \in Stories PROVE Explained(s)'
  <2>1. InProgressIsExplained' <=> (\A s \in Stories : Explained(s))'
    BY ExplainedByStory, PTL
  <2> QED BY <2>1
<1>t. /\ TypeOK /\ run \in [Runs -> RunRecord] /\ exec \in [Runs -> ExecRecord]
      /\ \A r \in Runs : StoryOf(run[r].by) = StoryOf(r) /\ run[r].by \in Runs
  BY DEF ExplainedInv, TypeOK, RunRecord, ExecRecord
<1>s. Explained(s)
  BY ExplainedByStory DEF ExplainedInv
<1>r. \A r \in RunsOf(s) : r \in Runs /\ StoryOf(r) = s /\ StoryOf(run[r].by) = s
  BY <1>t DEF RunsOf
(* Nothing but stages change, and every stage still accounts.              *)
<1>a. ASSUME board'[s] = board[s], moves'[s] = moves[s],
             \A r \in RunsOf(s) : /\ run'[r].move = run[r].move
                                  /\ run[r].at = "idle" <=> run'[r].at = "idle"
                                  /\ Accounts(r) => Accounts(r)'
      PROVE  Explained(s)'
  BY <1>a, <1>r, <1>s, Keeps DEF Hears
<1>b. ASSUME board'[s] = "Todo" PROVE Explained(s)'
  BY <1>b DEF Explained
<1>c. ASSUME board'[s] = board[s], moves'[s] = moves[s], NEW q \in Runs,
             \A r \in Runs : /\ run'[r].move = run[r].move /\ run'[r].by = run[r].by
                             /\ r # q => run'[r].at = run[r].at,
             run[q].at # "idle", run'[q].at # "idle", Accounts(q)', UNCHANGED exec
      PROVE  Explained(s)'
  <2>1. \A r \in RunsOf(s) : Accounts(r) => Accounts(r)'
    BY <1>c, <1>r, AccountsStay
  <2>2. \A r \in RunsOf(s) : run[r].at = "idle" <=> run'[r].at = "idle"
    BY <1>c, <1>r
  <2> QED BY <1>a, <1>c, <1>r, <2>1, <2>2
<1>1. ASSUME NEW x \in Stories, People(x) PROVE Explained(s)'
  <2>1. CASE x # s
    <3>1. board'[s] = board[s] /\ moves'[s] = moves[s] /\ UNCHANGED <<run, exec>>
      BY <1>1, <1>t, <2>1 DEF People, MoveIn, MoveOut, TypeOK
    <3> QED BY <1>a, <1>r, <3>1, AccountsStay
  <2>2. CASE x = s /\ MoveIn(s)
    <3>1. moves'[s] = moves[s] + 1 /\ moves[s] \in Nat /\ UNCHANGED run
      BY <1>t, <2>2 DEF MoveIn, TypeOK
    <3>2. \A r \in RunsOf(s) : run[r].move \in Nat /\ run[r].move <= moves[s]
      BY <1>r, <1>t DEF ExplainedInv, MovesWereMade, RunRecord
    <3>3. \A r \in RunsOf(s) : ~Hears(r)'
      BY <1>r, <3>1, <3>2 DEF Hears
    <3>4. RunsOf(s)' = RunsOf(s)
      BY DEF RunsOf
    <3> QED BY <3>3, <3>4 DEF Explained
  <2>3. CASE x = s /\ MoveOut(s)
    BY <1>b, <1>t, <2>3 DEF MoveOut, TypeOK
  <2> QED BY <1>1, <2>1, <2>2, <2>3 DEF People
<1>2. ASSUME NEW q \in Runs, Arrive(q) PROVE Explained(s)'
  <2>1. /\ \A r \in Runs \ {q} : run'[r] = run[r]
        /\ run[q].at = "idle" /\ run'[q].at = "context"
        /\ UNCHANGED <<board, moves, exec>>
    BY <1>2, <1>t, ArriveType DEF Arrive
  <2>2. Accounts(q)' /\ ~Hears(q)
    BY <2>1 DEF Accounts, InFlight, Hears
  <2>3. \A r \in RunsOf(s) \ {q} : (Hears(r) <=> Hears(r)') /\ (Accounts(r) => Accounts(r)')
    BY <1>r, <2>1, AccountsStay DEF Hears
  <2> QED BY <1>s, <2>1, <2>2, <2>3, Keeps
<1>3. ASSUME NEW q \in Runs, NEW stage \in Stages, Goes(q, stage), run[q].at # "idle",
             board'[s] = board[s], UNCHANGED <<moves, exec>>,
             stage \in InFlight \cup {"cut", "stuck"}
      PROVE  Explained(s)'
  <2>1. /\ \A r \in Runs : /\ run'[r].move = run[r].move /\ run'[r].by = run[r].by
                           /\ r # q => run'[r].at = run[r].at
        /\ run'[q].at = stage
    BY <1>3, <1>t, GoesType
  <2>2. Accounts(q)' /\ run'[q].at # "idle"
    BY <1>3, <2>1 DEF Accounts, InFlight
  <2> QED BY <1>c, <1>3, <2>1, <2>2
<1>4. ASSUME NEW q \in Runs, ReadContext(q) \/ GetClient(q) \/ Comment(q) PROVE Explained(s)'
  <2>1. /\ UNCHANGED <<board, moves, exec>> /\ run[q].at # "idle"
        /\ UNCHANGED run \/ Goes(q, "client") \/ Goes(q, "comment") \/ Goes(q, "start") \/ Goes(q, "move")
    BY <1>4 DEF ReadContext, GetClient, Comment
  <2>2. CASE UNCHANGED run
    BY <1>a, <1>r, <2>1, <2>2, AccountsStay
  <2> QED BY <1>3, <2>1, <2>2 DEF Stages, InFlight
<1>5. ASSUME NEW q \in Runs, HandBack(q) PROVE Explained(s)'
  <2>1. UNCHANGED <<moves, exec>> /\ run[q].at = "move"
    BY <1>5 DEF HandBack
  <2>2. CASE Goes(q, "stuck") /\ UNCHANGED board
    BY <1>3, <2>1, <2>2 DEF Stages
  <2>3. CASE Goes(q, "handed") /\ board' = [board EXCEPT ![StoryOf(q)] = "Todo"]
    <3>1. CASE StoryOf(q) = s
      BY <1>b, <1>t, <2>3, <3>1 DEF TypeOK
    <3>2. CASE StoryOf(q) # s
      <4>1. board'[s] = board[s]
        BY <1>t, <2>3, <3>2 DEF TypeOK
      <4>2. \A r \in RunsOf(s) : /\ run'[r].move = run[r].move /\ run'[r].by = run[r].by
                                 /\ run'[r].at = run[r].at
        BY <1>r, <1>t, <2>3, <3>2, GoesType DEF Stages
      <4> QED BY <1>a, <1>r, <2>1, <4>1, <4>2, AccountsStay
    <3> QED BY <3>1, <3>2
  <2> QED BY <1>5, <2>2, <2>3 DEF HandBack
<1>6. ASSUME NEW q \in Runs, Start(q) PROVE Explained(s)'
  <2>1. run[q].at = "start" /\ UNCHANGED <<board, moves>>
    BY <1>6 DEF Start
  <2>2. CASE Accepted(q)
    <3>1. /\ exec'[q].phase = "running" /\ \A e \in Runs \ {q} : exec'[e] = exec[e]
      BY <1>t, <2>2, AcceptedType
    <3>2. PICK stage \in {"started", "comment"} : Goes(q, stage)
      BY <2>2 DEF Accepted
    <3>3. \A r \in Runs : /\ run'[r].move = run[r].move /\ run'[r].by = run[r].by
                          /\ run'[r].at = IF r = q THEN stage ELSE run[r].at
      BY <1>t, <3>2, GoesType DEF Stages, InFlight
    <3>4. run[q].by = q
      BY <2>1 DEF ExplainedInv, BehindItsOwn
    <3>5. Accounts(q)'
      BY <3>1, <3>2, <3>3, <3>4 DEF Accounts, Works, InFlight
    <3>6. \A r \in RunsOf(s) : Accounts(r) => Accounts(r)'
      <4> SUFFICES ASSUME NEW r \in RunsOf(s), Accounts(r), r # q PROVE Accounts(r)'
        BY <3>5
      <4>1. run'[r].at = run[r].at /\ run'[r].by = run[r].by /\ run[r].by \in Runs
        BY <1>r, <1>t, <3>3
      <4>2. CASE run[r].by # q
        BY <1>r, <3>1, <4>1, <4>2, AccountsStay
      <4>3. CASE run[r].by = q
        BY <3>1, <4>1, <4>3 DEF Accounts, Works
      <4> QED BY <4>2, <4>3
    <3>7. \A r \in RunsOf(s) : run[r].at = "idle" <=> run'[r].at = "idle"
      BY <1>r, <2>1, <3>2, <3>3
    <3> QED BY <1>a, <1>r, <2>1, <3>3, <3>6, <3>7
  <2>3. CASE AlreadyStarted(q)
    <3>1. PICK e \in OpenOf(StoryOf(q)) :
            /\ run' = [run EXCEPT ![q].by = e,
                                  ![q].at = IF exec[e].ending = "handed" THEN "late" ELSE "absorbed"]
            /\ UNCHANGED exec
      BY <2>3 DEF AlreadyStarted
    <3>2. /\ run'[q].at = IF exec[e].ending = "handed" THEN "late" ELSE "absorbed"
          /\ run'[q].by = e /\ run'[q].move = run[q].move
          /\ \A r \in Runs \ {q} : run'[r] = run[r]
      BY <3>1, <1>t DEF RunRecord
    <3>3. e \in Runs /\ Open(e)
      BY <3>1 DEF OpenOf, RunsOf
    <3>4. Works(e) \/ exec[e].ending \in {"handed", "unwritten", "merged"}
      BY <1>t, <3>3 DEF ExplainedInv, EndsSomehow, Open, Works, ExecRecord, Endings
    <3>5. Accounts(q)'
      <4>1. CASE exec[e].ending = "handed"
        BY <3>2, <4>1 DEF Accounts
      <4>2. CASE exec[e].ending # "handed"
        BY <3>1, <3>2, <3>4, <4>2 DEF Accounts, Works
      <4> QED BY <4>1, <4>2
    <3>6. \A r \in RunsOf(s) : Accounts(r) => Accounts(r)'
      BY <1>r, <3>1, <3>2, <3>5, AccountsStay
    <3>7. \A r \in RunsOf(s) : /\ run'[r].move = run[r].move
                               /\ run[r].at = "idle" <=> run'[r].at = "idle"
      BY <1>r, <2>1, <3>2
    <3> QED BY <1>a, <1>r, <2>1, <3>6, <3>7
  <2>4. CASE Goes(q, "comment") /\ UNCHANGED exec
    BY <1>3, <2>1, <2>4 DEF Stages, InFlight
  <2> QED BY <1>6, <2>2, <2>3, <2>4 DEF Start
<1>7. ASSUME Stops, UNCHANGED <<board, moves, exec>> PROVE Explained(s)'
  <2>1. \A r \in RunsOf(s) :
          /\ run'[r].move = run[r].move /\ run'[r].by = run[r].by
          /\ run'[r].at = IF run[r].at \in InFlight THEN "cut" ELSE run[r].at
    BY <1>7, <1>r, <1>t, StopsType
  <2>2. \A r \in RunsOf(s) : Accounts(r) => Accounts(r)'
    BY <1>7, <1>r, <2>1, AccountsStay DEF Accounts
  <2>3. \A r \in RunsOf(s) : run[r].at = "idle" <=> run'[r].at = "idle"
    BY <2>1 DEF InFlight
  <2> QED BY <1>a, <1>7, <2>1, <2>2, <2>3
<1>8. ASSUME NEW e \in Runs, Workflow(e) PROVE Explained(s)'
  <2>1. UNCHANGED <<run, moves>>
    BY <1>8 DEF Workflow, Decide, MoveStoryToTodo, Close
  <2>2. \A r \in Runs \ {e} : exec'[r] = exec[r]
    BY <1>8, <1>t, WorkflowType
  <2>3. CASE StoryOf(e) # s
    <3>1. board'[s] = board[s]
      BY <1>8, <1>t, <2>3 DEF Workflow, Decide, MoveStoryToTodo, Close, TypeOK
    <3>2. \A r \in RunsOf(s) : run[r].by \in Runs \ {e}
      BY <1>r, <1>t, <2>3
    <3> QED BY <1>a, <1>r, <2>1, <2>2, <3>1, <3>2, AccountsStay
  <2>4. CASE StoryOf(e) = s /\ board'[s] # "Todo"
    <3>1. board'[s] = board[s]
      BY <1>8, <1>t, <2>4 DEF Workflow, Decide, MoveStoryToTodo, Close, TypeOK
    <3>2. \/ exec' = exec
          \/ Works(e) /\ exec'[e].phase = "handing"
          \/ Works(e) /\ exec'[e].phase = "closing" /\ exec'[e].ending \in {"unwritten", "merged"}
          \/ exec[e].phase = "closing" /\ exec'[e].ending = exec[e].ending
      BY <1>8, <1>t, <2>4, WorkAtTodo
    <3>3. \A r \in RunsOf(s) : Accounts(r) => Accounts(r)'
      <4> SUFFICES ASSUME NEW r \in RunsOf(s), Accounts(r) PROVE Accounts(r)'
        OBVIOUS
      <4>1. CASE run[r].by # e
        BY <1>r, <1>t, <2>1, <2>2, <4>1, AccountsStay
      <4>2. CASE run[r].by = e
        BY <2>1, <3>2, <4>2 DEF Accounts, Works
      <4> QED BY <4>1, <4>2
    <3> QED BY <1>a, <2>1, <3>1, <3>3
  <2>5. CASE board'[s] = "Todo"
    BY <1>b, <2>5
  <2> QED BY <2>3, <2>4, <2>5
<1>9. ASSUME GoDown PROVE Explained(s)'
  <2>1. /\ UNCHANGED <<board, moves, exec>>
        /\ \A r \in RunsOf(s) : /\ run'[r].at = run[r].at /\ run'[r].move = run[r].move
                                /\ run'[r].by = run[r].by
    BY <1>9, <1>r, <1>t, GoDownType DEF GoDown
  <2> QED BY <1>a, <1>r, <2>1, AccountsStay
<1>10. ASSUME Connect \/ ComeUp \/ UNCHANGED vars PROVE Explained(s)'
  <2>1. UNCHANGED <<board, moves, run, exec>>
    BY <1>10 DEF Connect, ComeUp, vars
  <2> QED BY <1>a, <1>r, <2>1, AccountsStay
<1>11. ASSUME NEW q \in Runs, ContextThrows(q) PROVE Explained(s)'
  BY <1>7, <1>11 DEF ContextThrows
<1>12. ASSUME Restart PROVE Explained(s)'
  BY <1>7, <1>12 DEF Restart
<1> QED BY <1>1, <1>2, <1>4, <1>5, <1>6, <1>8, <1>9, <1>10, <1>11, <1>12 DEF Next, Trigger

(* A story shown as In Progress has a reason, or one of the four failures  *)
(* the model names left it there (dispatch-trigger.ts:128-183).            *)
THEOREM InProgressHasAReason == Spec => []InProgressIsExplained
<1>1. ExplainedInv => InProgressIsExplained
  BY DEF ExplainedInv
<1> QED BY <1>1, ExplainedInit, ExplainedStep, PTL DEF Spec
=============================================================================

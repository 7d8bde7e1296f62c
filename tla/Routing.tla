------------------------------ MODULE Routing ------------------------------
(***************************************************************************)
(* Which lane a change in the tracker wakes: parseEvent of                 *)
(* adapters/linear.ts, the team allowlist, and route of                    *)
(* swim-lane-routing.ts over the lanes of swim-lanes.ts.                   *)
(*                                                                         *)
(* People and agents act on the tracker while webhooks of earlier acts are *)
(* on their way; these are handled in any order.  A handler reads what may *)
(* have changed in one await only, the context of a comment, so it is one  *)
(* step here; WebhookListener has its awaits, redelivery and timers.       *)
(***************************************************************************)
EXTENDS Naturals, Sequences, FiniteSetsExt

CONSTANTS
  Entities,   \* projects and issues
  TypeOf,     \* "project" or "issue"
  TeamsOf,    \* the tracker's teams of an entity
  Allowed,    \* TRACKER_ALLOWED_TEAM_IDS
  Statuses,   \* the statuses in use, of issues and of projects
  Labels,     \* the labels in use, likewise
  Replies,    \* how a lookup in Linear may end: "found", "part", "refused", "throws"
  MaxActs     \* bound: acts on the tracker

ASSUME RoutingAssumption ==
  /\ TypeOf \in [Entities -> {"project", "issue"}]
  /\ DOMAIN Statuses = {"project", "issue"} /\ DOMAIN Labels = {"project", "issue"}
  /\ Labels["issue"] \cap {"surface_api", "surface_web"} # {}
  /\ Replies \subseteq {"found", "part", "refused", "throws"} /\ MaxActs \in Nat

VARIABLES
  state,     \* each entity's status and labels
  hooks,     \* the webhook of every act, oldest first
  results    \* what became of those handled: [hook, at, reply, woke]

routingVars == <<state, hooks, results>>

-----------------------------------------------------------------------------
(* The lanes.  A prefix of label names is the set of labels that have it,  *)
(* and no labels where a lane does not ask for any.                        *)
SpecLabels == Labels["issue"] \cap {"spec_awaiting_architect", "spec_awaiting_designer",
                                    "spec_awaiting_answers", "spec_resolved"}
SurfaceLabels == Labels["issue"] \cap {"surface_api", "surface_web"}

Lanes == <<
  [name |-> "intake", entityType |-> "project",
   on |-> "label_added", status |-> "Backlog", label |-> {"ready_for_intake"},
   awaiting |-> {"ready_for_intake"}],
  [name |-> "specification", entityType |-> "issue",
   on |-> "status_changed", status |-> "Evaluation", absent |-> SpecLabels, present |-> {},
   awaiting |-> SpecLabels \ {"spec_resolved"}],
  [name |-> "specialist_dispatch", entityType |-> "issue",
   on |-> "status_changed", status |-> "In_Progress", absent |-> {}, present |-> SurfaceLabels,
   awaiting |-> {}]>>

-----------------------------------------------------------------------------
(* What the handler makes of a webhook: an event, or none.                 *)
Event(h, kind, status, names, added) ==
  [kind |-> kind, entity |-> h.entity, status |-> status, labels |-> names,
   added |-> added, author |-> h.author]

(* resolveLabelNames, the names it may find: a refused request finds none, *)
(* and an answer may leave labels out, which the handler then drops.       *)
NamesFound(h, reply) ==
  {names \in SUBSET h.labels :
     CASE reply = "found" -> names = h.labels
       [] reply = "part" -> names # h.labels
       [] OTHER -> names = {}}

(* One event for an update: of its labels if updatedFrom has them, of its  *)
(* status only otherwise.                                                  *)
AddedIds(h) == h.labels \ h.from.labels
ParseUpdate(h, names) ==
  IF h.from.labels # h.labels
  THEN IF AddedIds(h) \cap names = {} THEN {}
       ELSE {Event(h, "label_added", h.status, names, AddedIds(h) \cap names)}
  ELSE IF h.from.status # h.status THEN {Event(h, "status_changed", h.status, names, {})}
  ELSE {}

ParseCreate(h, names) ==
  {Event(h, IF names = {} THEN "status_changed" ELSE "label_added", h.status, names, names)}

(* A comment, or a project's update: fetchEntityContext has its entity as  *)
(* it is now.                                                              *)
ParseComment(h, reply) ==
  IF reply = "found"
  THEN {Event(h, "comment_added", state[h.entity].status, state[h.entity].labels, {})}
  ELSE {}

ParseEvent(h, reply, names) ==
  IF reply = "throws" THEN {}
  ELSE IF h.action = "comment" THEN ParseComment(h, reply)
  ELSE IF h.action = "create" THEN ParseCreate(h, names)
  ELSE ParseUpdate(h, names)

(* checkTeamAllowlist: all of the entity's teams are allowed.              *)
TeamAllowed(x) == TeamsOf[x] # {} /\ TeamsOf[x] \subseteq Allowed

(* route: the first lane whose trigger, or awaited reply, the event is.    *)
Triggers_Unread(lane, e) ==
  /\ lane.on = e.kind /\ lane.status = e.status
  /\ \/ e.kind = "label_added" /\ lane.label \cap e.added # {}
     \/ /\ e.kind = "status_changed"
        /\ lane.absent \cap e.labels = {}
        /\ lane.present # {} => e.labels = {} \/ lane.present \cap e.labels # {}
Triggers_AnyStatus(lane, e) ==
  /\ lane.on = e.kind
  /\ \/ e.kind = "label_added" /\ lane.label \cap e.added # {}
     \/ /\ e.kind = "status_changed"
        /\ lane.absent \cap e.labels = {}
        /\ lane.present # {} => lane.present \cap e.labels # {}
Triggers(lane, e) ==
  /\ lane.on = e.kind /\ lane.status = e.status
  /\ \/ e.kind = "label_added" /\ lane.label \cap e.added # {}
     \/ /\ e.kind = "status_changed"
        /\ lane.absent \cap e.labels = {}
        /\ lane.present # {} => lane.present \cap e.labels # {}
Awaits(lane, e) ==
  /\ e.kind = "comment_added" /\ e.author # "agent"
  /\ lane.status = e.status /\ lane.awaiting \cap e.labels # {}
Matching(e) == {i \in 1..Len(Lanes) :
  Lanes[i].entityType = TypeOf[e.entity] /\ (Triggers(Lanes[i], e) \/ Awaits(Lanes[i], e))}
Route(e) ==
  IF Matching(e) = {} \/ ~TeamAllowed(e.entity) THEN "none" ELSE Lanes[Min(Matching(e))].name

-----------------------------------------------------------------------------
(* The tracker, and the handler.                                           *)
States(x) == [status : Statuses[TypeOf[x]], labels : SUBSET Labels[TypeOf[x]]]
Absent == [status |-> "none", labels |-> {}]
IsHook(h) ==
  /\ h.entity \in Entities /\ h.action \in {"create", "update", "comment"}
  /\ h.author \in {"person", "agent"}
  /\ h.from \in States(h.entity) \cup {Absent}
  /\ [status |-> h.status, labels |-> h.labels] \in States(h.entity)
Results ==
  [hook : 1..MaxActs, at : 1..MaxActs, reply : Replies,
   woke : {"none", "intake", "specification", "specialist_dispatch"}]

RoutingTypeOK ==
  /\ \A x \in Entities : state[x] \in States(x) \cup {Absent}
  /\ Len(hooks) <= MaxActs /\ \A n \in 1..Len(hooks) : IsHook(hooks[n])
  /\ results \subseteq Results
  /\ \A r \in results : r.hook <= r.at /\ r.at <= Len(hooks)
  /\ \A r, q \in results : r.hook = q.hook => r = q

(* The tracker holds at most one entity to begin with; others are created. *)
RoutingInit ==
  /\ \E x \in Entities, now \in (UNION {States(y) : y \in Entities}) \cup {Absent} :
       /\ now \in States(x) \cup {Absent}
       /\ state = [y \in Entities |-> IF y = x THEN now ELSE Absent]
  /\ hooks = <<>>
  /\ results = {}

(* A webhook carries its entity's state after the act, unless it is of a   *)
(* comment: what such a hook has of it here, no definition of the code     *)
(* above reads.                                                            *)
Act(x, action, author, after) ==
  /\ Len(hooks) < MaxActs
  /\ state' = [state EXCEPT ![x] = after]
  /\ hooks' = Append(hooks, [action |-> action, entity |-> x, author |-> author,
                             from |-> state[x], status |-> after.status, labels |-> after.labels])
  /\ UNCHANGED results

Create(x, after) == state[x] = Absent /\ Act(x, "create", "person", after)

(* Labels, status, both at once, or another field: the code asks for the   *)
(* author of a comment only.                                               *)
Update(x, after) == state[x] # Absent /\ Act(x, "update", "person", after)

Comment(x, author) ==
  /\ state[x] # Absent
  /\ Act(x, "comment", author, state[x])

Handled == {r.hook : r \in results}
Handle_Again(n, reply, names) ==
  /\ n \in 1..Len(hooks) /\ names \in NamesFound(hooks[n], reply)
  /\ LET events == ParseEvent(hooks[n], reply, names)
         woke == IF events = {} THEN "none" ELSE Route(CHOOSE e \in events : TRUE)
     IN  results' = results \cup {[hook |-> n, at |-> Len(hooks), reply |-> reply, woke |-> woke]}
  /\ UNCHANGED <<state, hooks>>
Handle(n, reply, names) ==
  /\ n \in 1..Len(hooks) \ Handled /\ names \in NamesFound(hooks[n], reply)
  /\ LET events == ParseEvent(hooks[n], reply, names)
         woke == IF events = {} THEN "none" ELSE Route(CHOOSE e \in events : TRUE)
     IN  results' = results \cup {[hook |-> n, at |-> Len(hooks), reply |-> reply, woke |-> woke]}
  /\ UNCHANGED <<state, hooks>>

RoutingNext ==
  \/ \E x \in Entities :
       \/ \E after \in States(x) : Create(x, after) \/ Update(x, after)
       \/ \E author \in {"person", "agent"} : Comment(x, author)
  \/ \E n \in 1..MaxActs, reply \in Replies :
       \E names \in SUBSET (Labels["issue"] \cup Labels["project"]) : Handle(n, reply, names)

RoutingSpec == RoutingInit /\ [][RoutingNext]_routingVars

-----------------------------------------------------------------------------
(* Properties.  What an act means to the lanes is said over the tracker's  *)
(* states before and after it, as the design has it; the code has the      *)
(* webhook only.                                                           *)
Became(h, what) == h.status = what /\ h.from.status # what
Gained(h, label) == label \in h.labels \ h.from.labels

Means(h, lane) ==
  /\ TeamsOf[h.entity] # {} /\ TeamsOf[h.entity] \subseteq Allowed
  /\ \/ /\ lane = "intake" /\ TypeOf[h.entity] = "project" /\ h.status = "Backlog"
        /\ IF h.action = "comment" THEN h.author = "person" /\ "ready_for_intake" \in h.labels
           ELSE Gained(h, "ready_for_intake")
     \/ /\ lane = "specification" /\ TypeOf[h.entity] = "issue" /\ h.status = "Evaluation"
        /\ IF h.action = "comment"
           THEN h.author = "person" /\ h.labels \cap (SpecLabels \ {"spec_resolved"}) # {}
           ELSE Became(h, "Evaluation") /\ h.labels \cap SpecLabels = {}
     \/ /\ lane = "specialist_dispatch" /\ TypeOf[h.entity] = "issue"
        /\ Became(h, "In_Progress") /\ h.labels \cap SurfaceLabels # {}

(* The thread of a comment is as it was when the comment was made.         *)
Fresh(r) ==
  \A m \in r.hook + 1..r.at : hooks[m].entity = hooks[r.hook].entity => hooks[m].action = "comment"

(* Two changes in one webhook: labels added or removed, and a status that  *)
(* a trigger waits for.                                                    *)
Joint(h) ==
  /\ h.action # "comment" /\ h.labels # h.from.labels
  /\ Became(h, h.status) /\ h.status \in {"Evaluation", "In_Progress"}

(* Where the lookups find what they ask for and no comment is overtaken,   *)
(* an act that changes one thing wakes exactly the lane it is meant for:   *)
(* no trigger is missed, none is taken for another, an agent's own comment *)
(* wakes nobody, and no act means two lanes.  An act that changes labels   *)
(* and status together wakes no lane it is not meant for                   *)
(* (swim-lane-routing.ts:1-34, 57-59).                                     *)
RoutedAsMeant ==
  \A r \in results, lane \in {Lanes[i].name : i \in 1..Len(Lanes)} :
    r.reply = "found" /\ Fresh(r) =>
      /\ r.woke = lane => Means(hooks[r.hook], lane)
      /\ Means(hooks[r.hook], lane) => r.woke = lane \/ Joint(hooks[r.hook])

(* A lookup that fails, or that answers for some of the labels only,       *)
(* starts no work that the act does not mean: intake and dispatch wait for *)
(* a label, and a label nobody could read is not there                     *)
(* (adapters/linear.ts:220-229, 298, 336).                                 *)
PresenceFailsClosed ==
  \A r \in results :
    r.reply # "found" /\ r.woke \in {"intake", "specialist_dispatch"} /\ Fresh(r) =>
      Means(hooks[r.hook], r.woke)

(***************************************************************************)
(* What the repository says and the code does not do (README, section 5).  *)
(* The run's configuration refutes each of these when it is added to it.   *)
(***************************************************************************)
(* swim-lane-routing.ts:17-19: Specification's "first touch is an epic     *)
(* entering Evaluation with no spec:* label yet".                          *)
FirstTouchIsFirst ==
  \A r \in results : r.woke = "specification" /\ hooks[r.hook].action # "comment" =>
    hooks[r.hook].labels \cap SpecLabels = {}

(* lanes/specification.ts:2-3: it "wakes when an epic enters Evaluation",  *)
(* and swim-lane-routing.ts:21-23 tells stories from epics by their        *)
(* surface label: no story wakes it.                                       *)
EpicsOnly ==
  \A r \in results : r.woke = "specification" => hooks[r.hook].labels \cap SurfaceLabels = {}

(* swim-lane-routing.ts:13-14: a status trigger "fires when the entity's   *)
(* status changes to a target value".                                      *)
StatusEntryFires ==
  \A r \in results :
    r.reply = "found" /\ Means(hooks[r.hook], "specialist_dispatch") =>
      r.woke = "specialist_dispatch"

(* swim-lane-routing.ts:26-27: a lane follows up on "a human comment while *)
(* any of the lane's awaitingLabels is present".                           *)
RepliesAreHeard ==
  \A r \in results, lane \in {"intake", "specification"} :
    r.reply = "found" /\ hooks[r.hook].action = "comment" /\ Means(hooks[r.hook], lane) =>
      r.woke = lane
=============================================================================

----------------------------- MODULE LaneProofs -----------------------------
(***************************************************************************)
(* Theorems about the lanes of webhook-listener, from the change that      *)
(* wakes one to the verdict on its activation: Routing, for every tracker  *)
(* and number of acts; ActivationRunner, for every set of runs, every      *)
(* limit and with or without a tracker that fails; and McpErrors, for      *)
(* every set of calls a model may make and conversations of any length.    *)
(***************************************************************************)
EXTENDS Routing, ActivationRunner, McpErrors, SequenceTheorems, TLAPS

-----------------------------------------------------------------------------
(* Routing: which lane an act on the tracker wakes.                        *)

(* A webhook carries its entity's state after the act, and the one before  *)
(* it as the kind of act has it.                                           *)
After(h) == [status |-> h.status, labels |-> h.labels]
Acted(h) ==
  /\ h.entity \in Entities /\ After(h) \in States(h.entity)
  /\ \/ h.action = "create" /\ h.from = Absent /\ h.author = "person"
     \/ h.action = "update" /\ h.from \in States(h.entity) /\ h.author = "person"
     \/ h.action = "comment" /\ h.from = After(h) /\ h.author \in {"person", "agent"}

AnyState == (UNION {States(x) : x \in Entities}) \cup {Absent}
Hooks ==
  [action : {"create", "update", "comment"}, entity : Entities, author : {"person", "agent"},
   from : AnyState, status : {now.status : now \in AnyState}, labels : {now.labels : now \in AnyState}]

(* Until its entity is acted on again, other than by a comment, a webhook  *)
(* says how the entity is.                                                 *)
Overtaken(n, last) ==
  \E m \in n + 1..last : hooks[m].entity = hooks[n].entity /\ hooks[m].action # "comment"
Current ==
  \A n \in 1..Len(hooks) :
    Overtaken(n, Len(hooks)) \/ state[hooks[n].entity] = After(hooks[n])

(* What a handler makes of a webhook whose entity is as it says.           *)
OwnEvents(h, reply, names) ==
  IF reply = "throws" THEN {}
  ELSE IF h.action = "comment"
       THEN IF reply = "found" THEN {Event(h, "comment_added", h.status, h.labels, {})} ELSE {}
  ELSE IF h.action = "create" THEN ParseCreate(h, names)
  ELSE ParseUpdate(h, names)
Wakes(events) == IF events = {} THEN "none" ELSE Route(CHOOSE e \in events : TRUE)

WokenInTime ==
  \A r \in results :
    \/ Overtaken(r.hook, r.at)
    \/ \E names \in NamesFound(hooks[r.hook], r.reply) :
         r.woke = Wakes(OwnEvents(hooks[r.hook], r.reply, names))

RoutingInv ==
  /\ RoutingTypeOK /\ state \in [Entities -> AnyState] /\ hooks \in Seq(Hooks)
  /\ \A n \in 1..Len(hooks) : Acted(hooks[n])
  /\ Current /\ WokenInTime

-----------------------------------------------------------------------------
(* What each lane takes from an event.                                     *)
Takes(lane, e) ==
  \/ /\ lane = "intake" /\ TypeOf[e.entity] = "project" /\ e.status = "Backlog"
     /\ \/ e.kind = "label_added" /\ "ready_for_intake" \in e.added
        \/ e.kind = "comment_added" /\ e.author # "agent" /\ "ready_for_intake" \in e.labels
  \/ /\ lane = "specification" /\ TypeOf[e.entity] = "issue" /\ e.status = "Evaluation"
     /\ \/ e.kind = "status_changed" /\ e.labels \cap SpecLabels = {}
        \/ /\ e.kind = "comment_added" /\ e.author # "agent"
           /\ e.labels \cap (SpecLabels \ {"spec_resolved"}) # {}
  \/ /\ lane = "specialist_dispatch" /\ TypeOf[e.entity] = "issue" /\ e.status = "In_Progress"
     /\ e.kind = "status_changed" /\ e.labels \cap SurfaceLabels # {}

LaneNames == {"intake", "specification", "specialist_dispatch"}

LEMMA LanesAre ==
  /\ Len(Lanes) = 3 /\ Lanes[1].name = "intake" /\ Lanes[2].name = "specification"
  /\ Lanes[3].name = "specialist_dispatch"
  BY DEF Lanes

LEMMA MatchingIs ==
  ASSUME NEW e
  PROVE  Matching(e) = {i \in 1..3 : Takes(Lanes[i].name, e)}
<1>1. SurfaceLabels # {}
  BY RoutingAssumption DEF RoutingAssumption, SurfaceLabels
<1>2. ASSUME Triggers(Lanes[1], e) \/ Awaits(Lanes[1], e), Lanes[1].entityType = TypeOf[e.entity]
      PROVE  Takes("intake", e)
  BY <1>2 DEF Lanes, Triggers, Awaits, Takes
<1>3. ASSUME Takes("intake", e)
      PROVE  Triggers(Lanes[1], e) \/ Awaits(Lanes[1], e)
  BY <1>3 DEF Lanes, Triggers, Awaits, Takes
<1>4. ASSUME Triggers(Lanes[2], e) \/ Awaits(Lanes[2], e), Lanes[2].entityType = TypeOf[e.entity]
      PROVE  Takes("specification", e)
  BY <1>4 DEF Lanes, Triggers, Awaits, Takes
<1>5. ASSUME Takes("specification", e)
      PROVE  Triggers(Lanes[2], e) \/ Awaits(Lanes[2], e)
  BY <1>5 DEF Lanes, Triggers, Awaits, Takes
<1>6. ASSUME Triggers(Lanes[3], e) \/ Awaits(Lanes[3], e), Lanes[3].entityType = TypeOf[e.entity]
      PROVE  Takes("specialist_dispatch", e)
  BY <1>1, <1>6 DEF Lanes, Triggers, Awaits, Takes
<1>7. ASSUME Takes("specialist_dispatch", e)
      PROVE  Triggers(Lanes[3], e) \/ Awaits(Lanes[3], e)
  BY <1>7 DEF Lanes, Triggers, Awaits, Takes
<1>8. \A i \in 1..3 : Takes(Lanes[i].name, e) => Lanes[i].entityType = TypeOf[e.entity]
  BY DEF Lanes, Takes
<1>9. \A i \in 1..3 : i = 1 \/ i = 2 \/ i = 3
  OBVIOUS
<1>. QED
  BY <1>2, <1>3, <1>4, <1>5, <1>6, <1>7, <1>8, <1>9, LanesAre DEF Matching

(* No event is for two lanes, so the first that matches is the one.        *)
LEMMA RouteIs ==
  ASSUME NEW e
  PROVE  /\ Route(e) \in LaneNames \cup {"none"}
         /\ \A lane \in LaneNames :
              Route(e) = lane <=> TeamAllowed(e.entity) /\ Takes(lane, e)
<1>1. \A lane, other \in LaneNames : Takes(lane, e) /\ Takes(other, e) => lane = other
  BY DEF Takes, LaneNames
<1>2. CASE ~TeamAllowed(e.entity)
  BY <1>2 DEF Route, LaneNames
<1>3. CASE \A lane \in LaneNames : ~Takes(lane, e)
  <2>1. Matching(e) = {}
    <3>1. \A i \in 1..3 : Lanes[i].name \in LaneNames
      BY LanesAre DEF LaneNames
    <3>. QED
      BY <1>3, <3>1, MatchingIs
  <2>. QED
    BY <1>3, <2>1 DEF Route, LaneNames
<1>4. ASSUME TeamAllowed(e.entity), NEW lane \in LaneNames, Takes(lane, e)
      PROVE  Route(e) = lane
  <2>1. PICK i \in 1..3 : Lanes[i].name = lane
    BY LanesAre DEF LaneNames
  <2>2. \A j \in 1..3 : Takes(Lanes[j].name, e) => j = i
    <3>1. \A j \in 1..3 : j # i => Lanes[j].name \in LaneNames /\ Lanes[j].name # lane
      BY <2>1, LanesAre DEF LaneNames
    <3>. QED
      BY <1>1, <1>4, <3>1
  <2>3. Matching(e) = {i}
    BY <1>4, <2>1, <2>2, MatchingIs
  <2>4. Min({i}) = i
    BY DEF Min
  <2>. QED
    BY <1>4, <2>1, <2>3, <2>4 DEF Route
<1>. QED
  BY <1>1, <1>2, <1>3, <1>4 DEF LaneNames

-----------------------------------------------------------------------------
(* What an act means to a lane is what the lane takes from its webhook.    *)
Does(lane, h, kind, names, added) ==
  TeamAllowed(h.entity) /\ Takes(lane, Event(h, kind, h.status, names, added))

LEMMA DoesLabel ==
  ASSUME NEW lane, NEW h, NEW names, NEW added
  PROVE  Does(lane, h, "label_added", names, added) <=>
           /\ TeamAllowed(h.entity) /\ lane = "intake" /\ TypeOf[h.entity] = "project"
           /\ h.status = "Backlog" /\ "ready_for_intake" \in added
  BY DEF Does, Takes, Event

LEMMA DoesStatus ==
  ASSUME NEW lane, NEW h, NEW names
  PROVE  Does(lane, h, "status_changed", names, {}) <=>
           /\ TeamAllowed(h.entity) /\ TypeOf[h.entity] = "issue"
           /\ \/ lane = "specification" /\ h.status = "Evaluation" /\ names \cap SpecLabels = {}
              \/ /\ lane = "specialist_dispatch" /\ h.status = "In_Progress"
                 /\ names \cap SurfaceLabels # {}
  BY DEF Does, Takes, Event

LEMMA DoesComment ==
  ASSUME NEW lane, NEW h, NEW names
  PROVE  Does(lane, h, "comment_added", names, {}) <=>
           /\ TeamAllowed(h.entity) /\ h.author # "agent"
           /\ \/ /\ lane = "intake" /\ TypeOf[h.entity] = "project" /\ h.status = "Backlog"
                 /\ "ready_for_intake" \in names
              \/ /\ lane = "specification" /\ TypeOf[h.entity] = "issue"
                 /\ h.status = "Evaluation" /\ names \cap (SpecLabels \ {"spec_resolved"}) # {}
  BY DEF Does, Takes, Event

(* What makes the events of a webhook wake a lane, whose names were found. *)
WokenBy(lane, h, reply, found) ==
  \/ /\ h.action = "comment" /\ reply = "found"
     /\ Does(lane, h, "comment_added", h.labels, {})
  \/ /\ h.action = "create" /\ found = {}
     /\ Does(lane, h, "status_changed", {}, {})
  \/ /\ h.action = "create" /\ found # {}
     /\ Does(lane, h, "label_added", found, found)
  \/ /\ h.action = "update" /\ h.from.labels # h.labels
     /\ AddedIds(h) \cap found # {}
     /\ Does(lane, h, "label_added", found, AddedIds(h) \cap found)
  \/ /\ h.action = "update" /\ h.from.labels = h.labels
     /\ h.from.status # h.status
     /\ Does(lane, h, "status_changed", found, {})

LEMMA WakesAre ==
  ASSUME NEW h, Acted(h), NEW reply, NEW found, NEW lane \in LaneNames
  PROVE  /\ Wakes(OwnEvents(h, reply, found)) \in LaneNames \cup {"none"}
         /\ Wakes(OwnEvents(h, reply, found)) = lane <=>
              reply # "throws" /\ WokenBy(lane, h, reply, found)
<1>1. /\ Wakes({}) = "none" /\ \A e : Wakes({e}) = Route(e)
  <2>1. \A e : (CHOOSE x \in {e} : TRUE) = e
    OBVIOUS
  <2>. QED
    BY <2>1 DEF Wakes
<1>2. "none" \notin LaneNames
  BY DEF LaneNames
<1>3. \A kind, names, added : Event(h, kind, h.status, names, added).entity = h.entity
  BY DEF Event
<1>4. \A kind, names, added :
        LET e == Event(h, kind, h.status, names, added)
        IN  /\ Wakes({e}) \in LaneNames \cup {"none"}
            /\ Wakes({e}) = lane <=> Does(lane, h, kind, names, added)
  BY <1>1, <1>3, RouteIs DEF Does
<1>5. h.action \in {"create", "update", "comment"}
  BY DEF Acted
<1>6. CASE reply = "throws"
  BY <1>1, <1>2, <1>6 DEF OwnEvents
<1>7. CASE reply # "throws" /\ h.action = "comment"
  BY <1>1, <1>2, <1>4, <1>7 DEF OwnEvents, WokenBy
<1>8. CASE reply # "throws" /\ h.action = "create"
  BY <1>1, <1>2, <1>4, <1>8 DEF OwnEvents, ParseCreate, WokenBy
<1>9. CASE reply # "throws" /\ h.action = "update"
  BY <1>1, <1>2, <1>4, <1>9 DEF OwnEvents, ParseUpdate, WokenBy
<1>. QED
  BY <1>5, <1>6, <1>7, <1>8, <1>9

(* An answer that found what it asked for: the act is taken as it is       *)
(* meant, unless it changed labels and status together.                    *)
LEMMA FoundIsMeant ==
  ASSUME NEW h, Acted(h), NEW lane \in LaneNames
  PROVE  LET woke == Wakes(OwnEvents(h, "found", h.labels))
         IN  /\ woke = lane => Means(h, lane)
             /\ Means(h, lane) => woke = lane \/ Joint(h)
<1>. DEFINE woke == Wakes(OwnEvents(h, "found", h.labels))
            added == AddedIds(h) \cap h.labels
<1>1. "found" # "throws"
  OBVIOUS
<1>2. woke = lane <=>
        \/ h.action = "comment" /\ Does(lane, h, "comment_added", h.labels, {})
        \/ h.action = "create" /\ h.labels = {} /\ Does(lane, h, "status_changed", {}, {})
        \/ /\ h.action = "create" /\ h.labels # {}
           /\ Does(lane, h, "label_added", h.labels, h.labels)
        \/ /\ h.action = "update" /\ h.from.labels # h.labels /\ added # {}
           /\ Does(lane, h, "label_added", h.labels, added)
        \/ /\ h.action = "update" /\ h.from.labels = h.labels /\ h.from.status # h.status
           /\ Does(lane, h, "status_changed", h.labels, {})
  <2>1. woke = lane <=> WokenBy(lane, h, "found", h.labels)
    BY <1>1, WakesAre
  <2>. HIDE DEF woke
  <2>. QED
    BY <2>1 DEF WokenBy
<1>3. \A label : label \in added <=> Gained(h, label)
  BY DEF Gained, AddedIds
<1>. SUFFICES (woke = lane => Means(h, lane)) /\ (Means(h, lane) => woke = lane \/ Joint(h))
  OBVIOUS
<1>. HIDE DEF woke, added
<1>4. TeamAllowed(h.entity) <=> TeamsOf[h.entity] # {} /\ TeamsOf[h.entity] \subseteq Allowed
  BY DEF TeamAllowed
<1>5. CASE h.action = "comment"
  <2>1. h.author \in {"person", "agent"} /\ h.from.status = h.status
    BY <1>5 DEF Acted, After
  <2>2. woke = lane <=> Does(lane, h, "comment_added", h.labels, {})
    BY <1>2, <1>5
  <2>. QED
    BY <1>4, <1>5, <2>1, <2>2, DoesComment DEF Means, Became
<1>6. CASE h.action = "create"
  <2>1. h.from.labels = {} /\ h.from.status = "none"
    BY <1>6 DEF Acted, Absent
  <2>2. \A label : Gained(h, label) <=> label \in h.labels
    BY <2>1 DEF Gained
  <2>3. CASE h.labels = {}
    <3>1. woke = lane <=> Does(lane, h, "status_changed", {}, {})
      BY <1>2, <1>6, <2>3
    <3>. QED
      BY <1>4, <1>6, <2>1, <2>2, <2>3, <3>1, DoesStatus DEF Means, Became
  <2>4. CASE h.labels # {}
    <3>1. woke = lane <=> Does(lane, h, "label_added", h.labels, h.labels)
      BY <1>2, <1>6, <2>4
    <3>. QED
      BY <1>4, <1>6, <2>1, <2>2, <2>4, <3>1, DoesLabel DEF Means, Became, Joint
  <2>. QED
    BY <2>3, <2>4
<1>7. CASE h.action = "update"
  <2>1. CASE h.from.labels = h.labels
    <3>1. woke = lane <=> h.from.status # h.status /\ Does(lane, h, "status_changed", h.labels, {})
      BY <1>2, <1>7, <2>1
    <3>2. \A label : ~Gained(h, label)
      BY <2>1 DEF Gained
    <3>. QED
      BY <1>4, <1>7, <2>1, <3>1, <3>2, DoesStatus DEF Means, Became
  <2>2. CASE h.from.labels # h.labels
    <3>1. woke = lane <=> added # {} /\ Does(lane, h, "label_added", h.labels, added)
      BY <1>2, <1>7, <2>2
    <3>. QED
      BY <1>3, <1>4, <1>7, <2>2, <3>1, DoesLabel DEF Means, Became, Joint
  <2>. QED
    BY <2>1, <2>2
<1>. QED
  BY <1>5, <1>6, <1>7 DEF Acted

(* An answer of any kind: what waits for a label is not woken without one. *)
LEMMA AnyReplyIsMeant ==
  ASSUME NEW h, Acted(h), NEW reply \in {"part", "refused", "throws"},
         NEW names \in NamesFound(h, reply), NEW lane \in {"intake", "specialist_dispatch"},
         Wakes(OwnEvents(h, reply, names)) = lane
  PROVE  Means(h, lane)
<1>1. /\ lane \in LaneNames /\ reply # "found"
      /\ TeamAllowed(h.entity) <=> TeamsOf[h.entity] # {} /\ TeamsOf[h.entity] \subseteq Allowed
  BY DEF LaneNames, TeamAllowed
<1>2. names \subseteq h.labels
  BY DEF NamesFound
<1>3. \A label : label \in AddedIds(h) <=> Gained(h, label)
  BY DEF Gained, AddedIds
<1>4. \/ h.action = "create" /\ names = {} /\ Does(lane, h, "status_changed", {}, {})
      \/ h.action = "create" /\ Does(lane, h, "label_added", names, names)
      \/ h.action = "update" /\ Does(lane, h, "label_added", names, AddedIds(h) \cap names)
      \/ /\ h.action = "update" /\ h.from.labels = h.labels /\ h.from.status # h.status
         /\ Does(lane, h, "status_changed", names, {})
  <2>1. WokenBy(lane, h, reply, names)
    BY <1>1, WakesAre
  <2>. QED
    BY <1>1, <2>1 DEF WokenBy
<1>5. CASE h.action = "create" /\ names = {} /\ Does(lane, h, "status_changed", {}, {})
  BY <1>5, DoesStatus
<1>6. CASE h.action = "create" /\ Does(lane, h, "label_added", names, names)
  <2>1. h.from.labels = {} /\ h.action # "comment"
    BY <1>6 DEF Acted, Absent
  <2>. QED
    BY <1>1, <1>2, <1>6, <2>1, DoesLabel DEF Means, Gained
<1>7. CASE h.action = "update" /\ Does(lane, h, "label_added", names, AddedIds(h) \cap names)
  BY <1>1, <1>3, <1>7, DoesLabel DEF Means
<1>8. CASE /\ h.action = "update" /\ h.from.labels = h.labels /\ h.from.status # h.status
           /\ Does(lane, h, "status_changed", names, {})
  BY <1>1, <1>2, <1>8, DoesStatus DEF Means, Became
<1>. QED
  BY <1>4, <1>5, <1>6, <1>7, <1>8

-----------------------------------------------------------------------------
LEMMA StatesAreRecords ==
  ASSUME NEW x, NEW now \in States(x) \cup {Absent}
  PROVE  now = [status |-> now.status, labels |-> now.labels]
  BY DEF States, Absent

LEMMA AnyStateHas ==
  Absent \in AnyState /\ \A x \in Entities : States(x) \cup {Absent} \subseteq AnyState
  BY DEF AnyState

LEMMA RoutingStarts == RoutingInit => RoutingInv
<1>. SUFFICES ASSUME RoutingInit PROVE RoutingInv
  OBVIOUS
<1>1. PICK x \in Entities, now \in AnyState :
        /\ now \in States(x) \cup {Absent}
        /\ state = [y \in Entities |-> IF y = x THEN now ELSE Absent]
  BY DEF RoutingInit, AnyState
<1>2. \A y \in Entities : state[y] \in States(y) \cup {Absent}
  BY <1>1
<1>3. state \in [Entities -> AnyState]
  BY <1>1, AnyStateHas
<1>4. hooks = <<>> /\ results = {} /\ Len(hooks) = 0 /\ hooks \in Seq(Hooks)
  <2>. HIDE DEF Hooks
  <2>. QED
    BY EmptySeq DEF RoutingInit
<1>5. 1..Len(hooks) = {} /\ Len(hooks) <= MaxActs
  BY <1>4, RoutingAssumption DEF RoutingAssumption
<1>6. RoutingTypeOK
  BY <1>2, <1>4, <1>5 DEF RoutingTypeOK
<1>. QED
  BY <1>3, <1>4, <1>5, <1>6 DEF RoutingInv, Current, WokenInTime

(* An act on the tracker, of any kind.                                     *)
LEMMA ActStep ==
  ASSUME RoutingInv, NEW x \in Entities, NEW action, NEW author, NEW after \in States(x),
         Act(x, action, author, after),
         \/ action = "create" /\ state[x] = Absent /\ author = "person"
         \/ action = "update" /\ state[x] # Absent /\ author = "person"
         \/ action = "comment" /\ state[x] = after /\ author \in {"person", "agent"}
  PROVE  RoutingInv'
<1>. DEFINE n == Len(hooks)
            h == [action |-> action, entity |-> x, author |-> author,
                  from |-> state[x], status |-> after.status, labels |-> after.labels]
<1>1. /\ n \in Nat /\ n < MaxActs /\ MaxActs \in Nat
      /\ state' = [state EXCEPT ![x] = after] /\ hooks' = Append(hooks, h)
      /\ results' = results /\ DOMAIN state = Entities
  BY RoutingAssumption, LenProperties DEF Act, RoutingInv, RoutingAssumption
<1>3. state[x] \in States(x) \cup {Absent}
  BY DEF RoutingInv, RoutingTypeOK
<1>4. after = After(h)
  BY StatesAreRecords DEF After
<1>5. Acted(h)
  BY <1>3, <1>4 DEF Acted
<1>6. h \in Hooks
  <2>1. after \in AnyState /\ state[x] \in AnyState
    BY <1>3, AnyStateHas
  <2>2. after.status \in {now.status : now \in AnyState}
        /\ after.labels \in {now.labels : now \in AnyState}
    BY <2>1
  <2>. QED
    BY <2>1, <2>2 DEF Hooks
<1>7. IsHook(h)
  BY <1>3, <1>4, <1>5 DEF IsHook, Acted, After
<1>. HIDE DEF h
<1>8. /\ hooks' \in Seq(Hooks) /\ Len(hooks') = n + 1 /\ hooks'[n + 1] = h
      /\ \A m \in 1..n : hooks'[m] = hooks[m]
  <2>. HIDE DEF Hooks
  <2>. QED
    BY <1>1, <1>6, AppendProperties DEF RoutingInv
<1>. HIDE DEF n
<1>9. /\ \A y \in Entities : state'[y] \in States(y) \cup {Absent}
      /\ state' \in [Entities -> AnyState]
      /\ state'[x] = after /\ \A y \in Entities : y # x => state'[y] = state[y]
  <2>1. \A y \in Entities : state'[y] = IF y = x THEN after ELSE state[y]
    BY <1>1
  <2>2. \A y \in Entities : state'[y] \in States(y) \cup {Absent}
    BY <2>1 DEF RoutingInv, RoutingTypeOK
  <2>3. DOMAIN state' = Entities /\ state' = [y \in Entities |-> state'[y]]
    BY <1>1
  <2>. QED
    BY <1>1, <2>1, <2>2, <2>3, AnyStateHas
<1>10. \A m \in 1..n + 1 : m \in 1..n \/ m = n + 1
  BY <1>1
<1>11. RoutingTypeOK'
  <2>1. \A m \in 1..n + 1 : IsHook(hooks'[m])
    BY <1>7, <1>8, <1>10 DEF RoutingInv, RoutingTypeOK, n
  <2>2. \A r \in results : r.hook <= r.at /\ r.at <= n + 1
    BY <1>1 DEF RoutingInv, RoutingTypeOK, Results, n
  <2>3. /\ results \subseteq Results
        /\ \A r, q \in results : r.hook = q.hook => r = q
    BY DEF RoutingInv, RoutingTypeOK
  <2>4. n + 1 <= MaxActs
    BY <1>1
  <2>. QED
    BY <1>1, <1>8, <1>9, <2>1, <2>2, <2>3, <2>4 DEF RoutingTypeOK, IsHook, States, Results
<1>12. \A m \in 1..n + 1 : Acted(hooks'[m])
  BY <1>5, <1>8, <1>10 DEF RoutingInv, n
<1>13. Current'
  <2>1. SUFFICES ASSUME NEW m \in 1..n + 1,
                        ~\E k \in m + 1..n + 1 : hooks'[k].entity = hooks'[m].entity
                                                /\ hooks'[k].action # "comment"
                 PROVE  state'[hooks'[m].entity] = After(hooks'[m])
    BY <1>8 DEF Current, Overtaken, After
  <2>2. CASE m = n + 1
    <3>1. h.entity = x
      BY DEF h
    <3>. QED
      BY <1>4, <1>8, <1>9, <2>2, <3>1
  <2>3. CASE m \in 1..n
    <3>1. n + 1 \in m + 1..n + 1 /\ \A k \in m + 1..n : k \in m + 1..n + 1 /\ k \in 1..n
      BY <1>1, <2>3
    <3>2. ~(h.entity = hooks[m].entity /\ h.action # "comment")
      BY <1>8, <2>1, <2>3, <3>1
    <3>3. \A k \in m + 1..n : ~(hooks[k].entity = hooks[m].entity /\ hooks[k].action # "comment")
      BY <1>8, <2>1, <2>3, <3>1
    <3>4. state[hooks[m].entity] = After(hooks[m])
      BY <2>3, <3>3 DEF RoutingInv, Current, Overtaken, n
    <3>5. hooks[m].entity \in Entities
      BY <2>3 DEF RoutingInv, Acted, n
    <3>6. hooks[m].entity = x => state[x] = after
      BY <3>2 DEF h
    <3>. QED
      BY <1>8, <1>9, <2>3, <3>4, <3>5, <3>6
  <2>. QED
    BY <1>10, <2>2, <2>3
<1>14. WokenInTime'
  <2>1. SUFFICES ASSUME NEW r \in results, ~Overtaken(r.hook, r.at)'
                 PROVE  \E names \in NamesFound(hooks'[r.hook], r.reply) :
                          r.woke = Wakes(OwnEvents(hooks'[r.hook], r.reply, names))
    BY <1>1 DEF WokenInTime
  <2>2. r.hook \in 1..n /\ r.at \in 1..n
    BY <1>1 DEF RoutingInv, RoutingTypeOK, Results, n
  <2>3. \A m \in r.hook + 1..r.at : m \in 1..n
    BY <1>1, <2>2
  <2>4. ~Overtaken(r.hook, r.at)
    BY <1>8, <2>1, <2>2, <2>3 DEF Overtaken
  <2>. QED
    BY <1>8, <2>2, <2>4 DEF RoutingInv, WokenInTime
<1>. QED
  BY <1>1, <1>8, <1>9, <1>11, <1>12, <1>13, <1>14 DEF RoutingInv, Hooks, AnyState, States

(* A handler reads nothing but its webhook and, for a comment, the entity  *)
(* as it is now.                                                           *)
LEMMA HandleStep ==
  ASSUME RoutingInv, NEW n \in 1..MaxActs, NEW reply \in Replies, NEW names,
         Handle(n, reply, names)
  PROVE  RoutingInv'
<1>. DEFINE events == ParseEvent(hooks[n], reply, names)
            woke == Wakes(events)
            result == [hook |-> n, at |-> Len(hooks), reply |-> reply, woke |-> woke]
            last == Len(hooks)
<1>1. /\ n \in 1..last /\ last \in Nat /\ last <= MaxActs /\ MaxActs \in Nat
      /\ \A r \in results : r.hook # n
      /\ names \in NamesFound(hooks[n], reply)
      /\ results' = results \cup {result} /\ state' = state /\ hooks' = hooks
  BY RoutingAssumption, LenProperties
  DEF Handle, Wakes, RoutingInv, RoutingTypeOK, RoutingAssumption, Handled
<1>2. Acted(hooks[n])
  BY <1>1 DEF RoutingInv
<1>3. woke \in LaneNames \cup {"none"}
  <2>1. \A e : (CHOOSE x \in {e} : TRUE) = e
    OBVIOUS
  <2>2. \A e : Wakes({e}) \in LaneNames \cup {"none"}
    BY <2>1, RouteIs DEF Wakes
  <2>3. Wakes({}) = "none"
    BY DEF Wakes
  <2>4. events = {} \/ \E e : events = {e}
    BY DEF ParseEvent, ParseComment, ParseCreate, ParseUpdate
  <2>. HIDE DEF events
  <2>. QED
    BY <2>2, <2>3, <2>4
<1>4. Overtaken(n, last) \/ woke = Wakes(OwnEvents(hooks[n], reply, names))
  <2>1. SUFFICES ASSUME ~Overtaken(n, last) PROVE events = OwnEvents(hooks[n], reply, names)
    OBVIOUS
  <2>2. state[hooks[n].entity] = After(hooks[n])
    BY <1>1, <2>1 DEF RoutingInv, Current
  <2>3. /\ state[hooks[n].entity].status = hooks[n].status
        /\ state[hooks[n].entity].labels = hooks[n].labels
    BY <2>2 DEF After
  <2>. QED
    BY <2>3 DEF ParseEvent, ParseComment, OwnEvents
<1>. HIDE DEF woke, last
<1>5. RoutingTypeOK'
  <2>1. result \in Results
    BY <1>1, <1>3 DEF Results, LaneNames, last
  <2>2. /\ results' \subseteq Results
        /\ \A r \in results' : r.hook <= r.at /\ r.at <= last
    BY <1>1, <2>1 DEF RoutingInv, RoutingTypeOK, last
  <2>3. \A r, q \in results' : r.hook = q.hook => r = q
    BY <1>1 DEF RoutingInv, RoutingTypeOK
  <2>. QED
    BY <1>1, <2>2, <2>3 DEF RoutingInv, RoutingTypeOK, IsHook, States, Results, last
<1>6. Current'
  BY <1>1 DEF RoutingInv, Current, Overtaken, After
<1>7. WokenInTime'
  <2>. DEFINE InTime(r) ==
         \/ Overtaken(r.hook, r.at)
         \/ \E read \in NamesFound(hooks[r.hook], r.reply) :
              r.woke = Wakes(OwnEvents(hooks[r.hook], r.reply, read))
  <2>1. \A r \in results : InTime(r)
    BY DEF RoutingInv, WokenInTime
  <2>2. result.hook = n /\ result.at = last /\ result.woke = woke /\ result.reply = reply
    BY DEF last
  <2>3. InTime(result)
    <3>. HIDE DEF result
    <3>. QED
      BY <1>1, <1>4, <2>2
  <2>. HIDE DEF result, InTime
  <2>4. \A r \in results' : InTime(r)
    BY <1>1, <2>1, <2>3
  <2>. QED
    BY <1>1, <2>4 DEF InTime, WokenInTime, Overtaken
<1>. QED
  BY <1>1, <1>5, <1>6, <1>7 DEF RoutingInv, Acted, After, Hooks, AnyState, States

LEMMA RoutingStep == RoutingInv /\ [RoutingNext]_routingVars => RoutingInv'
<1>. SUFFICES ASSUME RoutingInv, [RoutingNext]_routingVars PROVE RoutingInv'
  OBVIOUS
<1>1. CASE UNCHANGED routingVars
  BY <1>1 DEF routingVars, RoutingInv, RoutingTypeOK, Current, WokenInTime, Overtaken, Acted,
     After, IsHook, Hooks, AnyState, States, Results
<1>2. ASSUME NEW x \in Entities, NEW after \in States(x), Create(x, after) \/ Update(x, after)
      PROVE  RoutingInv'
  BY <1>2, ActStep DEF Create, Update
<1>3. ASSUME NEW x \in Entities, NEW author \in {"person", "agent"}, Comment(x, author)
      PROVE  RoutingInv'
  <2>1. state[x] \in States(x)
    BY <1>3 DEF Comment, RoutingInv, RoutingTypeOK
  <2>. QED
    BY <1>3, <2>1, ActStep DEF Comment
<1>. QED
  BY <1>1, <1>2, <1>3, HandleStep DEF RoutingNext

LEMMA RoutingHolds == RoutingSpec => []RoutingInv
  BY RoutingStarts, RoutingStep, PTL DEF RoutingSpec

LEMMA FreshIsInTime ==
  ASSUME NEW r PROVE Fresh(r) <=> ~Overtaken(r.hook, r.at)
  BY DEF Fresh, Overtaken

(* The tracker, its webhooks and what became of them keep their types: a   *)
(* webhook is of a change to an entity in a state it may have, and is      *)
(* handled once, after it was sent.                                        *)
THEOREM RoutingTypeCorrect == RoutingSpec => []RoutingTypeOK
<1>1. RoutingInv => RoutingTypeOK
  BY DEF RoutingInv
<1>. QED
  BY <1>1, RoutingHolds, PTL

(* However many acts there are, on any entities of any teams, in whatever  *)
(* order their webhooks are handled: where the lookups find what they ask  *)
(* for and no comment is overtaken, an act that changes one thing wakes    *)
(* exactly the lane it is meant for, and one that changes labels and       *)
(* status together none it is not meant for (adapters/linear.ts:196-300,   *)
(* swim-lane-routing.ts).                                                  *)
THEOREM ActsWakeTheirLane == RoutingSpec => []RoutedAsMeant
<1>1. RoutingInv => RoutedAsMeant
  <2>. SUFFICES ASSUME RoutingInv, NEW r \in results,
                       NEW lane \in {Lanes[i].name : i \in 1..Len(Lanes)},
                       r.reply = "found", Fresh(r)
                PROVE  /\ r.woke = lane => Means(hooks[r.hook], lane)
                       /\ Means(hooks[r.hook], lane) => r.woke = lane \/ Joint(hooks[r.hook])
    BY DEF RoutedAsMeant
  <2>1. lane \in LaneNames
    BY LanesAre DEF LaneNames
  <2>2. Acted(hooks[r.hook])
    BY LenProperties DEF RoutingInv, RoutingTypeOK, Results
  <2>3. r.woke = Wakes(OwnEvents(hooks[r.hook], "found", hooks[r.hook].labels))
    BY FreshIsInTime DEF RoutingInv, WokenInTime, NamesFound
  <2>. QED
    BY <2>1, <2>2, <2>3, FoundIsMeant
<1>. QED
  BY <1>1, RoutingHolds, PTL

(* A lookup that fails, or answers for some of the labels only, starts no  *)
(* work that waits for a label, for any tracker                            *)
(* (adapters/linear.ts:220-229, 298, 336).                                 *)
THEOREM UnreadLabelsWakeNobody == RoutingSpec => []PresenceFailsClosed
<1>1. RoutingInv => PresenceFailsClosed
  <2>. SUFFICES ASSUME RoutingInv, NEW r \in results, r.reply # "found",
                       r.woke \in {"intake", "specialist_dispatch"}, Fresh(r)
                PROVE  Means(hooks[r.hook], r.woke)
    BY DEF PresenceFailsClosed
  <2>1. Acted(hooks[r.hook])
    BY LenProperties DEF RoutingInv, RoutingTypeOK, Results
  <2>2. r.reply \in {"part", "refused", "throws"}
    BY RoutingAssumption DEF RoutingInv, RoutingTypeOK, Results, RoutingAssumption
  <2>3. PICK names \in NamesFound(hooks[r.hook], r.reply) :
          r.woke = Wakes(OwnEvents(hooks[r.hook], r.reply, names))
    BY FreshIsInTime DEF RoutingInv, WokenInTime
  <2>. QED
    BY <2>1, <2>2, <2>3, AnyReplyIsMeant
<1>. QED
  BY <1>1, RoutingHolds, PTL

-----------------------------------------------------------------------------
(* ActivationRunner: one run of a lane.                                    *)

(* Before the model is called nothing counts; after that every call is     *)
(* paid for by a continuation or by a drop.                                *)
BeforeCalls == {"idle", "blocks", "count", "announce"}
Budget(r) == rounds[r] * (MaxStreamRetries + 1) + drops[r] + 1
CallsArePaidFor ==
  \A r \in Runs :
    /\ at[r] \in BeforeCalls => attempt[r] = 0 /\ drops[r] = 0 /\ rounds[r] = 0
    /\ attempt[r] <= Budget(r)

(* The tale of one run: until its call ends nothing is wrong; what was     *)
(* found wrong leads to the place that says so, and nothing was said       *)
(* before; and at its finally it has its verdict, its claim gone if all    *)
(* went well and untouched if not.                                         *)
Ticking == {"call", "incomplete", "calls", "use", "thrown", "finally"}
Verdict(r) ==
  \/ wrong[r] = {} /\ errors[r] = 0 /\ comment[r] # "standing"
  \/ wrong[r] # {} /\ errors[r] = 1 /\ comment[r] \notin {"deleted", "kept"}
Tale(r) ==
  /\ at[r] \in BeforeCalls \cup {"call", "delete"} => wrong[r] = {}
  /\ at[r] \in {"incomplete", "thrown"} => wrong[r] # {}
  /\ at[r] = "calls" => wrong[r] \subseteq InResponse
  /\ at[r] = "use" => wrong[r] \subseteq {"client_call"}
  /\ at[r] \notin {"finally", "over", "cut"} =>
       errors[r] = 0 /\ comment[r] \notin {"deleted", "kept"}
  /\ at[r] \in {"finally", "over"} => Verdict(r)
  /\ timer[r] => at[r] \in Ticking

RunsInv == TypeOK /\ \A r \in Runs : Tale(r)
BudgetInv == TypeOK /\ CallsArePaidFor

Places == Waiting \cup Ended \cup {"idle"}

-----------------------------------------------------------------------------
LEMMA PlacesAre ==
  Places = {"blocks", "count", "announce", "call", "incomplete", "calls", "use", "thrown",
            "delete", "finally", "over", "cut", "idle"}
  BY DEF Places, Waiting, Ended

LEMMA TypeInit == Init => TypeOK
  BY RunnerAssumption DEF RunnerAssumption, Init, TypeOK, Comments, Faults, InResponse

(* What the parts of a step do to what they change.                        *)
LEMMA GoesTo ==
  ASSUME TypeOK, NEW r \in Runs, NEW p \in Places, Goes(r, p)
  PROVE  /\ at' \in [Runs -> Places] /\ at'[r] = p
         /\ \A q \in Runs \ {r} : at'[q] = at[q]
  BY DEF Goes, TypeOK, Places

LEMMA FindsThem ==
  ASSUME TypeOK, NEW r \in Runs, NEW faults \in SUBSET Faults, Finds(r, faults)
  PROVE  /\ wrong' \in [Runs -> SUBSET Faults] /\ wrong'[r] = wrong[r] \cup faults
         /\ \A q \in Runs \ {r} : wrong'[q] = wrong[q]
  BY DEF Finds, TypeOK

LEMMA ThrowsOut ==
  ASSUME TypeOK, NEW r \in Runs, Throws(r)
  PROVE  /\ at' \in [Runs -> Places] /\ at'[r] = "thrown"
         /\ wrong' \in [Runs -> SUBSET Faults] /\ wrong'[r] # {}
         /\ \A q \in Runs \ {r} : at'[q] = at[q] /\ wrong'[q] = wrong[q]
<1>1. "thrown" \in Places /\ {"thrown"} \in SUBSET Faults
  BY PlacesAre DEF Faults
<1> QED BY <1>1, GoesTo, FindsThem DEF Throws

LEMMA Posts ==
  ASSUME TypeOK, NEW r \in Runs, PostErrorComment(r)
  PROVE  /\ errors' \in [Runs -> Nat] /\ errors'[r] = errors[r] + 1
         /\ \A q \in Runs \ {r} : errors'[q] = errors[q]
         /\ UNCHANGED <<comment, timer, shown>>
  BY DEF PostErrorComment, TypeOK

LEMMA TypeStep == TypeOK /\ [Next]_vars => TypeOK'
<1> SUFFICES ASSUME TypeOK, [Next]_vars PROVE TypeOK'
  OBVIOUS
<1>t. /\ at \in [Runs -> Places] /\ MaxStreamRetries \in Nat /\ MaxPauseContinuations \in Nat
      /\ MaxRestarts \in Nat
  BY RunnerAssumption DEF RunnerAssumption, TypeOK, Places
<1>c. ASSUME NEW r \in Runs, CallIsOver(r) PROVE wrote' \in [Runs -> 0..MaxStreamRetries + 1]
  <2>1. 0 \in 0..MaxStreamRetries + 1
    BY <1>t
  <2> QED BY <1>c, <2>1 DEF CallIsOver, TypeOK
<1>1. ASSUME NEW r \in Runs, Start(r) PROVE TypeOK'
  <2>1. at' \in [Runs -> Places]
    BY <1>1, GoesTo, PlacesAre DEF Start
  <2> QED BY <1>1, <2>1 DEF Start, calling, courtesy, TypeOK, Places
<1>2. ASSUME NEW r \in Runs, Assemble(r) \/ CountTokens(r) PROVE TypeOK'
  <2>1. at' \in [Runs -> Places] /\ wrong' \in [Runs -> SUBSET Faults]
    <3>1. Throws(r) \/ \E p \in {"count", "announce"} : Passes(r, p)
      BY <1>2 DEF Assemble, CountTokens
    <3>2. ASSUME NEW p \in {"count", "announce"}, Passes(r, p)
          PROVE  at' \in [Runs -> Places] /\ wrong' \in [Runs -> SUBSET Faults]
      BY <3>2, GoesTo, PlacesAre DEF Passes, TypeOK
    <3> QED BY <3>1, <3>2, ThrowsOut
  <2> QED BY <1>2, <2>1 DEF Assemble, CountTokens, calling, courtesy, TypeOK, Places
<1>3. ASSUME NEW r \in Runs, Announce(r) PROVE TypeOK'
  <2>1. at' \in [Runs -> Places]
    BY <1>3, GoesTo, PlacesAre DEF Announce
  <2>2. comment' \in [Runs -> Comments] /\ timer' \in [Runs -> BOOLEAN]
    <3>1. PICK posted \in Posted :
            /\ comment' = [comment EXCEPT ![r] = posted]
            /\ timer' = [timer EXCEPT ![r] = (posted = "standing")]
      BY <1>3 DEF Announce
    <3>2. posted \in Comments
      BY <3>1 DEF Posted, Comments
    <3>3. (posted = "standing") \in BOOLEAN
      OBVIOUS
    <3>4. comment' \in [Runs -> Comments]
      BY <3>1, <3>2 DEF TypeOK
    <3> QED BY <3>1, <3>3, <3>4 DEF TypeOK
  <2>3. attempt' \in [Runs -> Nat]
    BY <1>3 DEF Announce, TypeOK
  <2> QED BY <1>3, <2>1, <2>2, <2>3 DEF Announce, TypeOK, Places
<1>4. ASSUME NEW r \in Runs, ServerWrites(r) PROVE TypeOK'
  <2>1. wrote[r] + 1 \in 0..MaxStreamRetries + 1
    BY <1>4, <1>t DEF ServerWrites, TypeOK
  <2> QED BY <1>4, <2>1 DEF ServerWrites, courtesy, TypeOK
<1>5. ASSUME NEW r \in Runs, StreamDrops(r) PROVE TypeOK'
  <2>1. CASE drops[r] < MaxStreamRetries
    <3>1. drops[r] + 1 \in 0..MaxStreamRetries /\ attempt[r] + 1 \in Nat
      BY <1>t, <2>1 DEF TypeOK
    <3>2. /\ drops' = [drops EXCEPT ![r] = @ + 1] /\ attempt' = [attempt EXCEPT ![r] = @ + 1]
          /\ UNCHANGED <<at, wrong, wrote, blocks, rounds, courtesy, restarts>>
      BY <1>5, <2>1 DEF StreamDrops
    <3>3. drops' \in [Runs -> 0..MaxStreamRetries] /\ attempt' \in [Runs -> Nat]
      BY <3>1, <3>2 DEF TypeOK
    <3> QED BY <3>2, <3>3 DEF courtesy, TypeOK
  <2>2. CASE ~(drops[r] < MaxStreamRetries)
    <3>1. Throws(r) /\ CallIsOver(r) /\ UNCHANGED <<attempt, drops>>
      BY <1>5, <2>2 DEF StreamDrops
    <3>2. /\ at' \in [Runs -> Places] /\ wrong' \in [Runs -> SUBSET Faults]
          /\ wrote' \in [Runs -> 0..MaxStreamRetries + 1]
      BY <1>c, <3>1, ThrowsOut
    <3> QED BY <1>5, <3>1, <3>2 DEF StreamDrops, courtesy, TypeOK, Places
  <2> QED BY <2>1, <2>2
<1>6. ASSUME NEW r \in Runs, Pauses(r) PROVE TypeOK'
  <2>1. wrote' \in [Runs -> 0..MaxStreamRetries + 1]
    BY <1>6, <1>c DEF Pauses
  <2>2. CASE rounds[r] < MaxPauseContinuations
    <3>1. /\ rounds[r] + 1 \in 0..MaxPauseContinuations /\ attempt[r] + 1 \in Nat
          /\ 0 \in 0..MaxStreamRetries
      BY <1>t, <2>2 DEF TypeOK
    <3>2. /\ rounds' = [rounds EXCEPT ![r] = @ + 1] /\ drops' = [drops EXCEPT ![r] = 0]
          /\ attempt' = [attempt EXCEPT ![r] = @ + 1]
          /\ UNCHANGED <<at, wrong, blocks, courtesy, restarts>>
      BY <1>6, <2>2 DEF Pauses
    <3>3. /\ rounds' \in [Runs -> 0..MaxPauseContinuations]
          /\ drops' \in [Runs -> 0..MaxStreamRetries] /\ attempt' \in [Runs -> Nat]
      BY <3>1, <3>2 DEF TypeOK
    <3> QED BY <2>1, <3>2, <3>3 DEF courtesy, TypeOK
  <2>3. CASE ~(rounds[r] < MaxPauseContinuations)
    <3>1. /\ Goes(r, "incomplete") /\ Finds(r, {"incomplete"})
          /\ UNCHANGED <<attempt, drops, rounds>>
      BY <1>6, <2>3 DEF Pauses
    <3>2. at' \in [Runs -> Places] /\ wrong' \in [Runs -> SUBSET Faults]
      BY <3>1, GoesTo, FindsThem, PlacesAre DEF Faults
    <3> QED BY <1>6, <2>1, <3>1, <3>2 DEF Pauses, courtesy, TypeOK, Places
  <2> QED BY <2>2, <2>3
<1>7. ASSUME NEW r \in Runs, Stops(r) \/ CallThrows(r) PROVE TypeOK'
  <2>1. wrote' \in [Runs -> 0..MaxStreamRetries + 1]
    BY <1>7, <1>c DEF Stops, CallThrows
  <2>2. at' \in [Runs -> Places] /\ wrong' \in [Runs -> SUBSET Faults]
    <3>1. CASE Stops(r)
      BY <3>1, GoesTo, FindsThem, PlacesAre DEF Stops, Faults
    <3> QED BY <1>7, <3>1, ThrowsOut DEF CallThrows
  <2> QED BY <1>7, <2>1, <2>2 DEF Stops, CallThrows, courtesy, TypeOK, Places
<1>8. ASSUME NEW r \in Runs, Concludes(r) PROVE TypeOK'
  <2>1. at' \in [Runs -> Places] /\ UNCHANGED wrong
    <3>1. \E p \in {"use", "delete", "finally", "over"} : Passes(r, p)
      BY <1>8 DEF Concludes, ReportIncomplete, FindMcpError, FindToolUse, DeleteComment,
                  Catch, Finally
    <3> QED BY <3>1, GoesTo, PlacesAre DEF Passes
  <2>2. /\ timer' \in [Runs -> BOOLEAN] /\ errors' \in [Runs -> Nat]
        /\ comment' \in [Runs -> Comments] /\ UNCHANGED <<shown, blocks, calling, restarts>>
    <3>1. CASE DeleteComment(r)
      <4>1. PICK left \in {"deleted", "kept"} : comment' = [comment EXCEPT ![r] = left]
        BY <3>1 DEF DeleteComment
      <4>2. comment' \in [Runs -> Comments]
        BY <4>1 DEF TypeOK, Comments
      <4> QED BY <3>1, <4>2 DEF DeleteComment, TypeOK
    <3>2. CASE Finally(r)
      BY <3>2 DEF Finally, TypeOK
    <3>3. CASE ReportIncomplete(r) \/ FindMcpError(r) \/ Catch(r)
      BY <3>3, Posts DEF ReportIncomplete, FindMcpError, Catch, courtesy, TypeOK
    <3>4. CASE FindToolUse(r)
      BY <3>4, Posts DEF FindToolUse, courtesy, TypeOK
    <3> QED BY <1>8, <3>1, <3>2, <3>3, <3>4 DEF Concludes
  <2> QED BY <2>1, <2>2 DEF calling, TypeOK, Places
<1>9. ASSUME NEW r \in Runs, UpdateActivationProgress(r) PROVE TypeOK'
  BY <1>9 DEF UpdateActivationProgress, calling, TypeOK
<1>10. ASSUME BuildSystemBlocks PROVE TypeOK'
  BY <1>10 DEF BuildSystemBlocks, calling, courtesy, TypeOK
<1>11. ASSUME Restart PROVE TypeOK'
  <2>1. restarts' \in 0..MaxRestarts
    BY <1>11, <1>t DEF Restart, TypeOK
  <2>2. at' \in [Runs -> Places]
    BY <1>11, <1>t, PlacesAre DEF Restart
  <2> QED BY <1>11, <2>1, <2>2 DEF Restart, calling, TypeOK, Places
<1>12. CASE UNCHANGED vars
  BY <1>12 DEF vars, TypeOK
<1> QED BY <1>1, <1>2, <1>3, <1>4, <1>5, <1>6, <1>7, <1>8, <1>9, <1>10, <1>11, <1>12
        DEF Next, Proceeds, CallEnds

(* TypeOK holds throughout (ActivationRunner.tla; the locals of            *)
(* activation-runner.ts:365-381 and the courtesy comments they steer).     *)
THEOREM RunnerTypeCorrect == Spec => []TypeOK
  BY TypeInit, TypeStep, PTL DEF Spec

-----------------------------------------------------------------------------
LEMMA RunsStep == RunsInv /\ [Next]_vars => RunsInv'
<1> DEFINE Told == \A r \in Runs : Tale(r)
<1> SUFFICES ASSUME RunsInv, [Next]_vars PROVE Told'
  BY TypeStep DEF RunsInv
<1>t. /\ TypeOK /\ at \in [Runs -> Places] /\ comment \in [Runs -> Comments]
      /\ timer \in [Runs -> BOOLEAN] /\ errors \in [Runs -> Nat]
  BY DEF RunsInv, TypeOK, Places
<1>i. \A r \in Runs : Tale(r)
  BY DEF RunsInv
(* One run is told of, and the others are as they were.                    *)
<1>a. ASSUME NEW r \in Runs, Tale(r)',
             \A q \in Runs \ {r} : /\ at'[q] = at[q] /\ wrong'[q] = wrong[q]
                                   /\ comment'[q] = comment[q] /\ timer'[q] = timer[q]
                                   /\ errors'[q] = errors[q]
      PROVE  Told'
  <2>1. ASSUME NEW q \in Runs \ {r} PROVE Tale(q)'
    BY <1>a, <1>i, <2>1 DEF Tale, Verdict
  <2> QED BY <1>a, <2>1
<1>b. ASSUME NEW r \in Runs, NEW p \in Places, Passes(r, p)
      PROVE  /\ at'[r] = p /\ wrong' = wrong /\ \A q \in Runs \ {r} : at'[q] = at[q]
  BY <1>b, <1>t, GoesTo DEF Passes
(* A run that throws before it has had its response.                       *)
<1>c. ASSUME NEW r \in Runs, Throws(r), UNCHANGED <<comment, timer, errors>>,
             at[r] \in {"blocks", "count", "call"}
      PROVE  Told'
  <2>1. /\ at'[r] = "thrown" /\ wrong'[r] # {}
        /\ \A q \in Runs \ {r} : at'[q] = at[q] /\ wrong'[q] = wrong[q]
    BY <1>c, <1>t, ThrowsOut
  <2>2. Tale(r)'
    BY <1>c, <1>i, <2>1 DEF Tale, BeforeCalls, Ticking
  <2> QED BY <1>a, <1>c, <2>1, <2>2
<1>1. ASSUME NEW r \in Runs, Start(r) \/ Assemble(r) \/ CountTokens(r) PROVE Told'
  <2>1. /\ at[r] \in {"idle", "blocks", "count"} /\ UNCHANGED <<comment, timer, errors>>
        /\ \/ Throws(r) /\ at[r] # "idle"
           \/ \E p \in {"blocks", "count", "announce"} : Passes(r, p)
    BY <1>1 DEF Start, Assemble, CountTokens, courtesy, Passes
  <2>2. ASSUME NEW p \in {"blocks", "count", "announce"}, Passes(r, p) PROVE Told'
    <3>1. at'[r] = p /\ wrong' = wrong /\ \A q \in Runs \ {r} : at'[q] = at[q]
      BY <1>b, <2>2, PlacesAre
    <3>2. Tale(r)'
      BY <1>i, <2>1, <3>1 DEF Tale, BeforeCalls, Ticking
    <3> QED BY <1>a, <2>1, <3>1, <3>2
  <2> QED BY <1>c, <2>1, <2>2
<1>2. ASSUME NEW r \in Runs, Announce(r) PROVE Told'
  <2>1. at[r] = "announce" /\ Goes(r, "call") /\ UNCHANGED <<errors, wrong>>
    BY <1>2 DEF Announce
  <2>2. /\ comment'[r] \in {"standing", "orphan", "none"}
        /\ \A q \in Runs \ {r} : comment'[q] = comment[q] /\ timer'[q] = timer[q]
    BY <1>2, <1>t DEF Announce, Posted
  <2>3. at'[r] = "call" /\ \A q \in Runs \ {r} : at'[q] = at[q]
    BY <1>t, <2>1, GoesTo, PlacesAre
  <2>4. Tale(r)'
    BY <1>i, <2>1, <2>2, <2>3 DEF Tale, BeforeCalls, Ticking
  <2> QED BY <1>a, <2>1, <2>2, <2>3, <2>4
<1>3. ASSUME NEW r \in Runs, UNCHANGED <<at, wrong, comment, timer, errors>> PROVE Told'
  BY <1>3, <1>i DEF Tale, Verdict
<1>4. ASSUME NEW r \in Runs, StreamDrops(r) \/ CallThrows(r) \/ Pauses(r) PROVE Told'
  <2>1. at[r] = "call" /\ UNCHANGED <<comment, timer, errors>>
    BY <1>4 DEF StreamDrops, CallThrows, Pauses, courtesy
  <2>2. \/ Throws(r) \/ UNCHANGED <<at, wrong>>
        \/ Goes(r, "incomplete") /\ Finds(r, {"incomplete"})
    BY <1>4 DEF StreamDrops, CallThrows, Pauses
  <2>3. CASE Goes(r, "incomplete") /\ Finds(r, {"incomplete"})
    <3>1. /\ at'[r] = "incomplete" /\ wrong'[r] # {}
          /\ \A q \in Runs \ {r} : at'[q] = at[q] /\ wrong'[q] = wrong[q]
      BY <1>t, <2>3, GoesTo, FindsThem, PlacesAre DEF Faults
    <3>2. Tale(r)'
      BY <1>i, <2>1, <3>1 DEF Tale, BeforeCalls, Ticking
    <3> QED BY <1>a, <2>1, <3>1, <3>2
  <2> QED BY <1>c, <1>3, <2>1, <2>2, <2>3
<1>5. ASSUME NEW r \in Runs, Stops(r) PROVE Told'
  <2>1. at[r] = "call" /\ UNCHANGED <<comment, timer, errors>> /\ Goes(r, "calls")
    BY <1>5 DEF Stops, courtesy
  <2>2. PICK found \in SUBSET InResponse : Finds(r, found)
    BY <1>5 DEF Stops
  <2>3. wrong[r] = {}
    BY <1>i, <2>1 DEF Tale
  <2>4. /\ at'[r] = "calls" /\ wrong'[r] \subseteq InResponse
        /\ \A q \in Runs \ {r} : at'[q] = at[q] /\ wrong'[q] = wrong[q]
    BY <1>t, <2>1, <2>2, <2>3, GoesTo, FindsThem, PlacesAre DEF Faults
  <2>5. Tale(r)'
    BY <1>i, <2>1, <2>4 DEF Tale, BeforeCalls, Ticking
  <2> QED BY <1>a, <2>1, <2>4, <2>5
(* A run that posts its error and comes to its finally.                    *)
<1>d. ASSUME NEW r \in Runs, PostErrorComment(r), Passes(r, "finally"),
             at[r] \in {"incomplete", "thrown", "calls", "use"}, wrong[r] # {}
      PROVE  Told'
  <2>1. at'[r] = "finally" /\ wrong' = wrong /\ \A q \in Runs \ {r} : at'[q] = at[q]
    BY <1>b, <1>d, PlacesAre
  <2>2. /\ errors'[r] = 1 /\ UNCHANGED <<comment, timer>>
        /\ \A q \in Runs \ {r} : errors'[q] = errors[q]
    BY <1>d, <1>i, <1>t, Posts DEF Tale
  <2>3. Tale(r)'
    BY <1>d, <1>i, <2>1, <2>2 DEF Tale, Verdict, BeforeCalls, Ticking
  <2> QED BY <1>a, <2>1, <2>2, <2>3
<1>6. ASSUME NEW r \in Runs, ReportIncomplete(r) \/ Catch(r) PROVE Told'
  BY <1>6, <1>d, <1>i DEF ReportIncomplete, Catch, Tale
<1>7. ASSUME NEW r \in Runs, FindMcpError(r) PROVE Told'
  <2>1. CASE "failed_call" \in wrong[r]
    BY <1>7, <1>d, <2>1 DEF FindMcpError
  <2>2. CASE "failed_call" \notin wrong[r]
    <3>1. at[r] = "calls" /\ Passes(r, "use") /\ UNCHANGED <<comment, timer, errors>>
      BY <1>7, <2>2 DEF FindMcpError, courtesy
    <3>2. at'[r] = "use" /\ wrong' = wrong /\ \A q \in Runs \ {r} : at'[q] = at[q]
      BY <1>b, <3>1, PlacesAre
    <3>3. Tale(r)'
      BY <1>i, <2>2, <3>1, <3>2 DEF Tale, InResponse, BeforeCalls, Ticking
    <3> QED BY <1>a, <3>1, <3>2, <3>3
  <2> QED BY <2>1, <2>2
<1>8. ASSUME NEW r \in Runs, FindToolUse(r) PROVE Told'
  <2>1. CASE "client_call" \in wrong[r] /\ PostErrorComment(r) /\ Passes(r, "finally")
    BY <1>8, <1>d, <2>1 DEF FindToolUse
  <2>2. "client_call" \notin wrong[r] => wrong[r] = {}
    BY <1>8, <1>i DEF FindToolUse, Tale
  <2>3. CASE /\ "client_call" \notin wrong[r] /\ comment[r] # "standing"
             /\ UNCHANGED courtesy /\ Passes(r, "finally")
    <3>1. at'[r] = "finally" /\ wrong' = wrong /\ \A q \in Runs \ {r} : at'[q] = at[q]
      BY <1>b, <2>3, PlacesAre
    <3>2. UNCHANGED <<comment, timer, errors>> /\ at[r] = "use"
      BY <1>8, <2>3 DEF courtesy, FindToolUse
    <3>3. Tale(r)'
      BY <1>i, <2>2, <2>3, <3>1, <3>2 DEF Tale, Verdict, BeforeCalls, Ticking
    <3> QED BY <1>a, <3>1, <3>2, <3>3
  <2>4. CASE /\ "client_call" \notin wrong[r] /\ comment[r] = "standing"
             /\ timer' = [timer EXCEPT ![r] = FALSE] /\ UNCHANGED <<comment, shown, errors>>
             /\ Passes(r, "delete")
    <3>1. at'[r] = "delete" /\ wrong' = wrong /\ \A q \in Runs \ {r} : at'[q] = at[q]
      BY <1>b, <2>4, PlacesAre
    <3>2. ~timer'[r] /\ at[r] = "use" /\ \A q \in Runs \ {r} : timer'[q] = timer[q]
      BY <1>8, <1>t, <2>4 DEF FindToolUse
    <3>3. Tale(r)'
      BY <1>i, <2>2, <2>4, <3>1, <3>2 DEF Tale, Verdict, BeforeCalls, Ticking
    <3> QED BY <1>a, <2>4, <3>1, <3>2, <3>3
  <2> QED BY <1>8, <2>1, <2>3, <2>4 DEF FindToolUse
<1>9. ASSUME NEW r \in Runs, DeleteComment(r) PROVE Told'
  <2>1. at[r] = "delete" /\ Passes(r, "finally") /\ UNCHANGED <<timer, errors>>
    BY <1>9 DEF DeleteComment
  <2>2. comment'[r] # "standing" /\ \A q \in Runs \ {r} : comment'[q] = comment[q]
    BY <1>9, <1>t DEF DeleteComment
  <2>3. at'[r] = "finally" /\ wrong' = wrong /\ \A q \in Runs \ {r} : at'[q] = at[q]
    BY <1>b, <2>1, PlacesAre
  <2>4. Tale(r)'
    BY <1>i, <2>1, <2>2, <2>3 DEF Tale, Verdict, BeforeCalls, Ticking
  <2> QED BY <1>a, <2>1, <2>2, <2>3, <2>4
<1>10. ASSUME NEW r \in Runs, Finally(r) PROVE Told'
  <2>1. at[r] = "finally" /\ Passes(r, "over") /\ UNCHANGED <<comment, errors>>
    BY <1>10 DEF Finally
  <2>2. ~timer'[r] /\ \A q \in Runs \ {r} : timer'[q] = timer[q]
    BY <1>10, <1>t DEF Finally
  <2>3. at'[r] = "over" /\ wrong' = wrong /\ \A q \in Runs \ {r} : at'[q] = at[q]
    BY <1>b, <2>1, PlacesAre
  <2>4. Tale(r)'
    BY <1>i, <2>1, <2>2, <2>3 DEF Tale, Verdict, BeforeCalls, Ticking
  <2> QED BY <1>a, <2>1, <2>2, <2>3, <2>4
<1>11. ASSUME NEW r \in Runs, ServerWrites(r) \/ UpdateActivationProgress(r) PROVE Told'
  BY <1>3, <1>11 DEF ServerWrites, UpdateActivationProgress, courtesy
<1>12. ASSUME BuildSystemBlocks \/ UNCHANGED vars PROVE Told'
  <2>1. UNCHANGED <<at, wrong, comment, timer, errors>>
    BY <1>12 DEF BuildSystemBlocks, courtesy, vars
  <2> QED BY <1>i, <2>1 DEF Tale, Verdict
<1>13. ASSUME Restart PROVE Told'
  <2>1. \A q \in Runs : /\ at'[q] = IF at[q] \in Waiting THEN "cut" ELSE at[q]
                        /\ ~timer'[q]
    BY <1>13 DEF Restart
  <2>2. UNCHANGED <<comment, wrong, errors>>
    BY <1>13 DEF Restart
  <2>3. ASSUME NEW q \in Runs PROVE Tale(q)'
    <3>1. Tale(q) /\ at[q] \in Places
      BY <1>i, <1>t
    <3>2. at'[q] = "cut" \/ at'[q] = at[q]
      BY <2>1
    <3> QED BY <2>1, <2>2, <3>1, <3>2 DEF Tale, Verdict, BeforeCalls
  <2> QED BY <2>3
<1> QED BY <1>1, <1>2, <1>4, <1>5, <1>6, <1>7, <1>8, <1>9, <1>10, <1>11, <1>12, <1>13
        DEF Next, Proceeds, CallEnds, Concludes

LEMMA RunsAlways == Spec => []RunsInv
<1>1. Init => RunsInv
  BY TypeInit DEF Init, RunsInv, Tale
<1> QED BY <1>1, RunsStep, PTL DEF Spec

(* A run that is over has one error comment if anything went wrong in it   *)
(* and none otherwise, whatever was wrong and whichever exit it took, and  *)
(* then its claim is untouched (activation-runner.ts:555-617).             *)
THEOREM OneVerdictPerRun == Spec => []OneVerdict
<1>1. RunsInv => OneVerdict
  BY DEF RunsInv, OneVerdict, Tale, Verdict
<1> QED BY <1>1, RunsAlways, PTL

(* No run that went well leaves its claim to be at work                    *)
(* (activation-runner.ts:601-610).                                         *)
THEOREM ClaimsAreRetired == Spec => []ClaimsRetired
<1>1. RunsInv => ClaimsRetired
  BY DEF RunsInv, ClaimsRetired, Tale, Verdict
<1> QED BY <1>1, RunsAlways, PTL

(* The timer of a run stops with it (activation-runner.ts:379-380).        *)
THEOREM TimersAreStopped == Spec => []TimersStop
<1>1. RunsInv => TimersStop
  BY DEF RunsInv, TimersStop, TypeOK, Tale, Ticking, Ended
<1> QED BY <1>1, RunsAlways, PTL

-----------------------------------------------------------------------------
(* A continuation pays for as many calls as its drops may make.            *)
LEMMA NextRound ==
  ASSUME NEW n \in Nat, NEW k \in Nat
  PROVE  (n + 1) * k = n * k + k
  OBVIOUS

LEMMA RoundsBound ==
  ASSUME NEW n \in Nat, NEW p \in Nat, NEW k \in Nat, n <= p
  PROVE  n * k <= p * k
<1>1. PICK d \in Nat : p = n + d
  <2>1. p - n \in Nat /\ p = n + (p - n)
    OBVIOUS
  <2> QED BY <2>1
<1>2. p * k = n * k + d * k /\ d * k \in Nat /\ n * k \in Nat
  BY <1>1
<1> QED BY <1>2

LEMMA BudgetStep == BudgetInv /\ [Next]_vars => BudgetInv'
<1> SUFFICES ASSUME BudgetInv, [Next]_vars PROVE CallsArePaidFor'
  BY TypeStep DEF BudgetInv
<1>t. /\ at \in [Runs -> Places] /\ attempt \in [Runs -> Nat]
      /\ drops \in [Runs -> 0..MaxStreamRetries]
      /\ rounds \in [Runs -> 0..MaxPauseContinuations]
      /\ MaxStreamRetries \in Nat /\ MaxPauseContinuations \in Nat
  BY RunnerAssumption DEF RunnerAssumption, BudgetInv, TypeOK, Places
<1>i. \A r \in Runs :
        /\ at[r] \in BeforeCalls => attempt[r] = 0 /\ drops[r] = 0 /\ rounds[r] = 0
        /\ attempt[r] <= rounds[r] * (MaxStreamRetries + 1) + drops[r] + 1
  BY DEF BudgetInv, CallsArePaidFor, Budget
<1>a. ASSUME UNCHANGED <<attempt, drops, rounds>>,
             \A r \in Runs : at'[r] \in BeforeCalls => at[r] \in BeforeCalls
      PROVE  CallsArePaidFor'
  BY <1>a, <1>i DEF CallsArePaidFor, Budget
<1>b. ASSUME NEW r \in Runs, NEW p \in Places, Goes(r, p)
      PROVE  at'[r] = p /\ \A q \in Runs \ {r} : at'[q] = at[q]
  BY <1>b, <1>t DEF Goes
<1>c. ASSUME NEW r \in Runs, at'[r] \notin BeforeCalls,
             \A q \in Runs \ {r} : /\ at'[q] = at[q] /\ attempt'[q] = attempt[q]
                                   /\ drops'[q] = drops[q] /\ rounds'[q] = rounds[q],
             attempt'[r] <= rounds'[r] * (MaxStreamRetries + 1) + drops'[r] + 1
      PROVE  CallsArePaidFor'
  <2>1. \A q \in Runs \ {r} :
          /\ at'[q] \in BeforeCalls => attempt'[q] = 0 /\ drops'[q] = 0 /\ rounds'[q] = 0
          /\ attempt'[q] <= rounds'[q] * (MaxStreamRetries + 1) + drops'[q] + 1
    BY <1>c, <1>i
  <2> QED BY <1>c, <2>1 DEF CallsArePaidFor, Budget
<1>1. ASSUME NEW r \in Runs,
             \/ Start(r) \/ Assemble(r) \/ CountTokens(r) \/ CallThrows(r) \/ Stops(r)
             \/ Concludes(r)
      PROVE  CallsArePaidFor'
  <2>1. UNCHANGED <<attempt, drops, rounds>>
    BY <1>1 DEF Start, Assemble, CountTokens, CallThrows, Stops, Concludes, ReportIncomplete,
                FindMcpError, FindToolUse, DeleteComment, Catch, Finally, calling
  <2>2. \/ at[r] \in BeforeCalls /\ \E p \in Places : Goes(r, p)
        \/ \E p \in {"thrown", "calls", "use", "delete", "finally", "over"} : Goes(r, p)
    BY <1>1, PlacesAre DEF Start, Assemble, CountTokens, CallThrows, Stops, Concludes, Passes,
                Throws, ReportIncomplete, FindMcpError, FindToolUse, DeleteComment, Catch, Finally,
                BeforeCalls
  <2>3. \A q \in Runs : at'[q] \in BeforeCalls => at[q] \in BeforeCalls
    BY <1>b, <2>2, PlacesAre DEF BeforeCalls
  <2> QED BY <1>a, <2>1, <2>3
<1>2. ASSUME NEW r \in Runs, Announce(r) PROVE CallsArePaidFor'
  <2>1. /\ at[r] = "announce" /\ Goes(r, "call") /\ UNCHANGED <<drops, rounds>>
        /\ attempt' = [attempt EXCEPT ![r] = @ + 1]
    BY <1>2 DEF Announce
  <2>2. attempt[r] = 0 /\ drops[r] = 0 /\ rounds[r] = 0
    BY <1>i, <2>1 DEF BeforeCalls
  <2>3. attempt'[r] = 1 /\ \A q \in Runs \ {r} : attempt'[q] = attempt[q]
    BY <1>t, <2>1, <2>2
  <2>4. at'[r] = "call" /\ \A q \in Runs \ {r} : at'[q] = at[q]
    BY <1>b, <2>1, PlacesAre
  <2>5. attempt'[r] <= rounds'[r] * (MaxStreamRetries + 1) + drops'[r] + 1
    BY <1>t, <2>1, <2>2, <2>3
  <2>6. at'[r] \notin BeforeCalls
    BY <2>4 DEF BeforeCalls
  <2> QED BY <1>c, <2>1, <2>3, <2>4, <2>5, <2>6
<1>3. ASSUME NEW r \in Runs, StreamDrops(r) PROVE CallsArePaidFor'
  <2>1. CASE Goes(r, "thrown") /\ UNCHANGED <<attempt, drops, rounds>>
    BY <1>a, <1>b, <2>1, PlacesAre DEF BeforeCalls
  <2>2. CASE /\ drops' = [drops EXCEPT ![r] = @ + 1] /\ attempt' = [attempt EXCEPT ![r] = @ + 1]
             /\ UNCHANGED <<at, rounds>> /\ at[r] = "call"
    <3>1. /\ drops'[r] = drops[r] + 1 /\ attempt'[r] = attempt[r] + 1
          /\ \A q \in Runs \ {r} : drops'[q] = drops[q] /\ attempt'[q] = attempt[q]
      BY <1>t, <2>2
    <3>2. PICK paid \in Nat : paid = rounds[r] * (MaxStreamRetries + 1)
      BY <1>t
    <3>3. attempt[r] <= paid + drops[r] + 1 /\ attempt[r] \in Nat /\ drops[r] \in Nat
      BY <1>i, <1>t, <3>2
    <3>4. attempt'[r] <= paid + drops'[r] + 1
      BY <3>1, <3>3, <3>2
    <3> QED BY <1>c, <2>2, <3>1, <3>2, <3>4 DEF BeforeCalls
  <2> QED BY <1>3, <2>1, <2>2 DEF StreamDrops, Throws
<1>4. ASSUME NEW r \in Runs, Pauses(r) PROVE CallsArePaidFor'
  <2>1. CASE Goes(r, "incomplete") /\ UNCHANGED <<attempt, drops, rounds>>
    BY <1>a, <1>b, <2>1, PlacesAre DEF BeforeCalls
  <2>2. CASE /\ rounds' = [rounds EXCEPT ![r] = @ + 1] /\ drops' = [drops EXCEPT ![r] = 0]
             /\ attempt' = [attempt EXCEPT ![r] = @ + 1] /\ UNCHANGED at /\ at[r] = "call"
    <3>1. /\ rounds'[r] = rounds[r] + 1 /\ drops'[r] = 0 /\ attempt'[r] = attempt[r] + 1
          /\ \A q \in Runs \ {r} : /\ drops'[q] = drops[q] /\ attempt'[q] = attempt[q]
                                   /\ rounds'[q] = rounds[q]
      BY <1>t, <2>2
    <3>2. PICK paid \in Nat : paid = rounds[r] * (MaxStreamRetries + 1)
      BY <1>t
    <3>3. rounds'[r] * (MaxStreamRetries + 1) = paid + (MaxStreamRetries + 1)
      <4>1. rounds[r] \in Nat /\ MaxStreamRetries + 1 \in Nat
        BY <1>t
      <4>2. (rounds[r] + 1) * (MaxStreamRetries + 1)
              = rounds[r] * (MaxStreamRetries + 1) + (MaxStreamRetries + 1)
        BY <4>1, NextRound
      <4> QED BY <3>1, <3>2, <4>2
    <3>4. /\ attempt[r] <= paid + drops[r] + 1 /\ attempt[r] \in Nat
          /\ drops[r] \in Nat /\ drops[r] <= MaxStreamRetries
      BY <1>i, <1>t, <3>2
    <3>5. attempt'[r] <= paid + (MaxStreamRetries + 1) + drops'[r] + 1
      BY <1>t, <3>1, <3>2, <3>4
    <3> QED BY <1>c, <2>2, <3>1, <3>3, <3>5 DEF BeforeCalls
  <2> QED BY <1>4, <2>1, <2>2 DEF Pauses
<1>5. ASSUME NEW r \in Runs, ServerWrites(r) \/ UpdateActivationProgress(r) PROVE CallsArePaidFor'
  BY <1>a, <1>5 DEF ServerWrites, UpdateActivationProgress, calling
<1>6. ASSUME BuildSystemBlocks \/ UNCHANGED vars PROVE CallsArePaidFor'
  BY <1>a, <1>6 DEF BuildSystemBlocks, calling, vars
<1>7. ASSUME Restart PROVE CallsArePaidFor'
  <2>1. /\ \A q \in Runs : at'[q] \in {"cut", at[q]}
        /\ UNCHANGED <<attempt, drops, rounds>>
    BY <1>7 DEF Restart, calling
  <2> QED BY <1>a, <2>1 DEF BeforeCalls
<1> QED BY <1>1, <1>2, <1>3, <1>4, <1>5, <1>6, <1>7 DEF Next, Proceeds, CallEnds

(* Drops and pauses together never cost more calls of the model than the   *)
(* product of their limits (activation-runner.ts:497-553,                  *)
(* activation-config.ts:92-103).                                           *)
THEOREM ModelCallsAreBounded == Spec => []CallsAreBounded
<1>1. Init => BudgetInv
  BY TypeInit, RunnerAssumption DEF RunnerAssumption, Init, BudgetInv, CallsArePaidFor, Budget
<1>2. BudgetInv => CallsAreBounded
  <2> SUFFICES ASSUME BudgetInv, NEW r \in Runs
               PROVE  attempt[r] <= (MaxPauseContinuations + 1) * (MaxStreamRetries + 1)
    BY DEF CallsAreBounded
  <2>1. /\ rounds[r] \in Nat /\ rounds[r] <= MaxPauseContinuations
        /\ drops[r] \in Nat /\ drops[r] <= MaxStreamRetries /\ attempt[r] \in Nat
        /\ MaxPauseContinuations \in Nat /\ MaxStreamRetries \in Nat
    BY RunnerAssumption DEF RunnerAssumption, BudgetInv, TypeOK
  <2>2. attempt[r] <= rounds[r] * (MaxStreamRetries + 1) + drops[r] + 1
    BY DEF BudgetInv, CallsArePaidFor, Budget
  <2>3. rounds[r] * (MaxStreamRetries + 1) <= MaxPauseContinuations * (MaxStreamRetries + 1)
    BY <2>1, RoundsBound
  <2>4. (MaxPauseContinuations + 1) * (MaxStreamRetries + 1)
          = MaxPauseContinuations * (MaxStreamRetries + 1) + (MaxStreamRetries + 1)
    BY <2>1, NextRound
  <2>5. PICK x \in Nat, y \in Nat :
          /\ x = rounds[r] * (MaxStreamRetries + 1)
          /\ y = MaxPauseContinuations * (MaxStreamRetries + 1)
    BY <2>1
  <2>6. attempt[r] <= x + drops[r] + 1 /\ x <= y
    BY <2>2, <2>3, <2>5
  <2>7. attempt[r] <= y + (MaxStreamRetries + 1)
    BY <2>1, <2>5, <2>6
  <2> QED BY <2>4, <2>5, <2>7
<1> QED BY <1>1, <1>2, BudgetStep, PTL DEF Spec

-----------------------------------------------------------------------------
(* McpErrors: what a run concludes from its tool calls.                    *)

(* What one tool is called with says what it is about.                     *)
OneEntityPerInput ==
  \A c, d \in Calls :
    c.name = d.name /\ c.input = d.input /\ HasUsableTarget(c.input) => c.entity = d.entity

(* A call is its name, its input, its body and the entity it is about.     *)
CallsAreRecords ==
  \A c \in Calls :
    c = [name |-> c.name, input |-> c.input, body |-> c.body, entity |-> c.entity]

-----------------------------------------------------------------------------
LEMMA McpTypeInit == McpInit => McpTypeOK
<1> SUFFICES ASSUME McpInit PROVE McpTypeOK
  OBVIOUS
<1>1. /\ made = <<>> /\ answers = <<>> /\ Len(made) = 0 /\ Len(answers) = 0
      /\ made \in Seq(Calls) /\ answers \in Seq(Answers)
  BY EmptySeq DEF McpInit
<1>2. paused = 0 /\ settled = {}
  BY DEF McpInit
<1>3. Len(made) <= MaxCalls /\ paused \in 0..Len(made) /\ 1..Len(answers) = {}
  BY <1>1, <1>2, McpAssumption
<1> QED BY <1>1, <1>2, <1>3 DEF McpTypeOK

LEMMA McpTypeStep == McpTypeOK /\ [McpNext]_mcpVars => McpTypeOK'
<1> SUFFICES ASSUME McpTypeOK, [McpNext]_mcpVars PROVE McpTypeOK'
  OBVIOUS
<1> USE McpAssumption
<1>t. /\ made \in Seq(Calls) /\ Len(made) \in Nat /\ Len(made) <= MaxCalls
      /\ paused \in 0..Len(made) /\ settled \subseteq 0..paused
      /\ answers \in Seq(Answers) /\ Len(answers) \in Nat
      /\ \A i \in 1..Len(answers) : answers[i].call \in 0..Len(made) \ settled
  BY LenProperties DEF McpTypeOK
<1>1. ASSUME NEW c \in Calls, Call(c) PROVE McpTypeOK'
  <2>1. made' \in Seq(Calls) /\ Len(made') = Len(made) + 1
    BY <1>1, <1>t, AppendProperties DEF Call
  <2>2. Len(made') <= MaxCalls /\ paused \in 0..Len(made')
    BY <1>1, <1>t, <2>1 DEF Call
  <2>3. \A n \in 0..Len(made) : n \in 0..Len(made')
    BY <1>t, <2>1
  <2> QED BY <1>1, <1>t, <2>1, <2>2, <2>3 DEF Call, McpTypeOK
<1>2. ASSUME NEW n \in 0..MaxCalls, NEW error \in BOOLEAN, Answer(n, error) PROVE McpTypeOK'
  <2> DEFINE answer == [call |-> n, error |-> error, known |-> Len(made)]
  <2>1. answer \in Answers /\ answer.call = n
    BY <1>t DEF Answers
  <2>2. n \in 0..Len(made) \ settled /\ UNCHANGED <<made, paused, settled>>
    BY <1>2 DEF Answer
  <2>3. answers' = Append(answers, answer)
    BY <1>2 DEF Answer
  <2> HIDE DEF answer
  <2>4. /\ answers' \in Seq(Answers) /\ Len(answers') = Len(answers) + 1
        /\ answers'[Len(answers) + 1] = answer
        /\ \A i \in 1..Len(answers) : answers'[i] = answers[i]
    BY <1>t, <2>1, <2>3, AppendProperties
  <2>5. ASSUME NEW i \in 1..Len(answers') PROVE answers'[i].call \in 0..Len(made) \ settled
    <3>1. i \in 1..Len(answers) \/ i = Len(answers) + 1
      BY <1>t, <2>4
    <3>2. CASE i \in 1..Len(answers)
      BY <1>t, <2>4, <3>2
    <3>3. CASE i = Len(answers) + 1
      BY <2>1, <2>2, <2>4, <3>3
    <3> QED BY <3>1, <3>2, <3>3
  <2> QED BY <1>t, <2>2, <2>4, <2>5 DEF McpTypeOK
<1>3. ASSUME Pause PROVE McpTypeOK'
  <2>1. Answered \subseteq 0..Len(made)
    BY <1>t DEF Answered
  <2>2. settled \subseteq 0..Len(made)
    BY <1>t
  <2>3. paused' \in 0..Len(made) /\ settled' \subseteq 0..paused'
    BY <1>3, <1>t, <2>1, <2>2 DEF Pause
  <2>4. answers' = <<>> /\ made' = made
    BY <1>3 DEF Pause
  <2> QED BY <1>t, <2>3, <2>4, EmptySeq DEF McpTypeOK
<1>4. CASE UNCHANGED mcpVars
  BY <1>4 DEF mcpVars, McpTypeOK
<1> QED BY <1>1, <1>2, <1>3, <1>4 DEF McpNext

(* McpTypeOK holds throughout (McpErrors.tla; the conversation that           *)
(* activation-runner.ts:189-255 reads).                                    *)
THEOREM ConversationTypeCorrect == McpSpec => []McpTypeOK
  BY McpTypeInit, McpTypeStep, PTL DEF McpSpec

-----------------------------------------------------------------------------
(* Every answer with a call is to one that was made.                       *)
LEMMA AnswersAreToCalls ==
  ASSUME McpTypeOK, NEW i \in 1..Len(answers), Known(i)
  PROVE  CallOf(i) \in Calls
<1>1. made \in Seq(Calls) /\ Len(made) \in Nat /\ answers[i].call \in 0..Len(made)
  BY LenProperties DEF McpTypeOK
<1>2. answers[i].call \in 1..Len(made)
  BY <1>1 DEF Known
<1> QED BY <1>1, <1>2, ElementOfSeq DEF CallOf

(* Two inputs whose deciding id is the same: if it is what both calls      *)
(* write, they write the same.                                             *)
LEMMA SameTargetSameEntity ==
  ASSUME NEW c, NEW d, SameTarget(c.input, d.input), NamesEntity(c), NamesEntity(d)
  PROVE  c.entity = d.entity
<1> DEFINE own(e) == NamedBy(e.input, e.input)
<1>1. PICK k \in NamedBy(c.input, d.input) :
        /\ \A j \in NamedBy(c.input, d.input) : k <= j
        /\ TargetIdKeys[k] \in DOMAIN c.input \cap DOMAIN d.input
        /\ c.input[TargetIdKeys[k]] = d.input[TargetIdKeys[k]]
  BY DEF SameTarget
<1>2. ASSUME NEW e \in {c, d} PROVE e.input[TargetIdKeys[k]] = e.entity
  <2>1. PICK m \in own(e) :
          (\A j \in own(e) : m <= j) /\ e.input[TargetIdKeys[m]] = e.entity
    BY <1>2 DEF NamesEntity
  <2>2. own(e) \subseteq NamedBy(c.input, d.input) /\ k \in own(e) /\ own(e) \subseteq 1..5
    BY <1>1 DEF NamedBy, TargetIdKeys
  <2>3. m <= k /\ k <= m /\ m \in Int /\ k \in Int
    BY <1>1, <2>1, <2>2
  <2>4. m = k
    BY <2>3
  <2> QED BY <2>1, <2>4
<1> QED BY <1>1, <1>2

(* A call that names what it writes has a target.                          *)
LEMMA NamedIsUsable ==
  ASSUME NEW c, NamesEntity(c)
  PROVE  HasUsableTarget(c.input)
<1>1. PICK k \in NamedBy(c.input, c.input) : c.input[TargetIdKeys[k]] # Empty
  BY DEF NamesEntity
<1>2. TargetIdKeys[k] \in Range(TargetIdKeys) \cap DOMAIN c.input
  BY <1>1 DEF NamedBy, TargetIdKeys, Range
<1> QED BY <1>1, <1>2 DEF HasUsableTarget

(* A failed write that named what it wrote is reported, or was repaired,   *)
(* or was hidden by a call that gave the deciding id for something else:   *)
(* for any calls, whatever ids the others carry, and in a conversation of  *)
(* any length (activation-runner.ts:157-174, 216-254).                     *)
THEOREM TargetedFailuresSurface == McpSpec => []TargetedFailuresAreReported
<1>1. McpTypeOK => TargetedFailuresAreReported
  <2> SUFFICES ASSUME McpTypeOK, NEW i \in 1..Len(answers), Failed(i),
                      Known(i) => IsWrite(CallOf(i)) /\ NamesEntity(CallOf(i)),
                      i \notin McpErrors
               PROVE  /\ Known(i)
                      /\ \/ Repaired(i)
                         \/ \E j \in i + 1..Len(answers) :
                              /\ Known(j) /\ ~Failed(j)
                              /\ CallOf(j).name = CallOf(i).name /\ ~NamesEntity(CallOf(j))
    BY DEF TargetedFailuresAreReported
  <2>1. PICK j \in 1..Len(answers) : Excuses(j, i)
    BY DEF McpErrors
  <2>2. /\ Known(i) /\ Known(j) /\ j > i /\ ~Failed(j) /\ CallOf(j).name = CallOf(i).name
        /\ SameTarget(CallOf(i).input, CallOf(j).input)
    BY <2>1, NamedIsUsable DEF Excuses
  <2>3. NamesEntity(CallOf(j)) => CallOf(j).entity = CallOf(i).entity
    BY <2>2, SameTargetSameEntity
  <2>4. j \in i + 1..Len(answers)
    <3>1. Len(answers) \in Nat
      BY LenProperties DEF McpTypeOK
    <3> QED BY <2>2, <3>1
  <2> QED BY <2>2, <2>3, <2>4 DEF Repaired
<1> QED BY <1>1, ConversationTypeCorrect, PTL

-----------------------------------------------------------------------------
(* A call with a usable target is about the same target as itself.         *)
LEMMA TargetIsItsOwn ==
  ASSUME NEW a, HasUsableTarget(a)
  PROVE  SameTarget(a, a)
<1>1. NamedBy(a, a) = {i \in 1..5 : TargetIdKeys[i] \in DOMAIN a}
  BY DEF NamedBy, TargetIdKeys
<1>2. Range(TargetIdKeys) = {TargetIdKeys[i] : i \in 1..5}
  BY DEF Range, TargetIdKeys
<1>3. PICK k \in 1..5 : k \in NamedBy(a, a)
  BY <1>1, <1>2 DEF HasUsableTarget
<1>4. PICK m \in 1..5 : m \in NamedBy(a, a) /\ \A j \in NamedBy(a, a) : m <= j
  <2>1. CASE 1 \in NamedBy(a, a)
    BY <1>1, <2>1
  <2>2. CASE 1 \notin NamedBy(a, a) /\ 2 \in NamedBy(a, a)
    BY <1>1, <2>2
  <2>3. CASE {1, 2} \cap NamedBy(a, a) = {} /\ 3 \in NamedBy(a, a)
    BY <1>1, <2>3
  <2>4. CASE {1, 2, 3} \cap NamedBy(a, a) = {} /\ 4 \in NamedBy(a, a)
    BY <1>1, <2>4
  <2>5. CASE {1, 2, 3, 4} \cap NamedBy(a, a) = {}
    BY <1>1, <1>3, <2>5
  <2> QED BY <2>1, <2>2, <2>3, <2>4, <2>5
<1> QED BY <1>1, <1>4 DEF SameTarget

(* The answers of the last response came after its pause and in order, and *)
(* each after its call.                                                    *)
InOrder ==
  \A i \in 1..Len(answers) :
    /\ answers[i].known \in paused..Len(made) /\ answers[i].call <= answers[i].known
    /\ \A j \in 1..i : answers[j].known <= answers[i].known

LEMMA InOrderInit == McpInit => InOrder
<1> SUFFICES ASSUME McpInit PROVE InOrder
  OBVIOUS
<1>1. 1..Len(answers) = {}
  <2>1. Len(answers) = 0
    BY EmptySeq DEF McpInit
  <2> QED BY <2>1
<1> QED BY <1>1 DEF InOrder

LEMMA InOrderStep == McpTypeOK /\ InOrder /\ [McpNext]_mcpVars => InOrder'
<1> SUFFICES ASSUME McpTypeOK, InOrder, [McpNext]_mcpVars PROVE InOrder'
  OBVIOUS
<1>t. /\ made \in Seq(Calls) /\ Len(made) \in Nat /\ paused \in 0..Len(made)
      /\ answers \in Seq(Answers) /\ Len(answers) \in Nat
  BY LenProperties DEF McpTypeOK
<1>1. ASSUME NEW c \in Calls, Call(c) PROVE InOrder'
  <2>1. Len(made') = Len(made) + 1 /\ UNCHANGED <<paused, answers>>
    BY <1>1, <1>t, AppendProperties DEF Call
  <2>2. \A n \in paused..Len(made) : n \in paused'..Len(made')
    BY <1>t, <2>1
  <2> QED BY <2>1, <2>2 DEF InOrder
<1>2. ASSUME NEW n \in 0..MaxCalls, NEW error \in BOOLEAN, Answer(n, error) PROVE InOrder'
  <2> DEFINE answer == [call |-> n, error |-> error, known |-> Len(made)]
             m == Len(answers)
  <2>1. /\ n \in 0..Len(made) /\ answers' = Append(answers, answer)
        /\ made' = made /\ paused' = paused
    BY <1>2 DEF Answer
  <2>2. answer \in Answers /\ answer.call <= answer.known /\ answer.known = Len(made)
    BY <1>t, <2>1 DEF Answers, McpTypeOK
  <2> HIDE DEF answer
  <2>3. /\ Len(answers') = m + 1 /\ answers'[m + 1] = answer
        /\ \A i \in 1..m : answers'[i] = answers[i]
    BY <1>t, <2>1, <2>2, AppendProperties
  <2>4. \A i \in 1..m + 1 : i \in 1..m \/ i = m + 1
    BY <1>t
  <2>5. \A i \in 1..m + 1 : /\ answers'[i].known \in paused..Len(made)
                           /\ answers'[i].call <= answers'[i].known
    <3>1. Len(made) \in paused..Len(made)
      BY <1>t
    <3> QED BY <2>2, <2>3, <2>4, <3>1 DEF InOrder
  <2>6. ASSUME NEW i \in 1..m + 1, NEW j \in 1..i
        PROVE  answers'[j].known <= answers'[i].known
    <3>1. CASE i = m + 1
      <4>1. j \in 1..m + 1
        BY <1>t, <3>1
      <4>2. answers'[j].known \in paused..Len(made)
        BY <2>5, <4>1
      <4> QED BY <1>t, <2>2, <2>3, <3>1, <4>2
    <3>2. CASE i \in 1..m
      <4>1. j \in 1..m
        BY <1>t, <3>2
      <4> QED BY <2>3, <3>2, <4>1 DEF InOrder
    <3> QED BY <2>4, <3>1, <3>2
  <2> QED BY <2>1, <2>3, <2>5, <2>6 DEF InOrder
<1>3. ASSUME Pause PROVE InOrder'
  <2>1. Len(answers') = 0
    BY <1>3, EmptySeq DEF Pause
  <2>2. 1..Len(answers') = {}
    BY <2>1
  <2> QED BY <2>2 DEF InOrder
<1>4. CASE UNCHANGED mcpVars
  BY <1>4 DEF mcpVars, InOrder
<1> QED BY <1>1, <1>2, <1>3, <1>4 DEF McpNext

(* Whatever is called after a failure was seen, and succeeds, comes after  *)
(* it in the response and is local to it: so a retry is never overlooked,  *)
(* for any calls and however the pauses fall                               *)
(* (activation-runner.ts:203-254, 291-297).                                *)
THEOREM RetriesAreHeard == McpSpec => []RetriesAreBelieved
<1>1. McpTypeOK /\ InOrder => RetriesAreBelieved
  <2> SUFFICES ASSUME McpTypeOK, InOrder, NEW i \in McpErrors, NEW j \in 1..Len(answers),
                      Known(i), Known(j), ~Failed(j),
                      answers[j].call > answers[i].known, CallOf(j).name = CallOf(i).name
               PROVE  HasUsableTarget(CallOf(i).input) /\ CallOf(j).input # CallOf(i).input
    BY DEF RetriesAreBelieved
  <2>1. i \in 1..Len(answers) /\ ~Excuses(j, i)
    BY DEF McpErrors
  <2>2. /\ Len(answers) \in Nat /\ Len(made) \in Nat /\ paused \in Nat
        /\ answers[j].call \in 0..Len(made)
    BY LenProperties DEF McpTypeOK
  <2>3. /\ answers[i].known \in paused..Len(made) /\ answers[j].known \in paused..Len(made)
        /\ answers[j].call <= answers[j].known
    BY <2>1 DEF InOrder
  <2>4. Local(answers[j].call)
    BY <2>2, <2>3 DEF Local
  <2>5. j > i
    <3>1. j \in 1..i => answers[j].known <= answers[i].known
      BY <2>1 DEF InOrder
    <3>2. ~(answers[j].known <= answers[i].known)
      BY <2>2, <2>3
    <3> QED BY <2>1, <2>2, <3>1, <3>2
  <2>6. HasUsableTarget(CallOf(i).input) /\ ~SameTarget(CallOf(i).input, CallOf(j).input)
    BY <2>1, <2>4, <2>5 DEF Excuses
  <2> QED BY <2>6, TargetIsItsOwn
<1>2. McpSpec => []InOrder
  BY InOrderInit, InOrderStep, ConversationTypeCorrect, PTL DEF McpSpec
<1> QED BY <1>1, <1>2, ConversationTypeCorrect, PTL

(* The duplicates named in the log are exactly the repetitions             *)
(* (activation-runner.ts:257-266).                                         *)
THEOREM DuplicatesAreExact ==
  ASSUME OneEntityPerInput, CallsAreRecords
  PROVE  McpSpec => []DuplicatesAreRepeats
<1>1. McpTypeOK => DuplicatesAreRepeats
  <2> SUFFICES ASSUME McpTypeOK,
                      NEW j \in SuccessfulWrites, HasUsableTarget(CallOf(j).input)
               PROVE  j \in DuplicateWrites
                        <=> \E i \in SuccessfulWrites : i < j /\ CallOf(i) = CallOf(j)
    BY DEF DuplicatesAreRepeats
  <2>1. ASSUME NEW i \in SuccessfulWrites PROVE Twins(i, j) <=> CallOf(i) = CallOf(j)
    <3>1. CallOf(i) \in Calls /\ CallOf(j) \in Calls
      BY AnswersAreToCalls DEF SuccessfulWrites
    <3>2. ASSUME CallOf(i) = CallOf(j) PROVE Twins(i, j)
      <4>1. SameTarget(CallOf(j).input, CallOf(j).input)
        BY TargetIsItsOwn
      <4> QED BY <3>2, <4>1 DEF Twins
    <3>3. ASSUME Twins(i, j) PROVE CallOf(i) = CallOf(j)
      <4>1. /\ CallOf(i).name = CallOf(j).name /\ CallOf(i).input = CallOf(j).input
            /\ CallOf(i).body = CallOf(j).body
            /\ SameTarget(CallOf(i).input, CallOf(j).input)
        BY <3>3 DEF Twins
      <4>2. HasUsableTarget(CallOf(i).input)
        BY <4>1
      <4>3. CallOf(i).entity = CallOf(j).entity
        BY <3>1, <4>1, <4>2 DEF OneEntityPerInput
      <4> QED BY <3>1, <4>1, <4>3 DEF CallsAreRecords
    <3> QED BY <3>2, <3>3
  <2> QED BY <2>1 DEF DuplicateWrites
<1> QED BY <1>1, ConversationTypeCorrect, PTL
=============================================================================

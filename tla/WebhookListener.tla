-------------------------- MODULE WebhookListener --------------------------
(***************************************************************************)
(* The listener between a webhook's arrival and the agent's start: the     *)
(* request handler of webhook-listener/src/server.ts and the deduplication *)
(* and debouncing of agent-scheduler.ts, with the tracker that delivers an *)
(* event again until it hears a success, and a process that may restart    *)
(* and keeps nothing.                                                      *)
(*                                                                         *)
(* A delivery is <<event, attempt>>; its handler runs from one await to    *)
(* the next, so other deliveries and timers move in between.  What the     *)
(* payload says is abstracted: the pass an event would start is a constant *)
(* and whether any lane wants it is left open.                             *)
(***************************************************************************)
EXTENDS Integers, SequencesExt

CONSTANTS
  Events,       \* what happens in the tracker; stands for dedupeKey(raw)
  Entities,     \* the projects and issues it happens to
  EntityOf,     \* the entity of each event
  PassOf,       \* the pass each event starts, where a lane wants it
  SeenCap,      \* how many keys seenEvents holds, 5000 in the code
  MaxAttempts,  \* how often the tracker delivers one event
  MaxRestarts,  \* bound: restarts of the process
  NoDelivery    \* no timer is pending

ASSUME ListenerAssumption ==
  /\ EntityOf \in [Events -> Entities]
  /\ PassOf \in [Events -> {"first", "follow-up"}]
  /\ SeenCap \in Nat \ {0} /\ MaxAttempts \in Nat \ {0} /\ MaxRestarts \in Nat
  /\ NoDelivery \notin Events \X (1..MaxAttempts)

VARIABLES
  owed,      \* events the tracker has not heard a success for
  stage,     \* what became of each delivery
  seen,      \* seenEvents, oldest first
  timers,    \* by entity, the delivery whose follow-up is pending
  waiting,   \* history: by entity, follow-ups accepted since the last timer fired
  starts,    \* history: by delivery, the agent calls made for it
  accepted,  \* history: events not discarded since the process started
  restarts   \* restarts so far

vars == <<owed, stage, seen, timers, waiting, starts, accepted, restarts>>

Deliveries == Events \X (1..MaxAttempts)
EventOf(d) == d[1]
EntityAt(d) == EntityOf[EventOf(d)]

(* "unsent"; awaiting "parse" or "teams"; or ended: "discarded" as a       *)
(* duplicate, "failed" with an error, "ignored" on purpose, "dispatched",  *)
(* "cut" off by a restart, or "stranded" when its timer died with one.     *)
InHand == {"parse", "teams"}
Stages == InHand \cup {"unsent", "discarded", "failed", "ignored",
                       "dispatched", "cut", "stranded"}

TypeOK ==
  /\ owed \subseteq Events
  /\ stage \in [Deliveries -> Stages]
  /\ seen \in Seq(Events) /\ Len(seen) <= SeenCap
  /\ timers \in [Entities -> Deliveries \cup {NoDelivery}]
  /\ waiting \in [Entities -> Seq(Deliveries)]
  /\ starts \in [Deliveries -> Nat]
  /\ accepted \in Seq(Events)
  /\ restarts \in 0..MaxRestarts

Init ==
  /\ owed = Events
  /\ stage = [d \in Deliveries |-> "unsent"]
  /\ seen = <<>>
  /\ timers = [x \in Entities |-> NoDelivery]
  /\ waiting = [x \in Entities |-> <<>>]
  /\ starts = [d \in Deliveries |-> 0]
  /\ accepted = <<>>
  /\ restarts = 0

-----------------------------------------------------------------------------
(* The reply.  A 200 may be lost, or come after the tracker timed out.     *)
Succeed(d) == owed' \in {owed, owed \ {EventOf(d)}}
Fail == UNCHANGED owed
Ends(d, how) == stage' = [stage EXCEPT ![d] = how]

(* alreadySeen: a new key goes in, and past the cap the oldest goes out.   *)
AlreadySeen(e) == e \in Range(seen)
Remember_CapReached(e) ==
  LET longer == Append(seen, e)
  IN  seen' = IF Len(longer) >= SeenCap THEN Tail(longer) ELSE longer
Remember(e) ==
  LET longer == Append(seen, e)
  IN  seen' = IF Len(longer) > SeenCap THEN Tail(longer) ELSE longer

(* A delivery arrives, the first of its event or one more because the      *)
(* tracker heard an error or nothing.  Up to parseEvent's first await this *)
(* is one step, and the key is remembered in it.                           *)
Deliver_AddsFirst(d) ==
  /\ EventOf(d) \in owed
  /\ stage[d] = "unsent"
  /\ \A n \in 1..d[2] - 1 : stage[<<EventOf(d), n>>] # "unsent"
  /\ Ends(d, "discarded") /\ Succeed(d)
  /\ IF AlreadySeen(EventOf(d)) THEN UNCHANGED seen ELSE Remember(EventOf(d))
  /\ UNCHANGED <<timers, waiting, starts, accepted, restarts>>
Deliver(d) ==
  /\ EventOf(d) \in owed
  /\ stage[d] = "unsent"
  /\ \A n \in 1..d[2] - 1 : stage[<<EventOf(d), n>>] # "unsent"
  /\ IF AlreadySeen(EventOf(d))
     THEN Ends(d, "discarded") /\ Succeed(d) /\ UNCHANGED <<seen, accepted>>
     ELSE /\ Ends(d, "parse") /\ Fail
          /\ Remember(EventOf(d))
          /\ accepted' = Append(accepted, EventOf(d))
  /\ UNCHANGED <<timers, waiting, starts, restarts>>

(* parseEvent throws, finds no event, or produces one.                     *)
Parse(d) ==
  /\ stage[d] = "parse"
  /\ \/ Ends(d, "failed") /\ Fail
     \/ Ends(d, "ignored") /\ Succeed(d)
     \/ Ends(d, "teams") /\ UNCHANGED owed
  /\ UNCHANGED <<seen, timers, waiting, starts, accepted, restarts>>

(* dispatch: a first pass calls the agent at once; a follow-up replaces    *)
(* the entity's timer, which keeps this delivery's trace id.               *)
Dispatch_KeepsTimer(d) ==
  LET x == EntityAt(d)
  IN  \/ /\ PassOf[EventOf(d)] = "first"
         /\ starts' = [starts EXCEPT ![d] = @ + 1]
         /\ UNCHANGED <<timers, waiting>>
      \/ /\ PassOf[EventOf(d)] = "follow-up"
         /\ timers' = [timers EXCEPT ![x] = IF @ = NoDelivery THEN d ELSE @]
         /\ waiting' = [waiting EXCEPT ![x] = Append(@, d)]
         /\ UNCHANGED starts
Dispatch(d) ==
  LET x == EntityAt(d)
  IN  \/ /\ PassOf[EventOf(d)] = "first"
         /\ starts' = [starts EXCEPT ![d] = @ + 1]
         /\ UNCHANGED <<timers, waiting>>
      \/ /\ PassOf[EventOf(d)] = "follow-up"
         /\ timers' = [timers EXCEPT ![x] = d]
         /\ waiting' = [waiting EXCEPT ![x] = Append(@, d)]
         /\ UNCHANGED starts

(* entityTeamIds answers; the rest of the handler runs without an await:   *)
(* the allowlist, the lane, the dispatch.                                  *)
Route(d) ==
  /\ stage[d] = "teams"
  /\ \/ Ends(d, "failed") /\ Fail /\ UNCHANGED <<timers, waiting, starts>>
     \/ Ends(d, "ignored") /\ Succeed(d) /\ UNCHANGED <<timers, waiting, starts>>
     \/ Ends(d, "dispatched") /\ Succeed(d) /\ Dispatch(d)
  /\ UNCHANGED <<seen, accepted, restarts>>

(* The debounce elapses: the timer deletes itself and calls the agent.     *)
DebounceElapses_TimerStays(x) ==
  /\ timers[x] # NoDelivery /\ \A d \in Deliveries : starts[d] < 2
  /\ starts' = [starts EXCEPT ![timers[x]] = @ + 1]
  /\ waiting' = [waiting EXCEPT ![x] = <<>>]
  /\ UNCHANGED <<owed, stage, seen, timers, accepted, restarts>>
DebounceElapses_NotCalled(x) ==
  /\ timers[x] # NoDelivery
  /\ timers' = [timers EXCEPT ![x] = NoDelivery]
  /\ UNCHANGED <<owed, stage, seen, starts, waiting, accepted, restarts>>
DebounceElapses(x) ==
  /\ timers[x] # NoDelivery
  /\ timers' = [timers EXCEPT ![x] = NoDelivery]
  /\ starts' = [starts EXCEPT ![timers[x]] = @ + 1]
  /\ waiting' = [waiting EXCEPT ![x] = <<>>]
  /\ UNCHANGED <<owed, stage, seen, accepted, restarts>>

(* The process is replaced: handlers, timers and seen keys are gone, and   *)
(* no reply leaves for the requests it held.                               *)
Interrupted(d) ==
  IF stage[d] \in InHand THEN "cut"
  ELSE IF d \in Range(waiting[EntityAt(d)]) THEN "stranded" ELSE stage[d]

Restart ==
  /\ restarts < MaxRestarts
  /\ restarts' = restarts + 1
  /\ stage' = [d \in Deliveries |-> Interrupted(d)]
  /\ seen' = <<>> /\ accepted' = <<>>
  /\ timers' = [x \in Entities |-> NoDelivery]
  /\ waiting' = [x \in Entities |-> <<>>]
  /\ UNCHANGED <<owed, starts>>

Handle(d) == Parse(d) \/ Route(d)

Next ==
  \/ \E d \in Deliveries : Deliver(d) \/ Handle(d)
  \/ \E x \in Entities : DebounceElapses(x)
  \/ Restart

Spec == Init /\ [][Next]_vars

(* Requests to Linear end, by an answer or an error, and the event loop    *)
(* runs a due timer.  The tracker and restarts owe nothing.                *)
Fairness ==
  /\ \A d \in Deliveries : WF_vars(Handle(d))
  /\ \A x \in Entities : WF_vars(DebounceElapses(x))

FairSpec == Spec /\ Fairness

-----------------------------------------------------------------------------
(* Properties.                                                             *)

(* However retries, evictions and superseded timers fall, a delivery calls *)
(* the agent at most once, and only when its handler dispatched it.        *)
StartsOnce ==
  \A d \in Deliveries :
    starts[d] > 0 => starts[d] = 1 /\ stage[d] = "dispatched"

(* What "seen" is worth: of any SeenCap + 1 events accepted in a row by    *)
(* one process, no two are the same (agent-scheduler.ts:34-40).            *)
DedupeWindow ==
  \A i, j \in 1..Len(accepted) :
    i < j /\ accepted[i] = accepted[j] => j - i > SeenCap

(* A burst of replies is one pending timer, and it carries the latest one  *)
(* (agent-scheduler.ts:62-77): no accepted reply is left without a timer,  *)
(* and no timer is left without one.                                       *)
TimerHoldsLatest ==
  \A x \in Entities :
    timers[x] = IF waiting[x] = <<>> THEN NoDelivery ELSE Last(waiting[x])

(* An event the tracker was told is delivered is in hand, or was decided   *)
(* upon, or was lost to an error of its handler or to a restart: nothing   *)
(* is only ever discarded (server.ts:85-120).                              *)
DeliveredIsTaken ==
  \A e \in Events \ owed :
    \E n \in 1..MaxAttempts : stage[<<e, n>>] \notin {"unsent", "discarded"}

(* Every accepted reply is read: the agent starts for its entity after it, *)
(* unless the process restarts first.                                      *)
Read(d) == d \notin Range(waiting[EntityAt(d)])
RepliesAreRead == \A d \in Deliveries : stage[d] = "dispatched" ~> Read(d)

(***************************************************************************)
(* What the repository says and the code does not do (README, section 5).  *)
(* The run's configuration refutes each of these when it is added to it.   *)
(***************************************************************************)
(* The reason the header of agent-scheduler.ts gives for discarding: the   *)
(* same event must not fire an agent twice.  So what is discarded fired,   *)
(* was turned down or still may be, in some delivery.                      *)
DiscardedWasHandled ==
  \A d \in Deliveries : stage[d] = "discarded" =>
    \E n \in 1..MaxAttempts :
      stage[<<EventOf(d), n>>] \notin {"unsent", "discarded", "failed"}
=============================================================================

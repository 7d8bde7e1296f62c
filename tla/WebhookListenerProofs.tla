----------------------- MODULE WebhookListenerProofs -----------------------
(***************************************************************************)
(* Theorems about WebhookListener, for every set of events and entities    *)
(* and every cap and retry limit.                                          *)
(***************************************************************************)
EXTENDS WebhookListener, SequenceTheorems, TLAPS

(* A waiting reply belongs to its entity, was dispatched and has started   *)
(* nothing yet.                                                            *)
Pending ==
  \A x \in Entities : \A k \in 1..Len(waiting[x]) :
    /\ EntityAt(waiting[x][k]) = x
    /\ stage[waiting[x][k]] = "dispatched"
    /\ starts[waiting[x][k]] = 0

(* A key is only ever in seenEvents because a delivery was taken in hand.  *)
Taken(e) == \E n \in 1..MaxAttempts : stage[<<e, n>>] \notin {"unsent", "discarded"}
SeenWereTaken == \A k \in 1..Len(seen) : Taken(seen[k])

(* seenEvents is the tail of what was accepted, as long as the cap allows. *)
SeenIsTail ==
  /\ Len(accepted) < SeenCap => Len(seen) = Len(accepted)
  /\ Len(accepted) >= SeenCap => Len(seen) = SeenCap
  /\ \A k \in 1..Len(seen) : seen[k] = accepted[Len(accepted) - Len(seen) + k]

TimerInv == TypeOK /\ Pending /\ StartsOnce /\ TimerHoldsLatest
TakenInv == TypeOK /\ SeenWereTaken /\ DeliveredIsTaken
WindowInv == TypeOK /\ SeenIsTail /\ DedupeWindow

-----------------------------------------------------------------------------
LEMMA TypeInit == Init => TypeOK
  BY ListenerAssumption DEF ListenerAssumption, Init, TypeOK, Stages, Deliveries, InHand

(* seenEvents keeps to its cap.                                            *)
LEMMA RememberType ==
  ASSUME TypeOK, NEW e \in Events, Remember(e)
  PROVE  seen' \in Seq(Events) /\ Len(seen') <= SeenCap
<1> DEFINE longer == Append(seen, e)
<1>1. /\ longer \in Seq(Events) /\ longer # <<>>
      /\ Len(seen) \in Nat /\ Len(longer) = Len(seen) + 1
      /\ Len(seen) <= SeenCap /\ SeenCap \in Nat
  <2>1. seen \in Seq(Events) /\ Len(seen) <= SeenCap
    BY DEF TypeOK
  <2>2. Len(seen) \in Nat
    BY <2>1, LenProperties
  <2>3. /\ longer \in Seq(Events) /\ longer # <<>>
        /\ Len(longer) = Len(seen) + 1
    BY <2>1, AppendProperties
  <2> QED BY <2>1, <2>2, <2>3, ListenerAssumption DEF ListenerAssumption
<1>2. Tail(longer) \in Seq(Events) /\ Len(Tail(longer)) = Len(longer) - 1
  BY <1>1, HeadTailProperties
<1>3. seen' = IF Len(longer) > SeenCap THEN Tail(longer) ELSE longer
  BY DEF Remember
<1> HIDE DEF longer
<1> QED BY <1>1, <1>2, <1>3

(* A follow-up waits last, and everything before it waits as it did.       *)
LEMMA WaitingGrows ==
  ASSUME TypeOK, NEW x \in Entities, NEW d \in Deliveries,
         waiting' = [waiting EXCEPT ![x] = Append(@, d)]
  PROVE  /\ waiting' \in [Entities -> Seq(Deliveries)]
         /\ waiting[x] \in Seq(Deliveries) /\ waiting'[x] # <<>>
         /\ Len(waiting'[x]) = Len(waiting[x]) + 1
         /\ waiting'[x][Len(waiting'[x])] = d
         /\ \A k \in 1..Len(waiting[x]) : waiting'[x][k] = waiting[x][k]
         /\ \A y \in Entities \ {x} : waiting'[y] = waiting[y]
<1>1. waiting[x] \in Seq(Deliveries)
  BY DEF TypeOK
<1>2. waiting'[x] = Append(waiting[x], d) /\ \A y \in Entities \ {x} : waiting'[y] = waiting[y]
  BY DEF TypeOK
<1>3. /\ Append(waiting[x], d) \in Seq(Deliveries) /\ Append(waiting[x], d) # <<>>
      /\ Len(Append(waiting[x], d)) = Len(waiting[x]) + 1
      /\ Append(waiting[x], d)[Len(waiting[x]) + 1] = d
      /\ \A k \in 1..Len(waiting[x]) : Append(waiting[x], d)[k] = waiting[x][k]
  BY <1>1, AppendProperties
<1>4. waiting' \in [Entities -> Seq(Deliveries)]
  BY <1>3 DEF TypeOK
<1> QED BY <1>1, <1>2, <1>3, <1>4

LEMMA TypeStep == TypeOK /\ [Next]_vars => TypeOK'
<1> SUFFICES ASSUME TypeOK, [Next]_vars PROVE TypeOK'
  OBVIOUS
<1>1. ASSUME NEW d \in Deliveries, Deliver(d) PROVE TypeOK'
  <2>1. EventOf(d) \in Events /\ owed' \subseteq Events
    BY <1>1 DEF Deliver, Succeed, Fail, TypeOK, Deliveries, EventOf
  <2>2. stage' \in [Deliveries -> Stages]
    BY <1>1 DEF Deliver, Ends, TypeOK, Stages, InHand
  <2>3. /\ seen' \in Seq(Events) /\ Len(seen') <= SeenCap
        /\ accepted' \in Seq(Events)
    <3>1. seen \in Seq(Events) /\ Len(seen) <= SeenCap /\ accepted \in Seq(Events)
      BY DEF TypeOK
    <3>2. Append(accepted, EventOf(d)) \in Seq(Events)
      BY <2>1, <3>1, AppendProperties
    <3> QED BY <1>1, <2>1, <3>1, <3>2, RememberType DEF Deliver
  <2> QED BY <1>1, <2>1, <2>2, <2>3 DEF Deliver, TypeOK
<1>2. ASSUME NEW d \in Deliveries, Parse(d) PROVE TypeOK'
  BY <1>2 DEF Parse, Ends, Fail, Succeed, TypeOK, Stages, InHand
<1>3. ASSUME NEW d \in Deliveries, Route(d) PROVE TypeOK'
  <2>1. owed' \subseteq Events /\ stage' \in [Deliveries -> Stages]
    BY <1>3 DEF Route, Ends, Fail, Succeed, TypeOK, Stages, InHand
  <2>2. EntityAt(d) \in Entities
    BY ListenerAssumption DEF ListenerAssumption, Deliveries, EntityAt, EventOf
  <2>3. /\ timers' \in [Entities -> Deliveries \cup {NoDelivery}]
        /\ waiting' \in [Entities -> Seq(Deliveries)]
        /\ starts' \in [Deliveries -> Nat]
    <3>1. CASE UNCHANGED <<timers, waiting, starts>>
      BY <3>1 DEF TypeOK
    <3>2. CASE Dispatch(d)
      <4>1. CASE UNCHANGED <<timers, waiting>> /\ starts' = [starts EXCEPT ![d] = @ + 1]
        BY <4>1 DEF TypeOK
      <4>2. CASE /\ timers' = [timers EXCEPT ![EntityAt(d)] = d]
                 /\ waiting' = [waiting EXCEPT ![EntityAt(d)] = Append(@, d)]
                 /\ UNCHANGED starts
        <5>1. waiting' \in [Entities -> Seq(Deliveries)]
          BY <2>2, <4>2, WaitingGrows
        <5> QED BY <4>2, <5>1 DEF TypeOK
      <4> QED BY <3>2, <4>1, <4>2 DEF Dispatch
    <3> QED BY <1>3, <3>1, <3>2 DEF Route
  <2> QED BY <1>3, <2>1, <2>3 DEF Route, TypeOK
<1>4. ASSUME NEW x \in Entities, DebounceElapses(x) PROVE TypeOK'
  BY <1>4 DEF DebounceElapses, TypeOK
<1>5. ASSUME Restart PROVE TypeOK'
  <2>1. \A d \in Deliveries : Interrupted(d) \in Stages
    BY DEF Interrupted, TypeOK, Stages, InHand
  <2>2. stage' \in [Deliveries -> Stages]
    BY <1>5, <2>1 DEF Restart
  <2>3. <<>> \in Seq(Events) /\ <<>> \in Seq(Deliveries) /\ Len(<<>>) <= SeenCap
    BY EmptySeq, ListenerAssumption DEF ListenerAssumption
  <2>4. restarts' \in 0..MaxRestarts
    BY <1>5, ListenerAssumption DEF Restart, TypeOK, ListenerAssumption
  <2> QED BY <1>5, <2>2, <2>3, <2>4 DEF Restart, TypeOK
<1>6. CASE UNCHANGED vars
  BY <1>6 DEF vars, TypeOK
<1> QED BY <1>1, <1>2, <1>3, <1>4, <1>5, <1>6 DEF Next, Handle

(* TypeOK holds throughout, whatever the tracker delivers and how often    *)
(* (WebhookListener.tla; the state of agent-scheduler.ts:27-32).           *)
THEOREM ListenerTypeCorrect == Spec => []TypeOK
  BY TypeInit, TypeStep, PTL DEF Spec

-----------------------------------------------------------------------------
(* Timers and runs.                                                        *)

LEMMA TimerInit == Init => TimerInv
<1> SUFFICES ASSUME Init PROVE TimerInv
  OBVIOUS
<1> QED BY TypeInit DEF Init, TimerInv, Pending, StartsOnce, TimerHoldsLatest

(* A delivery that is not dispatched has started nothing and waits for     *)
(* nothing.                                                                *)
LEMMA Unstarted ==
  ASSUME TimerInv, NEW d \in Deliveries, stage[d] # "dispatched"
  PROVE  /\ starts[d] = 0
         /\ \A x \in Entities : \A k \in 1..Len(waiting[x]) : waiting[x][k] # d
  BY DEF TimerInv, TypeOK, Pending, StartsOnce

(* Steps that leave timers alone and disturb no dispatched delivery.       *)
LEMMA TimersUntouched ==
  ASSUME TimerInv, TypeOK', UNCHANGED <<timers, waiting, starts>>,
         \A d \in Deliveries : stage[d] = "dispatched" => stage'[d] = "dispatched"
  PROVE  TimerInv'
<1>1. Pending' /\ StartsOnce'
  <2>1. \A x \in Entities : \A k \in 1..Len(waiting[x]) : waiting[x][k] \in Deliveries
    BY DEF TimerInv, TypeOK
  <2> QED BY <2>1 DEF TimerInv, Pending, StartsOnce, EntityAt, EventOf
<1>2. TimerHoldsLatest'
  BY DEF TimerInv, TimerHoldsLatest, Last
<1> QED BY <1>1, <1>2 DEF TimerInv

LEMMA TimerInvStep == TimerInv /\ [Next]_vars => TimerInv'
<1> SUFFICES ASSUME TimerInv, [Next]_vars PROVE TimerInv'
  OBVIOUS
<1>0. TypeOK /\ TypeOK'
  BY TypeStep DEF TimerInv
<1>1. ASSUME NEW d \in Deliveries, Deliver(d) PROVE TimerInv'
  <2>1. \A c \in Deliveries : stage[c] = "dispatched" => stage'[c] = "dispatched"
    BY <1>0, <1>1 DEF Deliver, Ends, TypeOK
  <2> QED BY <1>0, <1>1, <2>1, TimersUntouched DEF Deliver
<1>2. ASSUME NEW d \in Deliveries, Parse(d) PROVE TimerInv'
  <2>1. \A c \in Deliveries : stage[c] = "dispatched" => stage'[c] = "dispatched"
    BY <1>0, <1>2 DEF Parse, Ends, TypeOK
  <2> QED BY <1>0, <1>2, <2>1, TimersUntouched DEF Parse
<1>3. ASSUME NEW d \in Deliveries, Route(d) PROVE TimerInv'
  <2>1. /\ stage[d] = "teams"
        /\ \A c \in Deliveries : stage[c] = "dispatched" => stage'[c] = "dispatched"
    BY <1>0, <1>3 DEF Route, Ends, TypeOK
  <2>2. CASE UNCHANGED <<timers, waiting, starts>>
    BY <1>0, <2>1, <2>2, TimersUntouched
  <2>3. CASE Ends(d, "dispatched") /\ Dispatch(d)
    <3> DEFINE x == EntityAt(d)
    <3>1. /\ x \in Entities
          /\ stage'[d] = "dispatched"
          /\ starts[d] = 0
          /\ \A y \in Entities : \A k \in 1..Len(waiting[y]) : waiting[y][k] # d
      BY <1>0, <2>1, <2>3, Unstarted, ListenerAssumption
      DEF ListenerAssumption, Ends, TypeOK, Deliveries, EntityAt, EventOf
    <3>2. CASE /\ starts' = [starts EXCEPT ![d] = @ + 1]
               /\ UNCHANGED <<timers, waiting>>
      <4>1. StartsOnce'
        BY <1>0, <2>1, <3>1, <3>2 DEF TimerInv, StartsOnce, TypeOK
      <4>2. Pending'
        <5> SUFFICES ASSUME NEW y \in Entities, NEW k \in 1..Len(waiting[y])
                     PROVE  /\ EntityAt(waiting[y][k]) = y
                            /\ stage'[waiting[y][k]] = "dispatched"
                            /\ starts'[waiting[y][k]] = 0
          BY <3>2 DEF Pending, EntityAt, EventOf
        <5>1. waiting[y][k] \in Deliveries /\ waiting[y][k] # d
          BY <1>0, <3>1 DEF TypeOK
        <5> QED BY <1>0, <2>1, <3>2, <5>1 DEF TimerInv, Pending, TypeOK
      <4>3. TimerHoldsLatest'
        BY <3>2 DEF TimerInv, TimerHoldsLatest, Last
      <4> QED BY <1>0, <4>1, <4>2, <4>3 DEF TimerInv
    <3>3. CASE /\ timers' = [timers EXCEPT ![x] = d]
               /\ waiting' = [waiting EXCEPT ![x] = Append(@, d)]
               /\ UNCHANGED starts
      <4>1. StartsOnce'
        BY <1>0, <2>1, <3>3 DEF TimerInv, StartsOnce, TypeOK
      <4>2. Pending'
        <5> SUFFICES ASSUME NEW y \in Entities, NEW k \in 1..Len(waiting'[y])
                     PROVE  /\ EntityAt(waiting'[y][k]) = y
                            /\ stage'[waiting'[y][k]] = "dispatched"
                            /\ starts[waiting'[y][k]] = 0
          BY <3>3 DEF Pending, EntityAt, EventOf
        <5>1. CASE y = x /\ k = Len(waiting[x]) + 1
          <6>1. waiting'[y][k] = d
            BY <1>0, <3>1, <3>3, <5>1, WaitingGrows
          <6> QED BY <3>1, <5>1, <6>1
        <5>2. CASE ~(y = x /\ k = Len(waiting[x]) + 1)
          <6>1. k \in 1..Len(waiting[y]) /\ waiting'[y][k] = waiting[y][k]
            <7>1. CASE y = x
              <8>1. Len(waiting[x]) \in Nat
                BY <1>0, <3>1, LenProperties DEF TypeOK
              <8> QED BY <1>0, <3>1, <3>3, <5>2, <7>1, <8>1, WaitingGrows
            <7>2. CASE y # x
              BY <1>0, <3>1, <3>3, <7>2, WaitingGrows
            <7> QED BY <7>1, <7>2
          <6>2. waiting[y][k] \in Deliveries
            BY <1>0, <6>1 DEF TypeOK
          <6> QED BY <2>1, <6>1, <6>2 DEF TimerInv, Pending
        <5> QED BY <5>1, <5>2
      <4>3. TimerHoldsLatest'
        <5> SUFFICES ASSUME NEW y \in Entities
                     PROVE  timers'[y] = IF waiting'[y] = <<>> THEN NoDelivery
                                         ELSE Last(waiting'[y])
          BY DEF TimerHoldsLatest, Last
        <5>1. CASE y = x
          <6>1. waiting'[x] # <<>> /\ Last(waiting'[x]) = d /\ timers'[x] = d
            <7>1. waiting'[x] # <<>> /\ waiting'[x][Len(waiting'[x])] = d
              BY <1>0, <3>1, <3>3, WaitingGrows
            <7>2. timers'[x] = d
              BY <1>0, <3>1, <3>3 DEF TypeOK
            <7> QED BY <7>1, <7>2 DEF Last
          <6> QED BY <5>1, <6>1
        <5>2. CASE y # x
          BY <1>0, <3>1, <3>3, <5>2 DEF TypeOK, TimerInv, TimerHoldsLatest
        <5> QED BY <5>1, <5>2
      <4> QED BY <1>0, <4>1, <4>2, <4>3 DEF TimerInv
    <3> QED BY <2>3, <3>2, <3>3 DEF Dispatch
  <2> QED BY <1>3, <2>2, <2>3 DEF Route
<1>4. ASSUME NEW x \in Entities, DebounceElapses(x) PROVE TimerInv'
  <2> DEFINE d == timers[x]
  <2>1. /\ d \in Deliveries /\ d # NoDelivery /\ Len(waiting[x]) \in Nat \ {0}
        /\ d = waiting[x][Len(waiting[x])]
    <3>1. waiting[x] \in Seq(Deliveries) /\ waiting[x] # <<>> /\ d = Last(waiting[x])
      BY <1>0, <1>4 DEF DebounceElapses, TimerInv, TimerHoldsLatest, TypeOK
    <3> QED BY <1>0, <1>4, <3>1 DEF DebounceElapses, TypeOK, Last
  <2>2. EntityAt(d) = x /\ stage[d] = "dispatched" /\ starts[d] = 0
    BY <2>1 DEF TimerInv, Pending
  <2>3. StartsOnce'
    BY <1>0, <1>4, <2>1, <2>2 DEF DebounceElapses, TimerInv, StartsOnce, TypeOK
  <2>4. Pending'
    <3> SUFFICES ASSUME NEW y \in Entities, NEW k \in 1..Len(waiting'[y])
                 PROVE  /\ EntityAt(waiting'[y][k]) = y
                        /\ stage[waiting'[y][k]] = "dispatched"
                        /\ starts'[waiting'[y][k]] = 0
      BY <1>4 DEF DebounceElapses, Pending, EntityAt, EventOf
    <3>1. y # x /\ waiting'[y] = waiting[y]
      BY <1>0, <1>4 DEF DebounceElapses, TypeOK
    <3>2. /\ EntityAt(waiting[y][k]) = y /\ stage[waiting[y][k]] = "dispatched"
          /\ starts[waiting[y][k]] = 0 /\ waiting[y][k] \in Deliveries
      BY <1>0, <3>1 DEF TimerInv, Pending, TypeOK
    <3> QED BY <1>0, <1>4, <2>2, <3>1, <3>2 DEF DebounceElapses, TypeOK
  <2>5. TimerHoldsLatest'
    <3> SUFFICES ASSUME NEW y \in Entities
                 PROVE  timers'[y] = IF waiting'[y] = <<>> THEN NoDelivery
                                     ELSE Last(waiting'[y])
      BY DEF TimerHoldsLatest, Last
    <3> QED BY <1>0, <1>4 DEF DebounceElapses, TypeOK, TimerInv, TimerHoldsLatest
  <2> QED BY <1>0, <2>3, <2>4, <2>5 DEF TimerInv
<1>5. ASSUME Restart PROVE TimerInv'
  <2>1. StartsOnce'
    <3> SUFFICES ASSUME NEW d \in Deliveries, starts[d] > 0
                 PROVE  starts[d] = 1 /\ stage'[d] = "dispatched"
      BY <1>5 DEF Restart, StartsOnce
    <3>1. starts[d] = 1 /\ stage[d] = "dispatched"
      BY DEF TimerInv, StartsOnce
    <3>2. d \notin Range(waiting[EntityAt(d)])
      <4>1. EntityAt(d) \in Entities
        BY ListenerAssumption DEF ListenerAssumption, Deliveries, EntityAt, EventOf
      <4>2. \A k \in 1..Len(waiting[EntityAt(d)]) : waiting[EntityAt(d)][k] # d
        BY <3>1, <4>1 DEF TimerInv, Pending
      <4> QED BY <1>0, <4>1, <4>2 DEF Range, TypeOK
    <3> QED BY <1>5, <3>1, <3>2 DEF Restart, Interrupted, InHand
  <2>2. Pending' /\ TimerHoldsLatest'
    BY <1>5 DEF Restart, Pending, TimerHoldsLatest
  <2> QED BY <1>0, <2>1, <2>2 DEF TimerInv
<1>6. CASE UNCHANGED vars
  BY <1>0, <1>6, TimersUntouched DEF vars
<1> QED BY <1>1, <1>2, <1>3, <1>4, <1>5, <1>6 DEF Next, Handle

LEMMA TimerInvariance == Spec => []TimerInv
  BY TimerInit, TimerInvStep, PTL DEF Spec

(* A delivery calls the agent at most once, and only if it was dispatched  *)
(* (agent-scheduler.ts:42-78): no timer fires twice, none that was         *)
(* superseded fires, however handlers and timers interleave.               *)
THEOREM DeliveriesStartOnce == Spec => []StartsOnce
  BY TimerInvariance, PTL DEF TimerInv

(* A burst of replies is one pending timer, the latest reply's, and no     *)
(* accepted reply is left without one (agent-scheduler.ts:62-77).          *)
THEOREM BurstsHaveOneTimer == Spec => []TimerHoldsLatest
  BY TimerInvariance, PTL DEF TimerInv

-----------------------------------------------------------------------------
(* What is discarded was taken in hand once.                               *)

LEMMA TakenInit == Init => TakenInv
<1> SUFFICES ASSUME Init PROVE TakenInv
  OBVIOUS
<1>1. SeenWereTaken
  BY DEF Init, SeenWereTaken
<1>2. DeliveredIsTaken
  BY DEF Init, DeliveredIsTaken
<1> QED BY TypeInit, <1>1, <1>2 DEF TakenInv

(* No step takes back that a delivery was taken in hand.                   *)
LEMMA TakenStays ==
  ASSUME TypeOK, [Next]_vars, NEW e \in Events, Taken(e)
  PROVE  Taken(e)'
<1> DEFINE idle == {"unsent", "discarded"}
<1>1. PICK n \in 1..MaxAttempts : stage[<<e, n>>] \notin idle
  BY DEF Taken
<1>2. <<e, n>> \in Deliveries
  BY DEF Deliveries
<1>3. SUFFICES stage'[<<e, n>>] \notin idle
  BY DEF Taken
<1>4. ASSUME NEW d \in Deliveries, Deliver(d) PROVE stage'[<<e, n>>] \notin idle
  BY <1>1, <1>2, <1>4 DEF Deliver, Ends, TypeOK
<1>5. ASSUME NEW d \in Deliveries, Parse(d) PROVE stage'[<<e, n>>] \notin idle
  BY <1>1, <1>2, <1>5 DEF Parse, Ends, TypeOK
<1>6. ASSUME NEW d \in Deliveries, Route(d) PROVE stage'[<<e, n>>] \notin idle
  BY <1>1, <1>2, <1>6 DEF Route, Ends, TypeOK
<1>7. ASSUME NEW x \in Entities, DebounceElapses(x) PROVE stage'[<<e, n>>] \notin idle
  BY <1>1, <1>7 DEF DebounceElapses
<1>8. ASSUME Restart PROVE stage'[<<e, n>>] \notin idle
  BY <1>1, <1>2, <1>8 DEF Restart, Interrupted
<1>9. CASE UNCHANGED vars
  BY <1>1, <1>9 DEF vars
<1> QED BY <1>4, <1>5, <1>6, <1>7, <1>8, <1>9 DEF Next, Handle

(* A delivery whose handler got past the deduplication.                    *)
LEMMA InHandIsTaken ==
  ASSUME NEW d \in Deliveries, stage[d] \notin {"unsent", "discarded"}
  PROVE  Taken(EventOf(d))
<1>1. PICK e \in Events, n \in 1..MaxAttempts : d = <<e, n>>
  BY DEF Deliveries
<1> QED BY <1>1 DEF Taken, EventOf

(* Only what was taken in hand stops being owed.                           *)
LEMMA OwedStep ==
  ASSUME TypeOK, DeliveredIsTaken, [Next]_vars,
         \A e \in owed \ owed' : Taken(e)
  PROVE  DeliveredIsTaken'
<1> SUFFICES ASSUME NEW e \in Events, e \notin owed' PROVE Taken(e)'
  BY DEF DeliveredIsTaken, Taken
<1>1. Taken(e)
  BY DEF DeliveredIsTaken, Taken
<1> QED BY <1>1, TakenStays

(* The new key is last; every other one was there before.                  *)
LEMMA Remembered ==
  ASSUME TypeOK, NEW e \in Events, Remember(e)
  PROVE  /\ seen' \in Seq(Events) /\ Len(seen) \in Nat /\ Len(seen') \in Nat
         /\ Len(seen) < SeenCap => Len(seen') = Len(seen) + 1
         /\ Len(seen) >= SeenCap => Len(seen') = Len(seen)
         /\ Len(seen') >= 1 /\ seen'[Len(seen')] = e
         /\ Len(seen) < SeenCap => \A k \in 1..Len(seen) : seen'[k] = seen[k]
         /\ Len(seen) >= SeenCap =>
              \A k \in 1..Len(seen) - 1 : seen'[k] = seen[k + 1]
<1> DEFINE longer == Append(seen, e)
<1>1. seen \in Seq(Events) /\ Len(seen) \in Nat /\ Len(seen) <= SeenCap
  BY LenProperties DEF TypeOK
<1>2. SeenCap \in Nat \ {0}
  BY ListenerAssumption DEF ListenerAssumption
<1>3. /\ longer \in Seq(Events) /\ longer # <<>>
      /\ Len(longer) = Len(seen) + 1
      /\ \A k \in 1..Len(seen) : longer[k] = seen[k]
      /\ longer[Len(seen) + 1] = e
  BY <1>1, AppendProperties
<1>4. /\ Tail(longer) \in Seq(Events) /\ Len(Tail(longer)) = Len(longer) - 1
      /\ \A k \in 1..Len(Tail(longer)) : Tail(longer)[k] = longer[k + 1]
  BY <1>3, HeadTailProperties
<1>5. seen' = IF Len(longer) > SeenCap THEN Tail(longer) ELSE longer
  BY DEF Remember
<1> HIDE DEF longer
<1>6. CASE Len(seen) < SeenCap
  <2>1. seen' = longer
    BY <1>1, <1>2, <1>3, <1>5, <1>6
  <2> QED BY <1>1, <1>2, <1>3, <1>6, <2>1
<1>7. CASE Len(seen) >= SeenCap
  <2>1. seen' = Tail(longer)
    BY <1>1, <1>2, <1>3, <1>5, <1>7
  <2>2. Len(seen') = Len(seen) /\ Len(seen) >= 1
    BY <1>1, <1>2, <1>3, <1>4, <1>7, <2>1
  <2>3. \A k \in 1..Len(seen) : seen'[k] = longer[k + 1]
    BY <1>4, <2>1, <2>2
  <2>4. seen'[Len(seen')] = e
    BY <1>1, <1>3, <2>2, <2>3
  <2>5. \A k \in 1..Len(seen) - 1 : seen'[k] = seen[k + 1]
    BY <1>1, <1>3, <2>2, <2>3
  <2>6. seen' \in Seq(Events) /\ Len(seen') \in Nat /\ ~(Len(seen) < SeenCap)
    BY <1>1, <1>2, <1>4, <1>7, <2>1, <2>2
  <2> QED BY <1>1, <2>2, <2>4, <2>5, <2>6
<1> QED BY <1>1, <1>2, <1>6, <1>7

LEMMA SeenKeys ==
  ASSUME TypeOK, NEW k \in 1..Len(seen)
  PROVE  seen[k] \in Events
  BY LenProperties DEF TypeOK

LEMMA TakenInvStep == TakenInv /\ [Next]_vars => TakenInv'
<1> SUFFICES ASSUME TakenInv, [Next]_vars PROVE TakenInv'
  OBVIOUS
<1>0. TypeOK /\ TypeOK'
  BY TypeStep DEF TakenInv
<1>1. SUFFICES SeenWereTaken' /\ (\A e \in owed \ owed' : Taken(e))
  BY <1>0, OwedStep DEF TakenInv
<1>2. ASSUME UNCHANGED seen PROVE SeenWereTaken'
  BY <1>0, <1>2, SeenKeys, TakenStays DEF TakenInv, SeenWereTaken
<1>3. ASSUME NEW d \in Deliveries, Deliver(d)
      PROVE  SeenWereTaken' /\ (\A e \in owed \ owed' : Taken(e))
  <2> DEFINE e == EventOf(d)
  <2>1. e \in Events
    BY DEF Deliveries, EventOf
  <2>2. CASE AlreadySeen(e)
    <3>1. PICK k \in 1..Len(seen) : seen[k] = e
      BY <1>0, <2>2, LenProperties DEF AlreadySeen, Range, TypeOK
    <3>2. Taken(e)
      BY <3>1 DEF TakenInv, SeenWereTaken
    <3> QED BY <1>2, <1>3, <2>2, <3>2 DEF Deliver, Succeed
  <2>3. CASE ~AlreadySeen(e)
    <3>1. UNCHANGED owed /\ Remember(e) /\ Ends(d, "parse")
      BY <1>3, <2>3 DEF Deliver, Fail
    <3>2. stage'[d] = "parse"
      BY <1>0, <3>1 DEF Ends, TypeOK
    <3>3. Taken(e)'
      <4>1. PICK c \in Events, n \in 1..MaxAttempts : d = <<c, n>>
        BY DEF Deliveries
      <4> QED BY <3>2, <4>1 DEF Taken, EventOf
    <3>4. ASSUME NEW k \in 1..Len(seen') PROVE Taken(seen[k])'
      <4>1. seen'[k] = e \/ \E i \in 1..Len(seen) : seen'[k] = seen[i]
        <5>1. CASE k = Len(seen')
          BY <1>0, <2>1, <3>1, <5>1, Remembered
        <5>2. CASE k # Len(seen')
          <6>1. CASE Len(seen) < SeenCap
            BY <1>0, <2>1, <3>1, <5>2, <6>1, Remembered
          <6>2. CASE ~(Len(seen) < SeenCap)
            <7>1. SeenCap \in Nat
              BY ListenerAssumption DEF ListenerAssumption
            <7>2. k \in 1..Len(seen) - 1 /\ k + 1 \in 1..Len(seen) /\ seen'[k] = seen[k + 1]
              BY <1>0, <2>1, <3>1, <5>2, <6>2, <7>1, Remembered
            <7> QED BY <7>2
          <6> QED BY <6>1, <6>2
        <5> QED BY <5>1, <5>2
      <4>2. CASE seen'[k] = e
        BY <3>3, <4>2 DEF Taken
      <4>3. CASE \E i \in 1..Len(seen) : seen'[k] = seen[i]
        <5>1. PICK i \in 1..Len(seen) : seen'[k] = seen[i]
          BY <4>3
        <5>2. seen[i] \in Events /\ Taken(seen[i])
          BY <1>0, SeenKeys DEF TakenInv, SeenWereTaken
        <5>3. \E n \in 1..MaxAttempts : stage'[<<seen[i], n>>] \notin {"unsent", "discarded"}
          <6> DEFINE c == seen[i]
          <6>1. ASSUME NEW b \in Events, Taken(b)
                PROVE  \E n \in 1..MaxAttempts : stage'[<<b, n>>] \notin {"unsent", "discarded"}
            BY <1>0, <6>1, TakenStays DEF Taken
          <6> QED BY <5>2, <6>1
        <5> QED BY <5>1, <5>3 DEF Taken
      <4> QED BY <4>1, <4>2, <4>3
    <3> QED BY <3>1, <3>4 DEF SeenWereTaken
  <2> QED BY <2>2, <2>3
<1>4. ASSUME NEW d \in Deliveries, Handle(d)
      PROVE  SeenWereTaken' /\ (\A e \in owed \ owed' : Taken(e))
  <2>1. Taken(EventOf(d))
    BY <1>4, InHandIsTaken DEF Handle, Parse, Route
  <2> QED BY <1>2, <1>4, <2>1 DEF Handle, Parse, Route, Succeed, Fail
<1>5. ASSUME NEW x \in Entities, DebounceElapses(x)
      PROVE  SeenWereTaken' /\ (\A e \in owed \ owed' : Taken(e))
  BY <1>2, <1>5 DEF DebounceElapses
<1>6. ASSUME Restart PROVE SeenWereTaken' /\ (\A e \in owed \ owed' : Taken(e))
  BY <1>6 DEF Restart, SeenWereTaken
<1>7. CASE UNCHANGED vars
  BY <1>2, <1>7 DEF vars
<1> QED BY <1>3, <1>4, <1>5, <1>6, <1>7 DEF Next

(* An event the tracker was told is delivered was taken in hand by some    *)
(* delivery of it (server.ts:85-120): none is only ever discarded, through *)
(* evictions and restarts.                                                 *)
THEOREM DeliveredEventsWereTaken == Spec => []DeliveredIsTaken
<1>1. Spec => []TakenInv
  BY TakenInit, TakenInvStep, PTL DEF Spec
<1> QED BY <1>1, PTL DEF TakenInv

-----------------------------------------------------------------------------
(* The window of the deduplication.                                        *)

LEMMA WindowInit == Init => WindowInv
<1> SUFFICES ASSUME Init PROVE WindowInv
  OBVIOUS
<1>1. SeenIsTail /\ DedupeWindow
  BY ListenerAssumption, EmptySeq
  DEF Init, SeenIsTail, DedupeWindow, ListenerAssumption
<1> QED BY TypeInit, <1>1 DEF WindowInv

(* An accepted key is none of the last SeenCap that were accepted.         *)
LEMMA NotRecent ==
  ASSUME WindowInv, NEW e \in Events, ~AlreadySeen(e),
         NEW i \in 1..Len(accepted), accepted[i] = e
  PROVE  Len(accepted) + 1 - i > SeenCap
<1>1. /\ Len(accepted) \in Nat /\ Len(seen) \in Nat /\ DOMAIN seen = 1..Len(seen)
      /\ SeenCap \in Nat \ {0}
  BY LenProperties, ListenerAssumption DEF WindowInv, TypeOK, ListenerAssumption
<1>2. i \in Nat /\ i >= 1 /\ i <= Len(accepted)
  BY <1>1
<1>3. /\ Len(accepted) < SeenCap => Len(seen) = Len(accepted)
      /\ Len(accepted) >= SeenCap => Len(seen) = SeenCap
      /\ \A m \in 1..Len(seen) : seen[m] = accepted[Len(accepted) - Len(seen) + m]
  BY DEF WindowInv, SeenIsTail
<1>4. CASE Len(accepted) < SeenCap
  <2>1. i \in 1..Len(seen) /\ Len(accepted) - Len(seen) + i = i
    <3>1. Len(seen) = Len(accepted)
      BY <1>3, <1>4
    <3>2. i \in 1..Len(seen)
      BY <3>1
    <3> QED BY <1>1, <1>2, <3>1, <3>2
  <2>2. seen[i] = e
    BY <1>3, <2>1
  <2> QED BY <1>1, <2>1, <2>2 DEF AlreadySeen, Range
<1>5. CASE Len(accepted) >= SeenCap /\ Len(accepted) + 1 - i <= SeenCap
  <2>1. PICK m \in 1..Len(seen) : Len(accepted) - Len(seen) + m = i
    <3> DEFINE m == i - Len(accepted) + Len(seen)
    <3>1. m \in 1..Len(seen) /\ Len(accepted) - Len(seen) + m = i
      BY <1>1, <1>2, <1>3, <1>5
    <3> QED BY <3>1
  <2>2. seen[m] = e
    BY <1>3, <2>1
  <2> QED BY <1>1, <2>1, <2>2 DEF AlreadySeen, Range
<1> QED BY <1>1, <1>2, <1>4, <1>5

LEMMA WindowInvStep == WindowInv /\ [Next]_vars => WindowInv'
<1> SUFFICES ASSUME WindowInv, [Next]_vars PROVE WindowInv'
  OBVIOUS
<1>0. TypeOK /\ TypeOK'
  BY TypeStep DEF WindowInv
<1>1. ASSUME UNCHANGED <<seen, accepted>> PROVE WindowInv'
  BY <1>0, <1>1 DEF WindowInv, SeenIsTail, DedupeWindow
<1>2. ASSUME NEW d \in Deliveries, Deliver(d) PROVE WindowInv'
  <2> DEFINE e == EventOf(d)
  <2>1. CASE AlreadySeen(e)
    BY <1>1, <1>2, <2>1 DEF Deliver
  <2>2. CASE ~AlreadySeen(e)
    <3>1. e \in Events /\ Remember(e) /\ accepted' = Append(accepted, e)
      BY <1>2, <2>2 DEF Deliver, Deliveries, EventOf
    <3>2. SeenCap \in Nat \ {0}
      BY ListenerAssumption DEF ListenerAssumption
    <3>3. /\ Len(accepted) \in Nat /\ Len(accepted') = Len(accepted) + 1
          /\ \A k \in 1..Len(accepted) : accepted'[k] = accepted[k]
          /\ accepted'[Len(accepted')] = e
      <4>1. accepted \in Seq(Events)
        BY <1>0 DEF TypeOK
      <4> HIDE DEF e
      <4> QED BY <3>1, <4>1, AppendProperties, LenProperties
    <3> HIDE DEF e
    <3>4. SeenIsTail'
      <4>1. /\ Len(accepted') < SeenCap => Len(seen') = Len(accepted')
            /\ Len(accepted') >= SeenCap => Len(seen') = SeenCap
        <5>1. /\ Len(seen) \in Nat
              /\ Len(seen) < SeenCap => Len(seen') = Len(seen) + 1
              /\ Len(seen) >= SeenCap => Len(seen') = Len(seen)
          BY <1>0, <3>1, Remembered
        <5>2. /\ Len(accepted) < SeenCap => Len(seen) = Len(accepted)
              /\ Len(accepted) >= SeenCap => Len(seen) = SeenCap
          BY DEF WindowInv, SeenIsTail
        <5> QED BY <3>2, <3>3, <5>1, <5>2
      <4>2. ASSUME NEW k \in 1..Len(seen')
            PROVE  seen'[k] = accepted'[Len(accepted') - Len(seen') + k]
        <5>1. CASE k = Len(seen')
          BY <1>0, <3>1, <3>3, <5>1, Remembered
        <5>2. CASE k # Len(seen') /\ Len(seen) < SeenCap
          <6>1. k \in 1..Len(seen) /\ seen'[k] = seen[k] /\ Len(seen') = Len(seen) + 1
            BY <1>0, <3>1, <5>2, Remembered
          <6>2. /\ seen[k] = accepted[Len(accepted) - Len(seen) + k]
                /\ Len(seen) = Len(accepted)
            <7>1. /\ seen[k] = accepted[Len(accepted) - Len(seen) + k]
                  /\ Len(accepted) < SeenCap => Len(seen) = Len(accepted)
                  /\ Len(accepted) >= SeenCap => Len(seen) = SeenCap
              BY <6>1 DEF WindowInv, SeenIsTail
            <7> QED BY <3>2, <3>3, <5>2, <7>1
          <6> QED BY <3>3, <6>1, <6>2
        <5>3. CASE k # Len(seen') /\ ~(Len(seen) < SeenCap)
          <6>1. /\ Len(seen') = Len(seen) /\ k \in 1..Len(seen) - 1
                /\ seen'[k] = seen[k + 1] /\ Len(seen) \in Nat
            BY <1>0, <3>1, <3>2, <5>3, Remembered
          <6>2. /\ seen[k + 1] = accepted[Len(accepted) - Len(seen) + (k + 1)]
                /\ Len(seen) <= Len(accepted)
            <7>1. /\ Len(accepted) < SeenCap => Len(seen) = Len(accepted)
                  /\ Len(accepted) >= SeenCap => Len(seen) = SeenCap
                  /\ \A m \in 1..Len(seen) : seen[m] = accepted[Len(accepted) - Len(seen) + m]
              BY DEF WindowInv, SeenIsTail
            <7>2. k + 1 \in 1..Len(seen)
              BY <6>1
            <7>3. seen[k + 1] = accepted[Len(accepted) - Len(seen) + (k + 1)]
              BY <7>1, <7>2
            <7>4. Len(seen) <= Len(accepted)
              BY <3>2, <3>3, <6>1, <7>1
            <7> QED BY <7>3, <7>4
          <6> DEFINE m == Len(accepted) - Len(seen) + (k + 1)
          <6>3. m \in 1..Len(accepted) /\ m = Len(accepted') - Len(seen') + k
            BY <3>3, <6>1, <6>2
          <6> QED BY <3>3, <6>1, <6>2, <6>3
        <5> QED BY <5>1, <5>2, <5>3
      <4> QED BY <4>1, <4>2 DEF SeenIsTail
    <3>5. DedupeWindow'
      <4> SUFFICES ASSUME NEW i \in 1..Len(accepted'), NEW j \in 1..Len(accepted'),
                          i < j, accepted'[i] = accepted'[j]
                   PROVE  j - i > SeenCap
        BY DEF DedupeWindow
      <4>1. i \in 1..Len(accepted) /\ accepted'[i] = accepted[i]
        BY <3>3
      <4>2. CASE j = Len(accepted')
        BY <2>2, <3>1, <3>3, <4>1, <4>2, NotRecent DEF e
      <4>3. CASE j # Len(accepted')
        <5>1. j \in 1..Len(accepted) /\ accepted[i] = accepted[j]
          <6>1. j \in 1..Len(accepted)
            BY <3>3, <4>3
          <6>2. accepted'[j] = accepted[j]
            BY <3>3, <6>1
          <6> QED BY <4>1, <6>1, <6>2
        <5> QED BY <4>1, <5>1 DEF WindowInv, DedupeWindow
      <4> QED BY <4>2, <4>3
    <3> QED BY <1>0, <3>4, <3>5 DEF WindowInv
  <2> QED BY <2>1, <2>2
<1>3. ASSUME NEW d \in Deliveries, Handle(d) PROVE WindowInv'
  BY <1>1, <1>3 DEF Handle, Parse, Route
<1>4. ASSUME NEW x \in Entities, DebounceElapses(x) PROVE WindowInv'
  BY <1>1, <1>4 DEF DebounceElapses
<1>5. ASSUME Restart PROVE WindowInv'
  <2>1. seen' = <<>> /\ accepted' = <<>>
    BY <1>5 DEF Restart
  <2>2. SeenIsTail' /\ DedupeWindow'
    BY <2>1, ListenerAssumption, EmptySeq
    DEF SeenIsTail, DedupeWindow, ListenerAssumption
  <2> QED BY <1>0, <2>2 DEF WindowInv
<1>6. CASE UNCHANGED vars
  BY <1>1, <1>6 DEF vars
<1> QED BY <1>2, <1>3, <1>4, <1>5, <1>6 DEF Next

(* Of any SeenCap + 1 events accepted in a row by one process no two are   *)
(* the same (alreadySeen, agent-scheduler.ts:34-40).                       *)
THEOREM SeenKeysAreAWindow == Spec => []DedupeWindow
<1>1. Spec => []WindowInv
  BY WindowInit, WindowInvStep, PTL DEF Spec
<1> QED BY <1>1, PTL DEF WindowInv
=============================================================================

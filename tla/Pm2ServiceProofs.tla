--------------------------- MODULE Pm2ServiceProofs ---------------------------
(***************************************************************************)
(* Proofs of the safety properties of Pm2Service, for any number of        *)
(* callers, outstanding connection attempts and buses.                     *)
(***************************************************************************)
EXTENDS Pm2Service, TLAPS

LEMMA TypeStep == TypeOK /\ [Next]_vars => TypeOK'
<1> SUFFICES ASSUME TypeOK, [Next]_vars PROVE TypeOK'
  OBVIOUS
<1>1. ASSUME NEW o \in Op, Begin(o) PROVE TypeOK'
  BY <1>1, Pm2Assumption DEF TypeOK, Begin, AttachBus, Connect, Proceed, Send, connection
<1>2. ASSUME NEW o \in Op, RpcAnswer(o) PROVE TypeOK'
  BY <1>2, Pm2Assumption DEF TypeOK, RpcAnswer, Fail, Send, connection
<1>3. ASSUME NEW a \in Attempt, ConnectTimeout(a) PROVE TypeOK'
  BY <1>3, Pm2Assumption DEF TypeOK, ConnectTimeout, Fail, Send, Waiters
<1>4. ASSUME NEW a \in Attempt, ConnectSucceeds(a) PROVE TypeOK'
  BY <1>4, Pm2Assumption DEF TypeOK, ConnectSucceeds, AttachBus, Proceed, Send, Waiters
<1>5. ASSUME NEW a \in Attempt, ConnectFails(a) PROVE TypeOK'
  BY <1>5, Pm2Assumption DEF TypeOK, ConnectFails, Fail, Send, Waiters
<1>6. ASSUME NEW a \in Attempt, LateAnswer(a) PROVE TypeOK'
  BY <1>6, Pm2Assumption DEF TypeOK, LateAnswer
<1>7. ASSUME NEW b \in Bus, BusAttached(b) PROVE TypeOK'
  BY <1>7, Pm2Assumption DEF TypeOK, BusAttached, Proceed, Waiters, connection
<1>8. ASSUME NEW b \in Bus, BusFails(b) PROVE TypeOK'
  BY <1>8, Pm2Assumption DEF TypeOK, BusFails, Proceed, Waiters, connection
<1>9. ASSUME NEW b \in Bus, BusEnds(b) PROVE TypeOK'
  BY <1>9, Pm2Assumption DEF TypeOK, BusEnds, connection
<1>10. ASSUME Disconnect PROVE TypeOK'
  BY <1>10, Pm2Assumption DEF TypeOK, Disconnect
<1>11. CASE UNCHANGED vars
  BY <1>11, Pm2Assumption DEF TypeOK, vars
<1>12. QED
  BY <1>1, <1>2, <1>3, <1>4, <1>5, <1>6, <1>7, <1>8, <1>9, <1>10, <1>11 DEF Next

(* Type correctness.                                                       *)
THEOREM TypeCorrect == Spec => []TypeOK
<1>1. Init => TypeOK
  <2>1. SUFFICES ASSUME Init PROVE TypeOK
    OBVIOUS
  <2>2. connected \in BOOLEAN /\ stopping \in BOOLEAN
    BY <2>1, Zenon DEF Init
  <2>3. QED
    BY <2>1, <2>2, Pm2Assumption DEF Init, TypeOK
<1>2. QED
  BY <1>1, TypeStep, PTL DEF Spec

LEMMA SingleFlightStep == TypeOK /\ SingleFlight /\ [Next]_vars => SingleFlight'
<1> SUFFICES ASSUME TypeOK, SingleFlight, [Next]_vars PROVE SingleFlight'
  OBVIOUS
<1>1. ASSUME NEW o \in Op, Begin(o) PROVE SingleFlight'
  BY <1>1, Pm2Assumption DEF TypeOK, SingleFlight, Begin, AttachBus, Connect, Proceed, Send, connection
<1>2. ASSUME NEW o \in Op, RpcAnswer(o) PROVE SingleFlight'
  BY <1>2, Pm2Assumption DEF TypeOK, SingleFlight, RpcAnswer, Fail, Send, connection
<1>3. ASSUME NEW a \in Attempt, ConnectTimeout(a) PROVE SingleFlight'
  BY <1>3, Pm2Assumption DEF TypeOK, SingleFlight, ConnectTimeout, Fail, Send, Waiters
<1>4. ASSUME NEW a \in Attempt, ConnectSucceeds(a) PROVE SingleFlight'
  BY <1>4, Pm2Assumption DEF TypeOK, SingleFlight, ConnectSucceeds, AttachBus, Proceed, Send, Waiters
<1>5. ASSUME NEW a \in Attempt, ConnectFails(a) PROVE SingleFlight'
  BY <1>5, Pm2Assumption DEF TypeOK, SingleFlight, ConnectFails, Fail, Send, Waiters
<1>6. ASSUME NEW a \in Attempt, LateAnswer(a) PROVE SingleFlight'
  BY <1>6, Pm2Assumption DEF TypeOK, SingleFlight, LateAnswer
<1>7. ASSUME NEW b \in Bus, BusAttached(b) PROVE SingleFlight'
  BY <1>7, Pm2Assumption DEF TypeOK, SingleFlight, BusAttached, Proceed, Waiters, connection
<1>8. ASSUME NEW b \in Bus, BusFails(b) PROVE SingleFlight'
  BY <1>8, Pm2Assumption DEF TypeOK, SingleFlight, BusFails, Proceed, Waiters, connection
<1>9. ASSUME NEW b \in Bus, BusEnds(b) PROVE SingleFlight'
  BY <1>9, Pm2Assumption DEF TypeOK, SingleFlight, BusEnds, connection
<1>10. ASSUME Disconnect PROVE SingleFlight'
  BY <1>10, Pm2Assumption DEF TypeOK, SingleFlight, Disconnect
<1>11. CASE UNCHANGED vars
  BY <1>11, Pm2Assumption DEF TypeOK, SingleFlight, vars
<1>12. QED
  BY <1>1, <1>2, <1>3, <1>4, <1>5, <1>6, <1>7, <1>8, <1>9, <1>10, <1>11 DEF Next

(* One connection attempt and one bus launch at a time.                    *)
THEOREM OneAtATime == Spec => []SingleFlight
<1>1. Init => SingleFlight
  BY Pm2Assumption DEF Init, SingleFlight
<1>2. QED
  BY <1>1, SingleFlightStep, TypeCorrect, PTL DEF Spec

LEMMA NoLostWakeupStep == TypeOK /\ SingleFlight /\ NoLostWakeup /\ [Next]_vars => NoLostWakeup'
<1> SUFFICES ASSUME TypeOK, SingleFlight, NoLostWakeup, [Next]_vars PROVE NoLostWakeup'
  OBVIOUS
<1>1. ASSUME NEW o \in Op, Begin(o) PROVE NoLostWakeup'
  BY <1>1, Pm2Assumption DEF TypeOK, SingleFlight, NoLostWakeup, Begin, AttachBus, Connect, Proceed, Send, connection
<1>2. ASSUME NEW o \in Op, RpcAnswer(o) PROVE NoLostWakeup'
  BY <1>2, Pm2Assumption DEF TypeOK, SingleFlight, NoLostWakeup, RpcAnswer, Fail, Send, connection
<1>3. ASSUME NEW a \in Attempt, ConnectTimeout(a) PROVE NoLostWakeup'
  BY <1>3, Pm2Assumption DEF TypeOK, SingleFlight, NoLostWakeup, ConnectTimeout, Fail, Send, Waiters
<1>4. ASSUME NEW a \in Attempt, ConnectSucceeds(a) PROVE NoLostWakeup'
  BY <1>4, Pm2Assumption DEF TypeOK, SingleFlight, NoLostWakeup, ConnectSucceeds, AttachBus, Proceed, Send, Waiters
<1>5. ASSUME NEW a \in Attempt, ConnectFails(a) PROVE NoLostWakeup'
  BY <1>5, Pm2Assumption DEF TypeOK, SingleFlight, NoLostWakeup, ConnectFails, Fail, Send, Waiters
<1>6. ASSUME NEW a \in Attempt, LateAnswer(a) PROVE NoLostWakeup'
  BY <1>6, Pm2Assumption DEF TypeOK, SingleFlight, NoLostWakeup, LateAnswer
<1>7. ASSUME NEW b \in Bus, BusAttached(b) PROVE NoLostWakeup'
  BY <1>7, Pm2Assumption DEF TypeOK, SingleFlight, NoLostWakeup, BusAttached, Proceed, Waiters, connection
<1>8. ASSUME NEW b \in Bus, BusFails(b) PROVE NoLostWakeup'
  BY <1>8, Pm2Assumption DEF TypeOK, SingleFlight, NoLostWakeup, BusFails, Proceed, Waiters, connection
<1>9. ASSUME NEW b \in Bus, BusEnds(b) PROVE NoLostWakeup'
  BY <1>9, Pm2Assumption DEF TypeOK, SingleFlight, NoLostWakeup, BusEnds, connection
<1>10. ASSUME Disconnect PROVE NoLostWakeup'
  BY <1>10, Pm2Assumption DEF TypeOK, SingleFlight, NoLostWakeup, Disconnect
<1>11. CASE UNCHANGED vars
  BY <1>11, Pm2Assumption DEF TypeOK, SingleFlight, NoLostWakeup, vars
<1>12. QED
  BY <1>1, <1>2, <1>3, <1>4, <1>5, <1>6, <1>7, <1>8, <1>9, <1>10, <1>11 DEF Next

(* Who waits, waits for a promise that is pending.                         *)
THEOREM WakeupsNotLost == Spec => []NoLostWakeup
<1>1. Init => NoLostWakeup
  BY Pm2Assumption DEF Init, NoLostWakeup
<1>2. QED
  BY <1>1, NoLostWakeupStep, TypeCorrect, OneAtATime, PTL DEF Spec

-----------------------------------------------------------------------------
(* The bus the service holds is heard: each report of an end, of whatever    *)
(* bus, makes it give up the one it holds.                                 *)
HeldInv == bus # None => buses[bus] = "live"

LEMMA HeldStep == TypeOK /\ SingleFlight /\ HeldInv /\ [Next]_vars => HeldInv'
<1> SUFFICES ASSUME TypeOK, SingleFlight, HeldInv, [Next]_vars PROVE HeldInv'
  OBVIOUS
<1> USE Pm2Assumption DEF TypeOK, SingleFlight, HeldInv, connection
<1>1. ASSUME NEW o \in Op, Begin(o) PROVE HeldInv'
  BY <1>1 DEF Begin, AttachBus
<1>2. ASSUME NEW o \in Op, RpcAnswer(o) PROVE HeldInv'
  BY <1>2 DEF RpcAnswer
<1>3. ASSUME NEW a \in Attempt, ConnectTimeout(a) \/ ConnectFails(a) \/ LateAnswer(a)
      PROVE  HeldInv'
  BY <1>3 DEF ConnectTimeout, ConnectFails, LateAnswer
<1>4. ASSUME NEW a \in Attempt, ConnectSucceeds(a) PROVE HeldInv'
  BY <1>4 DEF ConnectSucceeds, AttachBus
<1>5. ASSUME NEW b \in Bus, BusAttached(b) PROVE HeldInv'
  BY <1>5 DEF BusAttached
<1>6. ASSUME NEW b \in Bus, BusFails(b) PROVE HeldInv'
  BY <1>6 DEF BusFails
<1>7. ASSUME NEW b \in Bus, BusEnds(b) PROVE HeldInv'
  BY <1>7 DEF BusEnds
<1>8. CASE Disconnect
  BY <1>8 DEF Disconnect
<1>9. CASE UNCHANGED vars
  BY <1>9 DEF vars
<1>10. QED
  BY <1>1, <1>2, <1>3, <1>4, <1>5, <1>6, <1>7, <1>8, <1>9 DEF Next

LEMMA HeldAlways == Spec => []HeldInv
<1>1. Init => HeldInv
  BY DEF Init, HeldInv
<1>2. QED
  BY <1>1, HeldStep, TypeCorrect, OneAtATime, PTL DEF Spec

(* A caller is let through to the daemon with a bus, or after a try.       *)
LetThrough(c) == pc[c] # "rpc" /\ pc'[c] = "rpc"
Tried == \E b \in Bus : buses[b] = "pending" /\ buses'[b] = "unused"

LEMMA AttachStep ==
    ASSUME TypeOK, SingleFlight, NoLostWakeup, [Next]_vars,
           NEW c \in Op, LetThrough(c)
    PROVE  bus' # None \/ Tried
<1> USE DEF LetThrough, Tried
<1>1. ASSUME NEW o \in Op, Begin(o) PROVE bus' # None \/ Tried
  BY <1>1, Pm2Assumption DEF TypeOK, SingleFlight, NoLostWakeup, Begin, AttachBus, Connect, Proceed, Send, connection
<1>2. ASSUME NEW o \in Op, RpcAnswer(o) PROVE bus' # None \/ Tried
  BY <1>2, Pm2Assumption DEF TypeOK, SingleFlight, NoLostWakeup, RpcAnswer, Fail, Send, connection
<1>3. ASSUME NEW a \in Attempt, ConnectTimeout(a) PROVE bus' # None \/ Tried
  BY <1>3, Pm2Assumption DEF TypeOK, SingleFlight, NoLostWakeup, ConnectTimeout, Fail, Send, Waiters
<1>4. ASSUME NEW a \in Attempt, ConnectSucceeds(a) PROVE bus' # None \/ Tried
  BY <1>4, Pm2Assumption DEF TypeOK, SingleFlight, NoLostWakeup, ConnectSucceeds, AttachBus, Proceed, Send, Waiters
<1>5. ASSUME NEW a \in Attempt, ConnectFails(a) PROVE bus' # None \/ Tried
  BY <1>5, Pm2Assumption DEF TypeOK, SingleFlight, NoLostWakeup, ConnectFails, Fail, Send, Waiters
<1>6. ASSUME NEW a \in Attempt, LateAnswer(a) PROVE bus' # None \/ Tried
  BY <1>6, Pm2Assumption DEF TypeOK, SingleFlight, NoLostWakeup, LateAnswer
<1>7. ASSUME NEW b \in Bus, BusAttached(b) PROVE bus' # None \/ Tried
  BY <1>7, Pm2Assumption DEF TypeOK, SingleFlight, NoLostWakeup, BusAttached, Proceed, Waiters, connection
<1>8. ASSUME NEW b \in Bus, BusFails(b) PROVE bus' # None \/ Tried
  BY <1>8, Pm2Assumption DEF TypeOK, SingleFlight, NoLostWakeup, BusFails, Proceed, Waiters, connection
<1>9. ASSUME NEW b \in Bus, BusEnds(b) PROVE bus' # None \/ Tried
  BY <1>9, Pm2Assumption DEF TypeOK, SingleFlight, NoLostWakeup, BusEnds, connection
<1>10. ASSUME Disconnect PROVE bus' # None \/ Tried
  BY <1>10, Pm2Assumption DEF TypeOK, SingleFlight, NoLostWakeup, Disconnect
<1>11. CASE UNCHANGED vars
  BY <1>11, Pm2Assumption DEF TypeOK, SingleFlight, NoLostWakeup, vars
<1>12. QED
  BY <1>1, <1>2, <1>3, <1>4, <1>5, <1>6, <1>7, <1>8, <1>9, <1>10, <1>11 DEF Next

(* No operation calls the daemon before a live bus is held or was tried.   *)
THEOREM AttachComesFirst == Spec => AttachedOrTried
<1>1. TypeOK /\ TypeOK' /\ SingleFlight /\ NoLostWakeup /\ HeldInv' /\ [Next]_vars =>
        [\A o \in Op : pc[o] # "rpc" /\ pc'[o] = "rpc" =>
          \/ \E b \in Bus : bus' = b /\ buses'[b] = "live"
          \/ \E b \in Bus : buses[b] = "pending" /\ buses'[b] = "unused"]_vars
  <2> SUFFICES ASSUME TypeOK, TypeOK', SingleFlight, NoLostWakeup, HeldInv', [Next]_vars,
                      NEW c \in Op, LetThrough(c)
               PROVE  (\E b \in Bus : bus' = b /\ buses'[b] = "live") \/ Tried
    BY DEF LetThrough, Tried
  <2>1. bus' # None \/ Tried
    BY AttachStep
  <2>2. bus' # None => bus' \in Bus /\ buses'[bus'] = "live"
    BY DEF TypeOK, HeldInv
  <2>3. QED
    BY <2>1, <2>2
<1>2. QED
  BY <1>1, TypeCorrect, OneAtATime, WakeupsNotLost, HeldAlways, PTL DEF Spec, AttachedOrTried
-----------------------------------------------------------------------------
(* Pm2Service implements SharedLink.                                       *)

(* While an attempt is under way there is no connection yet.               *)
DialingInv == connecting # None => ~connected

LEMMA DialingStep == TypeOK /\ SingleFlight /\ DialingInv /\ [Next]_vars => DialingInv'
<1> SUFFICES ASSUME TypeOK, SingleFlight, DialingInv, [Next]_vars PROVE DialingInv'
  OBVIOUS
<1> USE Pm2Assumption DEF TypeOK, SingleFlight, DialingInv, connection
<1>1. ASSUME NEW o \in Op, Begin(o) PROVE DialingInv'
  BY <1>1 DEF Begin, Connect
<1>2. ASSUME NEW o \in Op, RpcAnswer(o) PROVE DialingInv'
  BY <1>2 DEF RpcAnswer
<1>3. ASSUME NEW a \in Attempt, ConnectTimeout(a) \/ ConnectSucceeds(a) \/ ConnectFails(a)
      PROVE  DialingInv'
  BY <1>3 DEF ConnectTimeout, ConnectSucceeds, ConnectFails
<1>4. ASSUME NEW a \in Attempt, LateAnswer(a) PROVE DialingInv'
  BY <1>4 DEF LateAnswer
<1>5. ASSUME NEW b \in Bus, BusAttached(b) \/ BusFails(b) \/ BusEnds(b) PROVE DialingInv'
  BY <1>5 DEF BusAttached, BusFails, BusEnds
<1>6. CASE Disconnect
  BY <1>6 DEF Disconnect
<1>7. CASE UNCHANGED vars
  BY <1>7 DEF vars
<1> QED BY <1>1, <1>2, <1>3, <1>4, <1>5, <1>6, <1>7 DEF Next

LinkInv == TypeOK /\ SingleFlight /\ NoLostWakeup /\ DialingInv

(* What SharedLink sees of the connection and of the feed.                 *)
LinkNow == IF connecting # None THEN "dialing" ELSE IF connected THEN "up" ELSE "down"
FeedNow == IF busInitializing # None THEN "opening" ELSE IF bus # None THEN "open" ELSE "none"

(* Who waits for a promise is who waits for what it stands for.            *)
LEMMA WaitersOfAttempt ==
  ASSUME LinkInv, NEW a \in Attempt, attempts[a] = "pending"
  PROVE  Waiters(a) = Link!Waiting("connect") /\ LinkNow = "dialing" /\ connecting = a
<1> USE Pm2Assumption DEF LinkInv, TypeOK, SingleFlight, NoLostWakeup
<1>1. connecting = a /\ LinkNow = "dialing"
  BY DEF LinkNow
<1>2. ASSUME NEW o \in Op PROVE awaits[o] = a <=> pc[o] = "connect"
  BY <1>1
<1> QED BY <1>1, <1>2 DEF Waiters, Link!Waiting

LEMMA WaitersOfLaunch ==
  ASSUME LinkInv, NEW b \in Bus, buses[b] = "pending"
  PROVE  Waiters(b) = Link!Waiting("attach") /\ FeedNow = "opening" /\ busInitializing = b
<1> USE Pm2Assumption DEF LinkInv, TypeOK, SingleFlight, NoLostWakeup
<1>1. busInitializing = b /\ FeedNow = "opening"
  BY DEF FeedNow
<1>2. ASSUME NEW o \in Op PROVE awaits[o] = b <=> pc[o] = "attach"
  BY <1>1
<1> QED BY <1>1, <1>2 DEF Waiters, Link!Waiting

(* attachBus gives callers the feed, or lets them wait for it.             *)
LEMMA AttachIsNeedFeed ==
  ASSUME LinkInv, NEW W \in SUBSET Op, AttachBus(W), bus' = bus
  PROVE  Link!NeedFeed(W)
<1> USE Pm2Assumption DEF LinkInv, TypeOK, SingleFlight
<1>1. CASE bus # None
  BY <1>1 DEF AttachBus, Proceed, Link!NeedFeed, Link!Admitted
<1>2. CASE bus = None
  BY <1>2 DEF AttachBus, Send, Link!NeedFeed, Link!Moved
<1> QED BY <1>1, <1>2

LEMMA LinkStep ==
  ASSUME LinkInv, [Next]_vars
  PROVE  Link!Next \/ UNCHANGED Link!vars
<1> USE Pm2Assumption
<1>1. ASSUME NEW o \in Op, Begin(o) PROVE Link!Next
  <2>1. pc[o] = IF o = Boot THEN "boot" ELSE "idle"
    BY <1>1 DEF Begin
  <2>2. CASE connected
    <3>1. AttachBus({o}) /\ UNCHANGED <<connected, connecting, bus, stopping>>
      BY <1>1, <2>2 DEF Begin, connection
    <3>2. Link!NeedFeed({o})
      BY <3>1, AttachIsNeedFeed
    <3>3. connecting = None
      BY <2>2 DEF LinkInv, DialingInv
    <3>4. Link!Ask(o)
      BY <2>1, <2>2, <3>1, <3>2, <3>3 DEF Link!Ask
    <3> QED BY <3>4 DEF Link!Next
  <2>3. CASE ~connected
    <3>1. /\ Connect(o)
          /\ UNCHANGED <<connected, bus, busInitializing, stopping>>
      BY <1>1, <2>3 DEF Begin, Connect, connection
    <3>2. connecting' # None /\ pc' = Link!Moved({o}, "connect")
      BY <3>1 DEF Connect, Send, connection, Link!Moved
    <3>3. Link!Ask(o)
      BY <2>1, <2>3, <3>1, <3>2 DEF Link!Ask
    <3> QED BY <3>3 DEF Link!Next
  <2> QED BY <2>2, <2>3
<1>2. ASSUME NEW o \in Op, RpcAnswer(o) PROVE Link!Next
  <2>1. Link!Answered(o)
    BY <1>2 DEF RpcAnswer, Fail, Send, connection, Link!Answered, Link!Moved
  <2> QED BY <2>1 DEF Link!Next
<1>3. ASSUME NEW a \in Attempt, ConnectTimeout(a) \/ ConnectFails(a) PROVE Link!Next
  <2>1. attempts[a] = "pending"
    BY <1>3 DEF ConnectTimeout, ConnectFails
  <2>2. Waiters(a) = Link!Waiting("connect") /\ connecting = a /\ ~connected
    BY <2>1, WaitersOfAttempt DEF LinkInv, DialingInv
  <2>3. pc' = Link!Moved(Link!Waiting("connect"), "idle")
    BY <1>3, <2>2 DEF ConnectTimeout, ConnectFails, Fail, Send, Link!Moved
  <2>4. connecting' = None /\ UNCHANGED <<connected, bus, busInitializing, stopping>>
    BY <1>3 DEF ConnectTimeout, ConnectFails
  <2>5. Link!DialFails
    BY <2>2, <2>3, <2>4 DEF Link!DialFails
  <2> QED BY <2>5 DEF Link!Next
<1>4. ASSUME NEW a \in Attempt, ConnectSucceeds(a) PROVE Link!Next
  <2>1. Waiters(a) = Link!Waiting("connect") /\ connecting = a
    BY <1>4, WaitersOfAttempt DEF ConnectSucceeds
  <2>2. /\ AttachBus(Waiters(a)) /\ connecting' = None /\ connected' = TRUE
        /\ bus' = bus /\ stopping' = stopping
    BY <1>4 DEF ConnectSucceeds
  <2>3. Link!NeedFeed(Link!Waiting("connect"))
    BY <2>1, <2>2, AttachIsNeedFeed DEF Waiters
  <2>4. Link!DialSucceeds
    BY <2>1, <2>2, <2>3 DEF Link!DialSucceeds
  <2> QED BY <2>4 DEF Link!Next
<1>5. ASSUME NEW a \in Attempt, LateAnswer(a) PROVE UNCHANGED Link!vars
  BY <1>5 DEF LateAnswer, Link!vars
<1>6. ASSUME NEW b \in Bus, BusAttached(b) \/ BusFails(b) PROVE Link!Next
  <2>1. buses[b] = "pending"
    BY <1>6 DEF BusAttached, BusFails
  <2>2. Waiters(b) = Link!Waiting("attach") /\ busInitializing = b
    BY <2>1, WaitersOfLaunch
  <2>3. /\ Proceed(Waiters(b)) /\ busInitializing' = None
        /\ UNCHANGED <<connected, connecting, stopping>>
    BY <1>6 DEF BusAttached, BusFails, connection
  <2>4. Link!FeedSettled
    BY <2>2, <2>3 DEF Proceed, Link!FeedSettled, Link!Admitted
  <2> QED BY <2>4 DEF Link!Next
<1>7. ASSUME NEW b \in Bus, BusEnds(b) PROVE Link!Next \/ UNCHANGED Link!vars
  <2>1. bus' = None /\ UNCHANGED <<connected, connecting, busInitializing, pc, stopping>>
    BY <1>7 DEF BusEnds, connection
  <2>2. CASE busInitializing = None /\ bus # None
    <3>1. Link!FeedLost
      BY <2>1, <2>2 DEF Link!FeedLost
    <3> QED BY <3>1 DEF Link!Next
  <2>3. CASE ~(busInitializing = None /\ bus # None)
    BY <2>1, <2>3 DEF Link!vars
  <2> QED BY <2>2, <2>3
<1>8. ASSUME Disconnect PROVE Link!Next
  <2>1. Link!Close
    BY <1>8 DEF Disconnect, Link!Close, LinkInv, TypeOK, SingleFlight, DialingInv
  <2> QED BY <2>1 DEF Link!Next
<1>9. CASE UNCHANGED vars
  BY <1>9 DEF vars, Link!vars
<1> QED BY <1>1, <1>2, <1>3, <1>4, <1>5, <1>6, <1>7, <1>8, <1>9 DEF Next

(* The service is one shared connection and one shared feed, whatever late  *)
(* callbacks, timeouts and dying buses do, and also if they report twice.   *)
THEOREM ImplementsSharedLink == Spec => RefinesSharedLink
<1>1. Init => Link!Init /\ DialingInv
  BY Pm2Assumption DEF Init, DialingInv, Link!Init
<1>2. LinkInv /\ [Next]_vars => [Link!Next]_Link!vars
  BY LinkStep
<1>3. TypeOK /\ SingleFlight /\ NoLostWakeup /\ DialingInv => LinkInv
  BY DEF LinkInv
<1> QED
  BY <1>1, <1>2, <1>3, DialingStep, TypeCorrect, OneAtATime, WakeupsNotLost, PTL
  DEF Spec, RefinesSharedLink, Link!Spec
=============================================================================

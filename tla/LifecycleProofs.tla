-------------------------- MODULE LifecycleProofs ---------------------------
(* Proofs about Lifecycle and the limiter in it, for any clients, attempts, *)
(* streams and limit.                                                      *)
EXTENDS Lifecycle, FiniteSetTheorems, TLAPS

(* The inductive invariant, for each client.  The store has counted every    *)
(* attempt of the window that has not been taken back, late successes apart; *)
(* nothing else is counted; and admission looked at the count.             *)
Balanced(k) ==
    LET open == spent[k] + Cardinality(Running(k)) IN
    /\ hits[k] # None => open <= hits[k] + late[k]
    /\ hits[k] # None => hits[k] <= open + refused[k]
    /\ open <= LoginMax + late[k]

IInv == TypeOK /\ \A k \in Client : Balanced(k)

(* The constants.                                                          *)
LEMMA Constants == LoginMax \in Nat \ {0} /\ None \notin Client /\ None \notin Nat
  BY RateLimitAssumption

LEMMA RunningFinite ==
  ASSUME NEW k
  PROVE  IsFiniteSet(Running(k)) /\ Cardinality(Running(k)) \in Nat
<1>1. Running(k) \in SUBSET Attempt
  BY DEF Running
<1>2. IsFiniteSet(Running(k))
  BY <1>1, RateLimitAssumption, FS_Subset
<1> QED BY <1>2, FS_CardinalityType

LEMMA InitIInv == Init => IInv
<1> SUFFICES ASSUME Init PROVE IInv
  OBVIOUS
<1> USE RateLimitAssumption, LifecycleAssumption DEF Init, RateLimitInit
<1>1. TypeOK
  <2>1. hits \in [Client -> Nat \cup {None}] /\ expired = {}
    OBVIOUS
  <2>2. from \in [Attempt -> Client \cup {None}] /\ \A a \in Attempt : from[a] = None
    OBVIOUS
  <2>3. spent \in [Client -> Nat] /\ refused \in [Client -> Nat] /\ late \in [Client -> Nat]
    OBVIOUS
  <2>4. boots \in 0..MaxBoots
    OBVIOUS
  <2> QED BY <2>1, <2>2, <2>3, <2>4 DEF TypeOK, Phase
<1>2. ASSUME NEW k \in Client PROVE Balanced(k)
  <2>1. Running(k) = {}
    BY DEF Running
  <2>2. Cardinality(Running(k)) = 0
    BY <2>1, FS_EmptySet
  <2>3. spent[k] = 0 /\ late[k] = 0 /\ hits[k] = None
    OBVIOUS
  <2>4. spent[k] + Cardinality(Running(k)) <= LoginMax + late[k]
    BY <2>2, <2>3, Constants
  <2> QED BY <2>3, <2>4 DEF Balanced
<1> QED BY <1>1, <1>2 DEF IInv

(* The memory of the process is gone.                                      *)
LEMMA ExitStep ==
  ASSUME IInv, Exit, UNCHANGED boots
  PROVE  IInv'
<1>1. TypeOK'
  BY DEF IInv, TypeOK, Exit, Forgotten, Phase
<1>2. ASSUME NEW k \in Client PROVE Balanced(k)'
  <2>1. Running(k)' = {}
    BY DEF Running, Exit, Forgotten
  <2>2. Cardinality(Running(k)') = 0
    BY <2>1, FS_EmptySet
  <2>3. spent'[k] = 0 /\ late'[k] = 0 /\ hits'[k] = None
    BY DEF Exit, Forgotten
  <2>4. spent'[k] + Cardinality(Running(k)') <= LoginMax + late'[k]
    BY <2>2, <2>3, Constants
  <2> QED BY <2>3, <2>4 DEF Balanced
<1> QED BY <1>1, <1>2 DEF IInv

(* A step of the process alone.                                            *)
LEMMA LimiterUnchanged ==
  ASSUME IInv, UNCHANGED limiter, TypeOK'
  PROVE  IInv'
<1>1. ASSUME NEW k \in Client PROVE Balanced(k)'
  <2>1. Running(k)' = Running(k)
    BY DEF Running, limiter
  <2> QED BY <2>1 DEF IInv, Balanced, limiter
<1> QED BY <1>1 DEF IInv

-----------------------------------------------------------------------------
(* The limiter's steps: first what they do to a client's counters.          *)

(* Another client's attempts are not touched.                              *)
LEMMA Bystander ==
  ASSUME IInv, NEW k \in Client,
         Running(k)' = Running(k),
         hits'[k] = hits[k] \/ hits'[k] = None, spent'[k] = spent[k],
         refused'[k] = refused[k], late'[k] = late[k]
  PROVE  Balanced(k)'
<1>1. Cardinality(Running(k))' = Cardinality(Running(k))
  OBVIOUS
<1> QED BY <1>1 DEF IInv, Balanced

LEMMA Numbers ==
  ASSUME TypeOK, NEW k \in Client
  PROVE  /\ spent[k] \in Nat /\ refused[k] \in Nat /\ late[k] \in Nat
         /\ hits[k] # None => hits[k] \in Nat
  BY DEF TypeOK

LEMMA ArriveType ==
  ASSUME IInv, NEW a \in Attempt, NEW k \in Client, Arrive(a, k), Serving, UNCHANGED process
  PROVE  TypeOK'
<1> USE DEF IInv
<1>1. Counted(k) \in Nat
  <2>1. CASE NewWindow(k)
    BY <2>1 DEF Counted
  <2>2. CASE ~NewWindow(k)
    BY <2>2, Numbers DEF Counted, NewWindow
  <2> QED BY <2>1, <2>2
<1>2. hits' \in [Client -> Nat \cup {None}] /\ expired' \subseteq {j \in Client : hits'[j] # None}
  BY <1>1, Constants DEF Arrive, TypeOK
<1>3. from' \in [Attempt -> Client \cup {None}] /\ current' \subseteq {b \in Attempt : from'[b] # None}
  BY Constants DEF Arrive, TypeOK
<1>4. spent' \in [Client -> Nat] /\ refused' \in [Client -> Nat] /\ late' \in [Client -> Nat]
  BY DEF Arrive, TypeOK
<1> QED BY <1>2, <1>3, <1>4 DEF TypeOK, process, Serving

LEMMA ArriveBalanced ==
  ASSUME IInv, NEW a \in Attempt, NEW k \in Client, Arrive(a, k), NEW j \in Client
  PROVE  Balanced(j)'
<1> DEFINE fresh == NewWindow(k)
<1> USE DEF IInv
<1>0. \A b \in Attempt : b \in Running(j) <=> from[b] = j /\ b \in current
  BY DEF Running
<1>1. CASE j # k
  <2>1. Running(j)' = Running(j)
    BY <1>1, Constants DEF Arrive, Running, TypeOK
  <2>2. /\ hits'[j] = hits[j] /\ spent'[j] = spent[j]
        /\ refused'[j] = refused[j] /\ late'[j] = late[j]
    BY <1>1 DEF Arrive, TypeOK
  <2> QED BY <2>1, <2>2, Bystander
<1>2. CASE j = k
  <2>1. a \notin Running(k)
    BY Constants DEF Arrive, Running
  <2>2. hits'[k] = Counted(k)
    BY DEF Arrive, TypeOK
  <2>3. IsFiniteSet(Running(k)) /\ Cardinality(Running(k)) \in Nat
    BY RunningFinite
  <2>4. CASE fresh
    <3>1. Counted(k) = 1 /\ Admitted(Counted(k))
      BY <2>4, Constants DEF Counted, Admitted
    <3>2. Running(k)' = {a}
      BY <2>4, <3>1 DEF Arrive, Running, TypeOK
    <3>3. Cardinality(Running(k)') = 1
      BY <3>2, FS_Singleton
    <3>4. spent'[k] = 0 /\ refused'[k] = 0 /\ late'[k] = 0
      BY <2>4, <3>1 DEF Arrive, TypeOK
    <3> QED BY <1>2, <2>2, <3>1, <3>3, <3>4, Constants DEF Balanced
  <2>5. CASE ~fresh
    <3>1. hits[k] \in Nat /\ Counted(k) = hits[k] + 1 /\ hits[k] # None
      BY <2>5, Numbers DEF Counted, NewWindow
    <3>2. spent'[k] = spent[k] /\ late'[k] = late[k]
      BY <2>5 DEF Arrive
    <3>3. CASE Admitted(Counted(k))
      <4>1. Running(k)' = Running(k) \cup {a}
        BY <2>5, <3>3 DEF Arrive, Running, TypeOK
      <4>2. Cardinality(Running(k)') = Cardinality(Running(k)) + 1
        BY <2>1, <2>3, <4>1, FS_AddElement
      <4>3. refused'[k] = refused[k] /\ hits[k] + 1 <= LoginMax
        BY <2>5, <3>1, <3>3 DEF Arrive, Admitted
      <4> QED BY <1>2, <2>2, <2>3, <3>1, <3>2, <4>2, <4>3, Numbers, Constants DEF Balanced
    <3>4. CASE ~Admitted(Counted(k))
      <4>1. Running(k)' = Running(k)
        BY <2>5, <3>4 DEF Arrive, Running, TypeOK
      <4>2. refused'[k] = refused[k] + 1
        BY <2>5, <3>4 DEF Arrive, TypeOK
      <4>3. Cardinality(Running(k)') = Cardinality(Running(k))
        BY <4>1
      <4> QED BY <1>2, <2>2, <2>3, <3>1, <3>2, <4>2, <4>3, Numbers, Constants DEF Balanced
    <3> QED BY <3>3, <3>4
  <2> QED BY <2>4, <2>5
<1> QED BY <1>1, <1>2

(* An attempt that is under way ends.                                      *)
LEMMA EndsBalanced ==
  ASSUME IInv, NEW a \in Attempt, from[a] # None, Alive, UNCHANGED process,
         Fail(a) \/ Succeed(a)
  PROVE  IInv'
<1> USE DEF IInv
<1>0. PICK k \in Client : k = from[a]
  BY DEF TypeOK
<1>1. k \in Client /\ k # None /\ k = from[a]
  BY <1>0
<1>2. IsFiniteSet(Running(k)) /\ Cardinality(Running(k)) \in Nat
  BY RunningFinite
<1>3. a \in Running(k) <=> a \in current
  BY <1>1 DEF Running
<1>4. Cardinality(Running(k) \ {a})
        = IF a \in current THEN Cardinality(Running(k)) - 1 ELSE Cardinality(Running(k))
  BY <1>2, <1>3, FS_RemoveElement
<1>5. a \in current => Cardinality(Running(k)) # 0
  BY <1>2, <1>3, FS_EmptySet
<1>6. CASE Fail(a)
  <2>1. TypeOK'
    BY <1>1, <1>6 DEF Fail, TypeOK, process, Alive
  <2>2. ASSUME NEW j \in Client PROVE Balanced(j)'
    <3>1. CASE j # k
      <4>1. Running(j)' = Running(j)
        BY <1>1, <1>6, <3>1, Constants DEF Fail, Running, TypeOK
      <4> QED BY <1>1, <1>6, <3>1, <4>1, Bystander DEF Fail, TypeOK
    <3>2. CASE j = k
      <4>1. Running(k)' = Running(k) \ {a}
        BY <1>1, <1>6, Constants DEF Fail, Running, TypeOK
      <4>2. Cardinality(Running(k)')
              = IF a \in current THEN Cardinality(Running(k)) - 1 ELSE Cardinality(Running(k))
        BY <1>4, <4>1
      <4>3. /\ spent'[k] = IF a \in current THEN spent[k] + 1 ELSE spent[k]
            /\ hits'[k] = hits[k] /\ late'[k] = late[k] /\ refused'[k] = refused[k]
        BY <1>1, <1>6 DEF Fail, TypeOK
      <4>4. spent'[k] + Cardinality(Running(k)') = spent[k] + Cardinality(Running(k))
        BY <1>1, <1>2, <4>2, <4>3, Numbers
      <4>5. Balanced(k)
        BY <1>1
      <4> QED BY <3>2, <4>3, <4>4, <4>5 DEF Balanced
    <3> QED BY <3>1, <3>2
  <2> QED BY <2>1, <2>2
<1>7. CASE Succeed(a) /\ hits[k] = None
  <2>1. TypeOK'
    BY <1>1, <1>7, Constants DEF Succeed, TypeOK, process, Alive
  <2>2. ASSUME NEW j \in Client PROVE Balanced(j)'
    <3>1. CASE j # k
      <4>1. Running(j)' = Running(j)
        BY <1>1, <1>7, <3>1, Constants DEF Succeed, Running, TypeOK
      <4> QED BY <1>1, <1>7, <3>1, <4>1, Bystander DEF Succeed, TypeOK
    <3>2. CASE j = k
      <4>1. Running(k)' = {}
        BY <1>1, <1>7, Constants DEF Succeed, Running, TypeOK
      <4>2. Cardinality(Running(k)') = 0
        BY <4>1, FS_EmptySet
      <4>3. /\ spent'[k] = 0 /\ hits'[k] = 0 /\ late'[k] = 0 /\ refused'[k] = 0
        BY <1>1, <1>7 DEF Succeed, TypeOK
      <4> QED BY <3>2, <4>2, <4>3, Constants DEF Balanced
    <3> QED BY <3>1, <3>2
  <2> QED BY <2>1, <2>2
<1>8. CASE Succeed(a) /\ hits[k] # None
  <2>1. hits[k] \in Nat
    BY <1>1, <1>8, Numbers
  <2>2. TypeOK'
    <3>1. hits' \in [Client -> Nat \cup {None}] /\ \A j \in Client : hits'[j] = None <=> hits[j] = None
      BY <1>1, <1>8, <2>1, Constants DEF Succeed, TypeOK
    <3>2. late' \in [Client -> Nat] /\ UNCHANGED <<expired, spent, refused>>
      BY <1>1, <1>8 DEF Succeed, TypeOK
    <3>3. from' \in [Attempt -> Client \cup {None}] /\ current' \subseteq {b \in Attempt : from'[b] # None}
      BY <1>1, <1>8 DEF Succeed, TypeOK
    <3> QED BY <3>1, <3>2, <3>3 DEF TypeOK, process, Alive
  <2>3. ASSUME NEW j \in Client PROVE Balanced(j)'
    <3>1. CASE j # k
      <4>1. Running(j)' = Running(j)
        BY <1>1, <1>8, <3>1, Constants DEF Succeed, Running, TypeOK
      <4> QED BY <1>1, <1>8, <3>1, <4>1, Bystander DEF Succeed, TypeOK
    <3>2. CASE j = k
      <4>1. Running(k)' = Running(k) \ {a}
        BY <1>1, <1>8, Constants DEF Succeed, Running, TypeOK
      <4>2. Cardinality(Running(k)')
              = IF a \in current THEN Cardinality(Running(k)) - 1 ELSE Cardinality(Running(k))
        BY <1>4, <4>1
      <4>3. /\ hits'[k] = IF hits[k] > 0 THEN hits[k] - 1 ELSE hits[k]
            /\ late'[k] = IF a \notin current /\ hits[k] > 0 THEN late[k] + 1 ELSE late[k]
            /\ spent'[k] = spent[k] /\ refused'[k] = refused[k] /\ hits'[k] # None
        BY <1>1, <1>8, <2>1, Constants DEF Succeed, TypeOK
      <4>4. Balanced(k) /\ hits[k] # None
        BY <1>1, <1>8
      <4>5. /\ spent[k] \in Nat /\ refused[k] \in Nat /\ late[k] \in Nat
        BY <1>1, Numbers
      <4>6. CASE a \in current
        BY <1>2, <1>5, <2>1, <3>2, <4>2, <4>3, <4>4, <4>5, <4>6, Constants DEF Balanced
      <4>7. CASE a \notin current
        BY <1>2, <2>1, <3>2, <4>2, <4>3, <4>4, <4>5, <4>7, Constants DEF Balanced
      <4> QED BY <4>6, <4>7
    <3> QED BY <3>1, <3>2
  <2> QED BY <2>2, <2>3
<1> QED BY <1>6, <1>7, <1>8

LEMMA StoreStep ==
  ASSUME IInv, NEW k \in Client, Expire(k) \/ Drop(k), UNCHANGED process
  PROVE  IInv'
<1> USE DEF IInv
<1>1. TypeOK'
  <2>1. CASE Expire(k)
    BY <2>1 DEF Expire, TypeOK, process
  <2>2. CASE Drop(k)
    BY <2>2 DEF Drop, TypeOK, process
  <2> QED BY <2>1, <2>2
<1>2. ASSUME NEW j \in Client PROVE Balanced(j)'
  <2>1. Running(j)' = Running(j)
    BY DEF Expire, Drop, Running
  <2> QED BY <2>1, Bystander DEF Expire, Drop, TypeOK
<1> QED BY <1>1, <1>2

LEMMA ShutdownStep ==
  ASSUME IInv, Shutdown
  PROVE  IInv'
<1> USE DEF IInv
<1>1. TypeOK'
  <2>1. spent' \in [Client -> Nat]
    BY RunningFinite, Numbers DEF Shutdown, CutAll
  <2> QED BY <2>1 DEF Shutdown, CutAll, TypeOK, Phase
<1>2. ASSUME NEW k \in Client PROVE Balanced(k)'
  <2>1. Running(k)' = {}
    BY DEF Shutdown, CutAll, Running
  <2>2. Cardinality(Running(k)') = 0
    BY <2>1, FS_EmptySet
  <2>3. /\ spent'[k] = spent[k] + Cardinality(Running(k))
        /\ hits'[k] = hits[k] /\ late'[k] = late[k] /\ refused'[k] = refused[k]
    BY DEF Shutdown, CutAll
  <2>4. spent'[k] + Cardinality(Running(k)') = spent[k] + Cardinality(Running(k))
    BY <2>2, <2>3, Numbers, RunningFinite
  <2>5. Balanced(k)
    OBVIOUS
  <2> QED BY <2>3, <2>4, <2>5 DEF Balanced
<1> QED BY <1>1, <1>2

LEMMA IInvStep == IInv /\ [Next]_vars => IInv'
<1> SUFFICES ASSUME IInv, [Next]_vars PROVE IInv'
  OBVIOUS
<1>1. CASE Start
  <2>1. boots' \in 0..MaxBoots
    BY <1>1, LifecycleAssumption DEF Start, IInv, TypeOK
  <2>2. TypeOK'
    BY <1>1, <2>1 DEF Start, IInv, TypeOK, limiter, Phase
  <2> QED BY <1>1, <2>2, LimiterUnchanged DEF Start
<1>2. CASE InitDatabase \/ EnsureInitialAdmin \/ ConnectPm2 \/ Listening
  <2>1. TypeOK'
    <3>1. CASE InitDatabase
      BY <3>1 DEF InitDatabase, IInv, TypeOK, limiter, Phase
    <3>2. CASE EnsureInitialAdmin
      BY <3>2 DEF EnsureInitialAdmin, IInv, TypeOK, limiter, Phase
    <3>3. CASE ConnectPm2
      BY <3>3 DEF ConnectPm2, IInv, TypeOK, limiter, Phase
    <3>4. CASE Listening
      BY <3>4 DEF Listening, IInv, TypeOK, limiter, Phase
    <3> QED BY <1>2, <3>1, <3>2, <3>3, <3>4
  <2> QED BY <1>2, <2>1, LimiterUnchanged
          DEF InitDatabase, EnsureInitialAdmin, ConnectPm2, Listening
<1>3. CASE Uncaught \/ Killed \/ Crash \/ Drained \/ ForcedShutdown
  BY <1>3, ExitStep DEF Uncaught, Killed, Crash, Drained, ForcedShutdown
<1>4. CASE Shutdown
  BY <1>4, ShutdownStep
<1>5. ASSUME NEW e \in Stream, OpenStream(e) \/ CloseStream(e) PROVE IInv'
  <2>1. TypeOK'
    BY <1>5 DEF OpenStream, CloseStream, IInv, TypeOK, limiter, Serving, Alive
  <2> QED BY <1>5, <2>1, LimiterUnchanged DEF OpenStream, CloseStream
<1>6. CASE Login
  <2>1. ASSUME NEW a \in Attempt, NEW k \in Client, Arrive(a, k), Serving PROVE IInv'
    BY <1>6, <2>1, ArriveType, ArriveBalanced DEF Login, IInv
  <2>2. ASSUME NEW a \in Attempt, Fail(a) \/ CutOff(a) \/ Succeed(a), Alive PROVE IInv'
    BY <1>6, <2>2, EndsBalanced DEF Login, Fail, CutOff, Succeed
  <2>3. ASSUME NEW k \in Client, Expire(k) \/ Drop(k) PROVE IInv'
    BY <1>6, <2>3, StoreStep DEF Login
  <2> QED BY <1>6, <2>1, <2>2, <2>3 DEF Login
<1>7. CASE UNCHANGED vars
  <2>1. TypeOK'
    BY <1>7 DEF vars, limiter, process, IInv, TypeOK
  <2> QED BY <1>7, <2>1, LimiterUnchanged DEF vars
<1> QED BY <1>1, <1>2, <1>3, <1>4, <1>5, <1>6, <1>7 DEF Next

-----------------------------------------------------------------------------
(* Theorems.                                                               *)

(* The store, the requests under way and the phases of the process fit      *)
(* together.                                                               *)
THEOREM TypeCorrect == Spec => []TypeOK
<1>1. IInv => TypeOK
  BY DEF IInv
<1> QED BY <1>1, InitIInv, IInvStep, PTL DEF Spec

(* The login limit holds whatever the interleaving of attempts, answers,    *)
(* windows and restarts (rateLimit.middleware.ts:17-25).                    *)
THEOREM LimitHolds == Spec => []FailuresBounded
<1>1. IInv => FailuresBounded
  BY DEF IInv, Balanced, FailuresBounded
<1> QED BY <1>1, InitIInv, IInvStep, PTL DEF Spec

(* Attempts that succeeded and were answered never keep a client out.       *)
THEOREM RefusalsAreEarned == Spec => RefusalsEarned
<1>1. ASSUME IInv, NEW a \in Attempt, NEW k \in Client, Refused(a, k)
      PROVE  spent[k] + refused[k] + Cardinality(Running(k)) >= LoginMax
  <2>1. ~NewWindow(k)
    BY <1>1, Constants DEF Refused, Counted, Admitted
  <2>2. hits[k] \in Nat /\ hits[k] # None /\ hits[k] + 1 > LoginMax
    BY <1>1, <2>1, Numbers, Constants DEF Refused, Counted, Admitted, NewWindow, IInv
  <2>3. hits[k] <= spent[k] + Cardinality(Running(k)) + refused[k]
    BY <1>1, <2>2 DEF IInv, Balanced
  <2> QED BY <1>1, <2>2, <2>3, Numbers, RunningFinite, Constants DEF IInv
<1>2. IInv /\ [Next]_vars =>
        [\A a \in Attempt, k \in Client :
           Refused(a, k) => spent[k] + refused[k] + Cardinality(Running(k)) >= LoginMax]_vars
  BY <1>1
<1> QED BY <1>2, InitIInv, IInvStep, PTL DEF Spec, RefusalsEarned
=============================================================================

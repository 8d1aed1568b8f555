------------------------ MODULE ProcessControlProofs ------------------------
(* Proofs about ProcessControl, for any processes, names and requests.      *)
EXTENDS ProcessControl, TLAPS

USE ProcessAssumption

(* What an answered list and a resolved target leave to be done.            *)
Owed(r, p) == Means(op[r].target, p) /\ (StartAll(r) => status[p] = "down")

(* A handler that waits has told PM2 of every undisturbed process it owes   *)
(* the action, and start-all of no undisturbed process that is up; what is  *)
(* undisturbed is still there.                                             *)
ControlInv ==
    \A r \in Req : \A p \in steady[r] :
        /\ p \in Present
        /\ pc[r] \in {"wait", "ok"} /\ Owed(r, p) => p \in calls[r] \cup acted[r]
        /\ p \in calls[r] /\ StartAll(r) => status[p] = "down"

(* A bulk request means every process, and only it is in state "list".      *)
OperationInv ==
    \A r \in Req : op[r] # None =>
        /\ op[r].bulk <=> op[r].target = All
        /\ pc[r] = "list" => op[r].bulk
        /\ pc[r] = "call" => ~StartAll(r)

-----------------------------------------------------------------------------
(* PM2 looks a target up among the processes that are there by then: it     *)
(* finds each that the target means in any company, and if it finds one by  *)
(* its pm_id or name, it finds no other unless the target is an expression  *)
(* or the word for all.                                                    *)
LEMMA ResolvedIfMeant ==
    ASSUME NEW t, NEW P \in SUBSET Proc, NEW p \in P, Means(t, p)
    PROVE  p \in Resolved(t, P)
BY DEF Means, Resolved, Named

LEMMA NamedFirst ==
    ASSUME NEW t \in Target, t # All, NEW P \in SUBSET Proc, NEW q \in P, Denotes(t, q),
           NEW p \in Resolved(t, P)
    PROVE  Denotes(t, p)
BY DEF Target, Denotes, Resolved, Named

-----------------------------------------------------------------------------
LEMMA DisturbType ==
    ASSUME TypeOK, NEW p \in Proc, NEW s \in {"new", "up", "down", "gone"}, Disturb(p, s)
    PROVE  /\ status' \in [Proc -> {"new", "up", "down", "gone"}]
           /\ steady' \in [Req -> SUBSET Proc]
BY DEF TypeOK, Disturb

(* TypeOK: every variable stays in its type.                               *)
THEOREM TypeCorrect == Spec => []TypeOK
<1>1. Init => TypeOK
  BY DEF Init, TypeOK
<1>2. TypeOK /\ [Next]_vars => TypeOK'
  <2> SUFFICES ASSUME TypeOK, [Next]_vars PROVE TypeOK'
    OBVIOUS
  <2>1. ASSUME NEW r \in Req, NEW a \in Action, NEW t \in Target, Single(r, a, t)
        PROVE TypeOK'
    <3>1. [action |-> a, target |-> t, bulk |-> FALSE] \in Operation
      BY DEF Operation, Target
    <3>2. Arrive(r, [action |-> a, target |-> t, bulk |-> FALSE], "call")
      BY <2>1 DEF Single
    <3> QED BY <3>1, <3>2 DEF Arrive, TypeOK, Present
  <2>2. ASSUME NEW r \in Req, NEW a \in Action, Bulk(r, a) PROVE TypeOK'
    <3>1. [action |-> a, target |-> All, bulk |-> TRUE] \in Operation
      BY DEF Operation, Target
    <3> QED BY <2>2, <3>1 DEF Bulk, Arrive, TypeOK, Present
  <2>3. ASSUME NEW r \in Req, Listed(r) PROVE TypeOK'
    BY <2>3 DEF Listed, Succeed, Send, Stopped, Present, world, TypeOK
  <2>4. ASSUME NEW r \in Req, Call(r) PROVE TypeOK'
    <3>1. pc[r] = "call" /\ calls[r] = {} /\ UNCHANGED <<status, steady, op, acted>>
      BY <2>4 DEF Call, world, TypeOK
    <3>2. ASSUME NEW P \in SUBSET Proc, P # {}, Send(r, P) PROVE TypeOK'
      BY <3>1, <3>2 DEF Send, TypeOK
    <3>3. ASSUME FailRequest(r), calls' = calls PROVE TypeOK'
      BY <3>1, <3>3 DEF FailRequest, TypeOK
    <3>4. Resolved(op[r].target, Present) \in SUBSET Proc
      BY DEF Resolved, Present
    <3> QED BY <2>4, <3>2, <3>3, <3>4 DEF Call
  <2>5. ASSUME NEW r \in Req, Refused(r) PROVE TypeOK'
    BY <2>5 DEF Refused, FailRequest, world, TypeOK
  <2>6. ASSUME NEW r \in Req, NEW p \in Proc, Act(r, p) PROVE TypeOK'
    <3>1. Outcome(op[r].action) \in {"new", "up", "down", "gone"}
      BY DEF Outcome
    <3>2. Disturb(p, Outcome(op[r].action))
      BY <2>6 DEF Act
    <3>3. /\ status' \in [Proc -> {"new", "up", "down", "gone"}]
          /\ steady' \in [Req -> SUBSET Proc]
      BY <3>1, <3>2, DisturbType
    <3>4. CASE pc[r] = "wait" /\ calls[r] = {p}
      <4>1. /\ pc' = [pc EXCEPT ![r] = "ok"] /\ audit' \in {audit, audit \cup {r}}
            /\ calls' = [calls EXCEPT ![r] = {}] /\ op' = op
            /\ acted' = [acted EXCEPT ![r] = acted[r] \cup {p}]
        BY <2>6, <3>4 DEF Act, Succeed
      <4> QED BY <3>3, <3>4, <4>1 DEF TypeOK
    <3>5. CASE ~(pc[r] = "wait" /\ calls[r] = {p})
      <4>1. pc' = pc /\ audit' = audit /\ op' = op
        BY <2>6, <3>5 DEF Act
      <4>2. pc[r] = "wait" => calls[r] \ {p} # {}
        BY <2>6, <3>5 DEF Act
      <4>3. /\ acted' = [acted EXCEPT ![r] = acted[r] \cup {p}]
            /\ calls' = [calls EXCEPT ![r] = calls[r] \ {p}]
            /\ calls[r] # {}
        BY <2>6 DEF Act
      <4> QED BY <3>3, <4>1, <4>2, <4>3 DEF TypeOK
    <3> QED BY <3>4, <3>5
  <2>7. ASSUME NEW r \in Req, NEW p \in Proc, ActFails(r, p) PROVE TypeOK'
    BY <2>7 DEF ActFails, FailRequest, world, TypeOK
  <2>8. ASSUME NEW p \in Proc, ProcessChanges(p) PROVE TypeOK'
    BY <2>8, DisturbType DEF ProcessChanges, TypeOK
  <2>9. CASE Crash
    BY <2>9 DEF Crash, world, TypeOK
  <2>10. CASE UNCHANGED vars
    BY <2>10 DEF vars, TypeOK
  <2> QED BY <2>1, <2>2, <2>3, <2>4, <2>5, <2>6, <2>7, <2>8, <2>9, <2>10 DEF Next
<1> QED BY <1>1, <1>2, PTL DEF Spec

-----------------------------------------------------------------------------
(* OperationInv is inductive.                                              *)
LEMMA OperationInvHolds == Spec => []OperationInv
<1>1. Init => OperationInv
  BY DEF Init, OperationInv
<1>2. TypeOK /\ OperationInv /\ [Next]_vars => OperationInv'
  <2> SUFFICES ASSUME TypeOK, OperationInv, [Next]_vars PROVE OperationInv'
    OBVIOUS
  <2>1. ASSUME NEW r \in Req, NEW a \in Action, NEW t \in Target, Single(r, a, t)
        PROVE OperationInv'
    BY <2>1 DEF Single, ProcessTarget, Arrive, TypeOK, OperationInv, StartAll
  <2>2. ASSUME NEW r \in Req, NEW a \in Action, Bulk(r, a) PROVE OperationInv'
    BY <2>2 DEF Bulk, Arrive, TypeOK, OperationInv, StartAll
  <2>3. ASSUME NEW r \in Req, Listed(r) PROVE OperationInv'
    <3>1. op[r] # None
      BY <2>3 DEF Listed, TypeOK
    <3>2. op[r].bulk
      BY <2>3, <3>1 DEF Listed, OperationInv
    <3> QED BY <2>3, <3>1, <3>2 DEF Listed, Succeed, Send, world, TypeOK, OperationInv, StartAll
  <2>4. ASSUME NEW r \in Req, Call(r) PROVE OperationInv'
    BY <2>4 DEF Call, Send, FailRequest, world, TypeOK, OperationInv, StartAll
  <2>5. ASSUME NEW r \in Req, Refused(r) PROVE OperationInv'
    BY <2>5 DEF Refused, FailRequest, world, TypeOK, OperationInv, StartAll
  <2>6. ASSUME NEW r \in Req, NEW p \in Proc, Act(r, p) PROVE OperationInv'
    BY <2>6 DEF Act, Succeed, TypeOK, OperationInv, StartAll
  <2>7. ASSUME NEW r \in Req, NEW p \in Proc, ActFails(r, p) PROVE OperationInv'
    BY <2>7 DEF ActFails, FailRequest, world, TypeOK, OperationInv, StartAll
  <2>8. ASSUME NEW p \in Proc, ProcessChanges(p) PROVE OperationInv'
    BY <2>8 DEF ProcessChanges, OperationInv, StartAll
  <2>9. CASE Crash
    BY <2>9 DEF Crash, world, TypeOK, OperationInv, StartAll
  <2>10. CASE UNCHANGED vars
    BY <2>10 DEF vars, OperationInv, StartAll
  <2> QED BY <2>1, <2>2, <2>3, <2>4, <2>5, <2>6, <2>7, <2>8, <2>9, <2>10 DEF Next
<1> QED BY <1>1, <1>2, TypeCorrect, PTL DEF Spec

(* What becomes of a process that is still undisturbed after a step.        *)
LEMMA Undisturbed ==
    ASSUME TypeOK, ControlInv, NEW p \in Proc, NEW s, Disturb(p, s),
           NEW q \in Req, NEW x \in steady'[q]
    PROVE  x \in steady[q] /\ x # p /\ status'[x] = status[x] /\ x \in Present'
BY DEF TypeOK, ControlInv, Disturb, Present

(* ControlInv is inductive: what a handler decided from an old list or       *)
(* lookup is still right about every process nobody has disturbed since.    *)
LEMMA ControlInvHolds == Spec => []ControlInv
<1>1. Init => ControlInv
  BY DEF Init, ControlInv
<1>2. TypeOK /\ OperationInv /\ ControlInv /\ [Next]_vars => ControlInv'
  <2> SUFFICES ASSUME TypeOK, OperationInv, ControlInv, [Next]_vars PROVE ControlInv'
    OBVIOUS
  <2>1. ASSUME NEW r \in Req, NEW o \in Operation, NEW at \in {"list", "call"}, Arrive(r, o, at)
        PROVE ControlInv'
    BY <2>1 DEF Arrive, TypeOK, ControlInv, Present, Owed, StartAll
  <2>2. ASSUME NEW r \in Req, NEW a \in Action, NEW t \in Target, Single(r, a, t)
        PROVE ControlInv'
    <3>1. [action |-> a, target |-> t, bulk |-> FALSE] \in Operation
      BY DEF Operation, Target
    <3> QED BY <2>1, <2>2, <3>1 DEF Single
  <2>3. ASSUME NEW r \in Req, NEW a \in Action, Bulk(r, a) PROVE ControlInv'
    <3>1. [action |-> a, target |-> All, bulk |-> TRUE] \in Operation
      BY DEF Operation, Target
    <3> QED BY <2>1, <2>3, <3>1 DEF Bulk
  <2>4. ASSUME NEW r \in Req, Listed(r) PROVE ControlInv'
    BY <2>4 DEF Listed, Succeed, Send, Stopped, Present, world, TypeOK, ControlInv, Owed, StartAll
  <2>5. ASSUME NEW r \in Req, Call(r) PROVE ControlInv'
    <3>1. ~StartAll(r)
      BY <2>5 DEF Call, TypeOK, OperationInv
    <3>2. \A p \in Present : Means(op[r].target, p) => p \in Resolved(op[r].target, Present)
      BY ResolvedIfMeant DEF Present
    <3> QED BY <2>5, <3>1, <3>2 DEF Call, Send, FailRequest, world, TypeOK, ControlInv, Owed, StartAll, Present
  <2>6. ASSUME NEW r \in Req, Refused(r) PROVE ControlInv'
    BY <2>6 DEF Refused, FailRequest, Present, world, TypeOK, ControlInv, Owed, StartAll
  <2>7. ASSUME NEW r \in Req, NEW p \in Proc, Act(r, p) PROVE ControlInv'
    <3> SUFFICES ASSUME NEW q \in Req, NEW x \in steady'[q]
                 PROVE  /\ x \in Present'
                        /\ pc'[q] \in {"wait", "ok"} /\ Owed(q, x)' => x \in calls'[q] \cup acted'[q]
                        /\ x \in calls'[q] /\ StartAll(q)' => status'[x] = "down"
      BY DEF ControlInv
    <3>1. x \in steady[q] /\ x # p /\ status'[x] = status[x] /\ x \in Present'
      BY <2>7, Undisturbed DEF Act
    <3>2. op' = op /\ (pc'[q] \in {"wait", "ok"} => pc[q] \in {"wait", "ok"})
      BY <2>7 DEF Act, Succeed, TypeOK
    <3>3. (x \in calls'[q] <=> x \in calls[q]) /\ (x \in acted'[q] <=> x \in acted[q])
      BY <2>7, <3>1 DEF Act, TypeOK
    <3> QED BY <3>1, <3>2, <3>3 DEF ControlInv, Owed, StartAll
  <2>8. ASSUME NEW r \in Req, NEW p \in Proc, ActFails(r, p) PROVE ControlInv'
    BY <2>8 DEF ActFails, FailRequest, Present, world, TypeOK, ControlInv, Owed, StartAll
  <2>9. ASSUME NEW p \in Proc, NEW s \in {"up", "down", "gone"}, Disturb(p, s),
               UNCHANGED <<op, pc, calls, acted, audit>>
        PROVE ControlInv'
    BY <2>9, Undisturbed DEF ControlInv, Owed, StartAll
  <2>10. ASSUME NEW p \in Proc, ProcessChanges(p) PROVE ControlInv'
    BY <2>9, <2>10 DEF ProcessChanges
  <2>11. CASE Crash
    BY <2>11 DEF Crash, Present, world, TypeOK, ControlInv, Owed, StartAll
  <2>12. CASE UNCHANGED vars
    BY <2>12 DEF vars, Present, ControlInv, Owed, StartAll
  <2> QED BY <2>2, <2>3, <2>4, <2>5, <2>6, <2>7, <2>8, <2>10, <2>11, <2>12 DEF Next
<1> QED BY <1>1, <1>2, TypeCorrect, OperationInvHolds, PTL DEF Spec

-----------------------------------------------------------------------------
(* EntryMeansDone: an entry in the activity log is true of every process     *)
(* that was not disturbed while the request was served.                     *)
THEOREM EntriesTrue == Spec => []EntryMeansDone
<1>1. TypeOK /\ ControlInv => EntryMeansDone
  BY DEF TypeOK, ControlInv, EntryMeansDone, Owed
<1> QED BY <1>1, TypeCorrect, ControlInvHolds, PTL

(* NamedSparesOthers: a request for a process that is there, undisturbed, is *)
(* sent to no process of another id and name.                              *)
THEOREM NamedOnly == Spec => NamedSparesOthers
<1> DEFINE Spares ==
      \A r \in Req :
          pc[r] = "call" /\ ~op[r].bulk /\ (\E q \in steady[r] : Denotes(op[r].target, q)) =>
              \A p \in calls'[r] : Denotes(op[r].target, p)
<1>1. TypeOK /\ OperationInv /\ ControlInv /\ [Next]_vars => [Spares]_vars
  <2> SUFFICES ASSUME TypeOK, OperationInv, ControlInv, Next,
                      NEW r \in Req, pc[r] = "call", ~op[r].bulk,
                      NEW q \in steady[r], Denotes(op[r].target, q),
                      NEW p \in calls'[r]
               PROVE  Denotes(op[r].target, p)
    OBVIOUS
  <2>1. calls[r] = {} /\ op[r] \in Operation /\ op[r].target # All
    BY DEF TypeOK, OperationInv
  <2>2. op[r].target \in Target /\ q \in Present /\ Present \in SUBSET Proc
    BY <2>1 DEF Operation, ControlInv, Present
  <2>3. ASSUME Call(r) PROVE Denotes(op[r].target, p)
    <3>1. p \in Resolved(op[r].target, Present)
      BY <2>1, <2>3 DEF Call, Send, TypeOK
    <3> QED BY <2>1, <2>2, <3>1, NamedFirst
  <2>4. ASSUME ~Call(r) PROVE calls'[r] = {}
    <3>1. ASSUME NEW x \in Req, NEW o, NEW at, Arrive(x, o, at) PROVE calls'[r] = {}
      BY <2>1, <3>1 DEF Arrive
    <3>2. ASSUME NEW x \in Req, Listed(x) PROVE calls'[r] = {}
      <4>1. x # r
        BY <3>2 DEF Listed
      <4> QED BY <2>1, <3>2, <4>1 DEF Listed, Send, TypeOK
    <3>3. ASSUME NEW x \in Req, Call(x) \/ Refused(x) PROVE calls'[r] = {}
      BY <2>1, <2>4, <3>3 DEF Call, Refused, Send, TypeOK
    <3>4. ASSUME NEW x \in Req, NEW y \in Proc, Act(x, y) \/ ActFails(x, y)
          PROVE  calls'[r] = {}
      <4>1. x # r
        BY <2>1, <3>4 DEF Act, ActFails
      <4> QED BY <2>1, <3>4, <4>1 DEF Act, ActFails, TypeOK
    <3>5. ASSUME (\E y \in Proc : ProcessChanges(y)) \/ Crash PROVE calls'[r] = {}
      BY <2>1, <3>5 DEF ProcessChanges, Crash
    <3> QED BY <3>1, <3>2, <3>3, <3>4, <3>5 DEF Next, Single, Bulk
  <2> QED BY <2>3, <2>4
<1> QED
  BY <1>1, TypeCorrect, OperationInvHolds, ControlInvHolds, PTL DEF Spec, NamedSparesOthers

(* StartAllSparesRunning: start-all restarts nothing that kept running.      *)
THEOREM RunningSpared == Spec => StartAllSparesRunning
<1> DEFINE Spares == \A r \in Req : \A p \in acted'[r] \ acted[r] :
                        StartAll(r) => ~(p \in steady[r] /\ status[p] = "up")
<1>1. TypeOK /\ ControlInv /\ [Next]_vars => [Spares]_vars
  <2> SUFFICES ASSUME TypeOK, ControlInv, Next,
                      NEW r \in Req, NEW p \in acted'[r] \ acted[r], StartAll(r), p \in steady[r]
               PROVE  status[p] # "up"
    OBVIOUS
  <2>1. CASE \E q \in Req, x \in Proc : Act(q, x)
    <3>1. p \in calls[r]
      BY <2>1 DEF Act, TypeOK
    <3> QED BY <3>1 DEF ControlInv
  <2>2. CASE ~\E q \in Req, x \in Proc : Act(q, x)
    <3>1. ASSUME NEW q \in Req, Listed(q) \/ Call(q) \/ Refused(q)
          PROVE  acted' = acted
      BY <3>1 DEF Listed, Call, Refused
    <3>2. ASSUME NEW q \in Req, NEW x \in Proc, ActFails(q, x)
          PROVE  acted' = acted
      BY <3>2 DEF ActFails
    <3>3. ASSUME NEW x \in Proc, ProcessChanges(x)
          PROVE  acted' = acted
      BY <3>3 DEF ProcessChanges
    <3>4. ASSUME Crash
          PROVE  acted' = acted
      BY <3>4 DEF Crash
    <3>5. ASSUME NEW q \in Req, NEW a \in Action,
                 Bulk(q, a) \/ \E t \in Target : Single(q, a, t)
          PROVE  acted'[r] \subseteq acted[r]
      <4>1. acted' = [acted EXCEPT ![q] = {}]
        BY <3>5 DEF Single, Bulk, Arrive
      <4> QED BY <4>1 DEF TypeOK
    <3>6. acted'[r] \subseteq acted[r]
      BY <2>2, <3>1, <3>2, <3>3, <3>4, <3>5 DEF Next
    <3> QED BY <3>6
  <2> QED BY <2>1, <2>2
<1> QED BY <1>1, TypeCorrect, ControlInvHolds, PTL DEF Spec, StartAllSparesRunning
=============================================================================

--------------------------- MODULE ProcessControl ---------------------------
(* Control of the processes of the PM2 daemon: process.controller.ts and    *)
(* the operations of pm2.service.ts it calls.  A request for one target     *)
(* makes one call to PM2; a bulk request first reads the process list, and  *)
(* what it does next was decided by that list.  PM2 works through the       *)
(* processes of a call one by one, while other requests, the pm2 command    *)
(* line and the processes themselves go on.  The connection and the bus,    *)
(* which every operation passes first, are in Pm2Service: here a call may   *)
(* be refused.                                                             *)
EXTENDS Naturals

CONSTANTS
    Proc,     \* pm_ids; the daemon hands out each of them once
    Name,     \* words: names and namespaces of processes
    NameOf,   \* the name of each process
    NamespaceOf, \* and its namespace
    All,      \* the word that PM2 takes for every process
    Pattern,  \* targets between slashes, regular expressions to PM2
    Matched,  \* the names each of them matches
    Action,   \* the actions requests ask for
    Req,      \* requests; each can be made again when nothing is left of it
    None

Target == Proc \cup Name \cup {All} \cup Pattern

Operation == [action: Action, target: Target, bulk: BOOLEAN]

ASSUME ProcessAssumption ==
    /\ NameOf \in [Proc -> Name] /\ NamespaceOf \in [Proc -> Name]
    /\ Matched \in [Pattern -> SUBSET Name]
    /\ Proc \cap (Name \cup {All} \cup Pattern) = {} /\ Pattern \cap (Name \cup {All}) = {}
    /\ Action \subseteq {"start", "stop", "restart", "reload", "delete"}
    /\ None \notin Operation

VARIABLES
    status,   \* of each process: not there yet, up (online or launching), down, gone
    op,       \* what each request asks for
    pc,       \* where its handler is
    calls,    \* processes PM2 has been told to act on for the request
    acted,    \* processes PM2 has acted on for the request
    steady,   \* processes there since the request came, and undisturbed
    audit     \* requests with an entry in the activity log

vars == <<status, op, pc, calls, acted, steady, audit>>
world == <<status, steady>>

Present == {p \in Proc : status[p] \in {"up", "down"}}

(* pm2Service.start is PM2's restart; reload and restart leave it up.       *)
Outcome(action) ==
    IF action = "stop" THEN "down" ELSE IF action = "delete" THEN "gone" ELSE "up"

StartAll(r) == op[r].bulk /\ op[r].action = "start"

(* Mutant: the target is not validated.                                    *)
AnyTarget == Target

(* The targets that the routes for one process let through.                *)
ProcessTarget == Target \ {All}

(* Digits are a pm_id.  Anything else PM2 (external) takes for the reserved *)
(* word, a regular expression, a name, or, if no process has that name, a  *)
(* namespace.  Which processes of P a target stands for:                   *)
Named(t, P) == {p \in P : NameOf[p] = t}

Resolved(t, P) ==
    {p \in P : \/ t = All \/ t = p \/ t = NameOf[p]
               \/ t \in Pattern /\ NameOf[p] \in Matched[t]
               \/ t = NamespaceOf[p] /\ Named(t, P) = {}}

Init ==
    /\ status \in [Proc -> {"new", "up", "down"}]
    /\ op = [r \in Req |-> None] /\ pc = [r \in Req |-> "idle"]
    /\ calls = [r \in Req |-> {}] /\ acted = [r \in Req |-> {}]
    /\ steady = [r \in Req |-> {}]
    /\ audit = {}

-----------------------------------------------------------------------------
(* The handler of r.                                                       *)

Arrive(r, o, at) ==
    /\ pc[r] \in {"idle", "ok", "failed", "lost"} /\ calls[r] = {}
    /\ op' = [op EXCEPT ![r] = o]
    /\ pc' = [pc EXCEPT ![r] = at]
    /\ steady' = [steady EXCEPT ![r] = Present]
    /\ acted' = [acted EXCEPT ![r] = {}]
    /\ audit' = audit \ {r}
    /\ UNCHANGED <<status, calls>>

(* POST /:idOrName/:action and DELETE /:idOrName.                           *)
Single(r, a, t) ==
    /\ t \in ProcessTarget
    /\ Arrive(r, [action |-> a, target |-> t, bulk |-> FALSE], "call")

(* POST /actions/:action: there is no delete-all.                          *)
Bulk(r, a) ==
    /\ a # "delete"
    /\ Arrive(r, [action |-> a, target |-> All, bulk |-> TRUE], "list")

(* The operation has been done: record it, answer 200.  An entry that the   *)
(* database refuses is left out, and nobody is told.                       *)
Succeed(r) ==
    /\ pc' = [pc EXCEPT ![r] = "ok"]
    /\ audit' \in {audit, audit \cup {r}}

(* A Pm2Error: answered 502, nothing recorded.                             *)
FailRequest(r) ==
    /\ pc' = [pc EXCEPT ![r] = "failed"]
    /\ UNCHANGED audit

Send(r, P) ==
    /\ calls' = [calls EXCEPT ![r] = P]
    /\ pc' = [pc EXCEPT ![r] = "wait"]
    /\ UNCHANGED audit

(* Mutant: the running processes are not left out.                         *)
StoppedOrNot == Present

(* What start-all filters from its list.                                   *)
Stopped == {p \in Present : status[p] = "down"}

(* The list that a bulk request asked for.  With nothing to do it is done;  *)
(* start-all makes a call for each process that is not running, the others  *)
(* one for `all'.                                                          *)
Listed(r) ==
    /\ pc[r] = "list"
    /\ \/ /\ Present = {} \/ (StartAll(r) /\ Stopped = {})
          /\ Succeed(r)
          /\ UNCHANGED calls
       \/ /\ StartAll(r) /\ Stopped # {}
          /\ Send(r, Stopped)
       \/ /\ Present # {} /\ ~StartAll(r)
          /\ pc' = [pc EXCEPT ![r] = "call"]
          /\ UNCHANGED <<calls, audit>>
    /\ UNCHANGED <<world, op, acted>>

(* The call is made: PM2 looks up what the target means now.               *)
Call(r) ==
    /\ pc[r] = "call"
    /\ LET P == Resolved(op[r].target, Present) IN
         \/ P # {} /\ Send(r, P)
         \/ P = {} /\ FailRequest(r) /\ UNCHANGED calls
    /\ UNCHANGED <<world, op, acted>>

(* No connection, or PM2 does not answer the list or take the call.        *)
Refused(r) ==
    /\ pc[r] \in {"list", "call"}
    /\ FailRequest(r)
    /\ UNCHANGED <<world, op, calls, acted>>

-----------------------------------------------------------------------------
(* PM2 and the processes.                                                  *)

Disturb(p, s) ==
    /\ status' = [status EXCEPT ![p] = s]
    /\ steady' = [r \in Req |-> steady[r] \ {p}]

(* PM2 does to p what r asked for.  The request ends with its last process, *)
(* unless it has failed before, which stops nothing that was sent.          *)
Act(r, p) ==
    /\ p \in calls[r] \cap Present
    /\ Disturb(p, Outcome(op[r].action))
    /\ acted' = [acted EXCEPT ![r] = acted[r] \cup {p}]
    /\ calls' = [calls EXCEPT ![r] = calls[r] \ {p}]
    /\ IF pc[r] = "wait" /\ calls[r] = {p} THEN Succeed(r) ELSE UNCHANGED <<pc, audit>>
    /\ UNCHANGED op

(* Mutant: Promise.allSettled.                                             *)
ActFailsQuietly(r, p) ==
    /\ p \in calls[r]
    /\ calls' = [calls EXCEPT ![r] = calls[r] \ {p}]
    /\ IF pc[r] = "wait" /\ calls[r] = {p} THEN Succeed(r) ELSE UNCHANGED <<pc, audit>>
    /\ UNCHANGED <<world, op, acted>>

(* Mutant: the failure of a call is not passed on.                         *)
ActFailsUnanswered(r, p) ==
    /\ p \in calls[r]
    /\ calls' = [calls EXCEPT ![r] = calls[r] \ {p}]
    /\ UNCHANGED <<world, op, pc, acted, audit>>

(* It cannot, because p is gone or otherwise: the request fails at once.    *)
(* start-all made a call for each process; one call for several processes   *)
(* may or may not give up the others.                                      *)
ActFails(r, p) ==
    /\ p \in calls[r]
    /\ \E P \in SUBSET (calls[r] \ {p}) :
         /\ StartAll(r) => P = calls[r] \ {p}
         /\ calls' = [calls EXCEPT ![r] = P]
    /\ IF pc[r] = "wait" THEN FailRequest(r) ELSE UNCHANGED <<pc, audit>>
    /\ UNCHANGED <<world, op, acted>>

(* The command line, autorestart, exits.                                   *)
ProcessChanges(p) ==
    /\ \/ status[p] = "new" /\ Disturb(p, "up")
       \/ status[p] = "up" /\ Disturb(p, "down")
       \/ status[p] = "down" /\ Disturb(p, "up")
       \/ p \in Present /\ Disturb(p, "gone")
    /\ UNCHANGED <<op, pc, calls, acted, audit>>

(* The server dies; what it sent may still be done.                        *)
Crash ==
    /\ \E r \in Req : pc[r] \in {"list", "call", "wait"}
    /\ pc' = [r \in Req |-> IF pc[r] \in {"list", "call", "wait"} THEN "lost" ELSE pc[r]]
    /\ UNCHANGED <<world, op, calls, acted, audit>>

Next ==
    \/ \E r \in Req, a \in Action, t \in Target : Single(r, a, t)
    \/ \E r \in Req, a \in Action : Bulk(r, a)
    \/ \E r \in Req : Listed(r) \/ Call(r) \/ Refused(r)
    \/ \E r \in Req, p \in Proc : Act(r, p) \/ ActFails(r, p)
    \/ \E p \in Proc : ProcessChanges(p)
    \/ Crash

Spec == Init /\ [][Next]_vars

(* The daemon answers, or the socket reports that it cannot.               *)
FairSpec ==
    /\ Spec
    /\ \A r \in Req : WF_vars(Listed(r) \/ Call(r) \/ Refused(r))
    /\ \A r \in Req, p \in Proc : WF_vars(Act(r, p) \/ ActFails(r, p))

-----------------------------------------------------------------------------
(* Types; a request that waits waits for some process, a failed or lost one *)
(* may still have calls, one that succeeded has none.                       *)
TypeOK ==
    /\ status \in [Proc -> {"new", "up", "down", "gone"}]
    /\ op \in [Req -> Operation \cup {None}]
    /\ pc \in [Req -> {"idle", "list", "call", "wait", "ok", "failed", "lost"}]
    /\ calls \in [Req -> SUBSET Proc]
    /\ acted \in [Req -> SUBSET Proc]
    /\ steady \in [Req -> SUBSET Proc]
    /\ audit \subseteq Req
    /\ \A r \in Req : /\ (pc[r] = "idle") <=> (op[r] = None)
                      /\ pc[r] = "wait" => calls[r] # {}
                      /\ calls[r] # {} => pc[r] \in {"wait", "failed", "lost"}
                      /\ r \in audit => pc[r] = "ok"

(* A target stands for p whatever other processes come and go.             *)
Means(t, p) == p \in Resolved(t, {p}) /\ (t = NamespaceOf[p] => Named(t, Proc) \subseteq {p})

(* "All processes restarted" in the activity log is true: of the processes  *)
(* the request means, each that nobody else disturbed while it was served   *)
(* has had the action done to it; start-all owes it to those that were down *)
(* all along.  processController, pm2Service.bulk and startAll, which       *)
(* decide from a list that is old when they act.                            *)
EntryMeansDone ==
    \A r \in audit : \A p \in steady[r] :
        Means(op[r].target, p) /\ (StartAll(r) => status[p] = "down") => p \in acted[r]

(* A request for one process that is there when it comes, and undisturbed   *)
(* when PM2 is told, is sent to no process of another id and name: not even *)
(* when a process is called `all', or its name is that of a namespace or is *)
(* given up for one by the processes around it.                            *)
Denotes(t, p) == t \in {p, NameOf[p]}

NamedSparesOthers ==
    [][\A r \in Req :
          pc[r] = "call" /\ ~op[r].bulk /\ (\E q \in steady[r] : Denotes(op[r].target, q)) =>
              \A p \in calls'[r] : Denotes(op[r].target, p)]_vars

(* start-all restarts no process that was up, undisturbed, from the arrival *)
(* of the request to that moment.  pm2Service.startAll.                     *)
StartAllSparesRunning ==
    [][\A r \in Req : \A p \in acted'[r] \ acted[r] :
          StartAll(r) => ~(p \in steady[r] /\ status[p] = "up")]_vars

(* Every request is answered, unless the server dies.                      *)
RequestsEnd ==
    \A r \in Req : (pc[r] \in {"list", "call", "wait"}) ~> (pc[r] \in {"ok", "failed", "lost"})
=============================================================================

----------------------------- MODULE SharedLink -----------------------------
(***************************************************************************)
(* What the PM2 connection promises its callers, without the promises,     *)
(* timers, late callbacks and dead buses it keeps it with: one connection  *)
(* to the daemon and one feed of its events, which all callers share.  Who *)
(* comes while one of the two is being made waits for it, all who wait go  *)
(* on together, and nobody waits for anything else.  Pm2Service implements *)
(* this.                                                                   *)
(***************************************************************************)
CONSTANTS
    Op,   \* callers
    Boot  \* the one that wants the connection and the feed and makes no call

VARIABLES
    link,    \* the connection: "down", "dialing" or "up"
    feed,    \* the feed of events: "none", "opening" or "open"
    caller,  \* each caller: what it waits for, or "idle"; Boot begins as "boot"
    closed   \* the connection has been closed for good by its owner

vars == <<link, feed, caller, closed>>

Init ==
    /\ link = "down" /\ feed = "none" /\ closed = FALSE
    /\ caller = [o \in Op |-> IF o = Boot THEN "boot" ELSE "idle"]

-----------------------------------------------------------------------------
Waiting(for) == {o \in Op : caller[o] = for}

Moved(W, to) == [o \in Op |-> IF o \in W THEN to ELSE caller[o]]

(* They have what they need; Boot is content with that.                    *)
Admitted(W) == [o \in Op |-> IF o \notin W THEN caller[o] ELSE IF o = Boot THEN "idle" ELSE "rpc"]

(* Callers that find the connection up need the feed.                      *)
NeedFeed(W) ==
    \/ feed = "open" /\ caller' = Admitted(W) /\ feed' = feed
    \/ feed # "open" /\ caller' = Moved(W, "attach") /\ feed' = "opening"

Ask(o) ==
    /\ caller[o] = IF o = Boot THEN "boot" ELSE "idle"
    /\ \/ link = "up" /\ NeedFeed({o}) /\ link' = link
       \/ link # "up" /\ caller' = Moved({o}, "connect") /\ link' = "dialing" /\ feed' = feed
    /\ closed' = closed

DialSucceeds ==
    /\ link = "dialing" /\ link' = "up"
    /\ NeedFeed(Waiting("connect"))
    /\ closed' = closed

(* The daemon refuses, or does not answer in time.                         *)
DialFails ==
    /\ link = "dialing" /\ link' = "down"
    /\ caller' = Moved(Waiting("connect"), "idle")
    /\ UNCHANGED <<feed, closed>>

(* The callers go on whether it could be opened or not.                    *)
FeedSettled ==
    /\ feed = "opening" /\ feed' \in {"open", "none"}
    /\ caller' = Admitted(Waiting("attach"))
    /\ UNCHANGED <<link, closed>>

FeedLost ==
    /\ feed = "open" /\ feed' = "none"
    /\ UNCHANGED <<link, caller, closed>>

(* The call of one caller ends, and no other.                              *)
Answered(o) ==
    /\ caller[o] = "rpc"
    /\ caller' = Moved({o}, "idle")
    /\ UNCHANGED <<link, feed, closed>>

(* What is being made stays so.                                            *)
Close ==
    /\ ~closed /\ closed' = TRUE
    /\ link' = IF link = "up" THEN "down" ELSE link
    /\ feed' = IF feed = "open" THEN "none" ELSE feed
    /\ caller' = caller

Next ==
    \/ \E o \in Op : Ask(o) \/ Answered(o)
    \/ DialSucceeds \/ DialFails \/ FeedSettled \/ FeedLost \/ Close

Spec == Init /\ [][Next]_vars
=============================================================================

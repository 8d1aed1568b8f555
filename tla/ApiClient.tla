----------------------------- MODULE ApiClient ------------------------------
(***************************************************************************)
(* The browser's side of a session: api.js and login.js in the tabs of one *)
(* browser, over the cookie they share, against the session and CSRF       *)
(* middleware of the server.                                               *)
(*                                                                         *)
(* A call is a GET for the CSRF token, where it needs one, and the request *)
(* proper.  Each of the two travels to the server, where it is handled in  *)
(* one step, and back; the reply's cookie is stored when its headers       *)
(* arrive, and the script goes on later, when it has read the body.  So    *)
(* replies may be overtaken by others.  rolling: true makes every reply to *)
(* a live session set its cookie again.                                    *)
(*                                                                         *)
(* A session's CSRF secret is drawn once and never leaves it, so a token   *)
(* is represented by the id of its session.                                *)
(***************************************************************************)
EXTENDS Naturals

CONSTANTS
    Tab,
    Call,     \* slots for calls in flight: bounds concurrency
    MaxSid,   \* sessions the store issues: a bound
    None

Sid == 1..MaxSid

ASSUME ClientAssumption == MaxSid \in Nat /\ None \notin Sid /\ None \notin Tab

VARIABLES
    session,   \* the store: which of csrfSecret and user a session has; {} when it has no row
    issued,    \* ids handed out so far
    cookie,    \* pm2m.sid in the browser
    page,      \* the page each tab shows
    leaving,   \* tabs whose window.location has been assigned
    csrfToken, \* api.js's cached token, per tab
    call,
    performed, \* how often the server did what a call asks for
    disturbed  \* calls tried again since when the cookie changed or a session ended

server == <<session, issued>>
vars == <<session, issued, cookie, page, leaving, csrfToken, call, performed, disturbed>>

Kind == {"read", "mutate", "logout", "login", "warm"}
Reply == {"ok", "challenge", "unauthorized", "badToken", "forbidden", "error"}

(* `sid' is the cookie the request carries; `sets' the cookie of its reply, *)
(* if any; `tab' is None once the page that made the call is gone.          *)
CallRecord == [kind: Kind, tab: Tab \cup {None}, stage: {"token", "main"},
               at: {"out", "back", "here", "end"}, retried: BOOLEAN,
               token: Sid \cup {None}, sid: Sid \cup {None},
               sets: SUBSET (Sid \cup {None}), reply: Reply \cup {None}]

NoCall == [kind |-> "read", tab |-> None, stage |-> "main", at |-> "end",
           retried |-> FALSE, token |-> None, sid |-> None, sets |-> {}, reply |-> None]

Live(s) == s \in Sid /\ session[s] # {}
Authenticated(s) == s \in Sid /\ "user" \in session[s]

(* The status of a reply is all the client sees of it.                     *)
Forbidden403 == {"badToken", "forbidden"}

UsesApi(k) == k \in {"read", "mutate", "logout"}
Mutation(k) == k \in {"mutate", "logout", "login"}

Ended(c) == call[c].at = "end"
Retrying == {c \in Call : call[c].retried /\ ~Ended(c)}

Init ==
    /\ session = [s \in Sid |-> {}] /\ issued = 0
    /\ cookie = None
    /\ page = [t \in Tab |-> "login"] /\ leaving = {}
    /\ csrfToken = [t \in Tab |-> None]
    /\ call = [c \in Call |-> NoCall]
    /\ performed = [c \in Call |-> 0]
    /\ disturbed = {}

-----------------------------------------------------------------------------
(* The server.                                                             *)

Answer(c, reply, sets, token) ==
    call' = [call EXCEPT ![c] =
                IF @.tab = None THEN NoCall
                ELSE [@ EXCEPT !.at = "back", !.reply = reply, !.sid = None,
                               !.sets = sets, !.token = token]]

(* The cookie of a reply that leaves the session alone.                    *)
Rolling(s) == IF Live(s) THEN {s} ELSE {}

EndSession(s) ==
    /\ session' = [session EXCEPT ![s] = {}]
    /\ disturbed' = disturbed \cup Retrying

(* GET /csrf-token: the secret is added to the session, or a new session    *)
(* made for it; the rate limiter may refuse it.                            *)
CsrfToken(c) ==
    /\ call[c].at = "out" /\ call[c].stage = "token"
    /\ LET s == call[c].sid IN
       \/ /\ Live(s)
          /\ session' = [session EXCEPT ![s] = @ \cup {"csrfSecret"}]
          /\ Answer(c, "ok", {s}, s)
          /\ UNCHANGED issued
       \/ /\ ~Live(s) /\ issued < MaxSid
          /\ issued' = issued + 1
          /\ session' = [session EXCEPT ![issued + 1] = {"csrfSecret"}]
          /\ Answer(c, "ok", {issued + 1}, issued + 1)
       \/ /\ Answer(c, "error", Rolling(s), None)
          /\ UNCHANGED server
    /\ UNCHANGED <<cookie, page, leaving, csrfToken, performed, disturbed>>

(* csrfProtection                                                          *)
TokenValid(c) ==
    LET s == call[c].sid IN
    /\ s \in Sid /\ "csrfSecret" \in session[s]
    /\ call[c].token = s

Passes(c) == Mutation(call[c].kind) => TokenValid(c)

(* apiRateLimiter and csrfProtection refuse, in this order.                *)
Rejected(c) ==
    /\ \/ Answer(c, "error", Rolling(call[c].sid), None)
       \/ ~Passes(c) /\ Answer(c, "badToken", Rolling(call[c].sid), None)
    /\ UNCHANGED <<server, performed, disturbed>>

(* A guarded route: requireAuth, requireAdmin, validation, the handler.     *)
(* A handler that fails may have acted; several answer 401 themselves.     *)
Guarded(c) ==
    /\ call[c].kind \in {"read", "mutate"} /\ Passes(c)
    /\ \E reply \in {"ok", "unauthorized", "forbidden", "error"} :
          /\ ~Authenticated(call[c].sid) => reply = "unauthorized"
          /\ Answer(c, reply, Rolling(call[c].sid), None)
          /\ performed' \in {performed, [performed EXCEPT ![c] = @ + 1]}
          /\ reply = "ok" => performed'[c] # performed[c]
          /\ reply \in {"unauthorized", "forbidden"} => performed' = performed
    /\ UNCHANGED <<server, disturbed>>

(* POST /logout: needs no login.                                           *)
Logout(c) ==
    /\ call[c].kind = "logout" /\ Passes(c)
    /\ EndSession(call[c].sid)
    /\ Answer(c, "ok", {None}, None)
    /\ performed' = [performed EXCEPT ![c] = @ + 1]
    /\ UNCHANGED issued

(* POST /login and /2fa: wrong credentials, a challenge, or a session under *)
(* a new id with no secret yet.                                            *)
Login(c) ==
    /\ call[c].kind = "login" /\ Passes(c)
    /\ \/ \E reply \in {"unauthorized", "challenge", "error"} :
             /\ Answer(c, reply, Rolling(call[c].sid), None)
             /\ UNCHANGED <<server, performed, disturbed>>
       \/ /\ issued < MaxSid
          /\ issued' = issued + 1
          /\ session' = [session EXCEPT ![call[c].sid] = {}, ![issued + 1] = {"user"}]
          /\ disturbed' = disturbed \cup Retrying
          /\ Answer(c, "ok", {issued + 1}, None)
          /\ performed' = [performed EXCEPT ![c] = @ + 1]

Handle(c) ==
    /\ call[c].at = "out" /\ call[c].stage = "main"
    /\ Rejected(c) \/ Guarded(c) \/ Logout(c) \/ Login(c)
    /\ UNCHANGED <<cookie, page, leaving, csrfToken>>

(* The idle timeout, or deleteByUserId.                                    *)
SessionEnds(s) ==
    /\ Live(s)
    /\ EndSession(s)
    /\ UNCHANGED <<issued, cookie, page, leaving, csrfToken, call, performed>>

-----------------------------------------------------------------------------
(* The browser.                                                            *)

(* fetch with credentials: the cookie is read when the request is sent.     *)
Sent(rec, stage) == [rec EXCEPT !.stage = stage, !.at = "out", !.sid = cookie,
                                !.sets = {}, !.reply = None]

(* The page makes a call.  A cached token saves api.js the first request.   *)
Begin(c, t, k) ==
    /\ Ended(c)
    /\ page[t] = IF UsesApi(k) THEN "app" ELSE "login"
    /\ LET token == IF k \in {"mutate", "logout"} THEN csrfToken[t] ELSE None
           new == [NoCall EXCEPT !.kind = k, !.tab = t, !.token = token]
       IN call' = [call EXCEPT ![c] =
                     Sent(new, IF k = "read" \/ token # None THEN "main" ELSE "token")]
    /\ performed' = [performed EXCEPT ![c] = 0]
    /\ disturbed' = disturbed \ {c}
    /\ UNCHANGED <<server, cookie, page, leaving, csrfToken>>

(* The headers arrive.                                                     *)
Arrive(c) ==
    /\ call[c].at = "back"
    /\ cookie' \in IF call[c].sets = {} THEN {cookie} ELSE call[c].sets
    /\ disturbed' = IF cookie' = cookie THEN disturbed
                                        ELSE disturbed \cup (Retrying \ {c})
    /\ call' = [call EXCEPT ![c].at = "here", ![c].sets = {}]
    /\ UNCHANGED <<server, page, leaving, csrfToken, performed>>

(* The promise of the call is settled: what the script does then.          *)
Settle(c, outcome) ==
    LET k == call[c].kind
        t == call[c].tab
    IN /\ call' = [call EXCEPT ![c] = NoCall]
       /\ performed' = [performed EXCEPT ![c] = 0]
       /\ disturbed' = disturbed \ {c}
       /\ csrfToken' = IF k = "logout" THEN [csrfToken EXCEPT ![t] = None] ELSE csrfToken
       /\ leaving' = IF \/ k = "logout"
                        \/ UsesApi(k) /\ outcome = "unauthorized"
                        \/ k = "login" /\ outcome = "ok"
                     THEN leaving \cup {t} ELSE leaving

(* getCsrfToken's and fetchCsrfToken's answer: cache it in api.js, and send *)
(* the request it was fetched for.                                         *)
TokenHere(c) ==
    /\ call[c].at = "here" /\ call[c].stage = "token"
    /\ \/ /\ call[c].reply # "ok" \/ call[c].kind = "warm"
          /\ Settle(c, call[c].reply)
       \/ /\ call[c].reply = "ok" /\ call[c].kind # "warm"
          /\ call' = [call EXCEPT ![c] = Sent(@, "main")]
          /\ csrfToken' = IF UsesApi(call[c].kind)
                          THEN [csrfToken EXCEPT ![call[c].tab] = call[c].token]
                          ELSE csrfToken
          /\ UNCHANGED <<leaving, performed, disturbed>>
    /\ UNCHANGED <<server, cookie, page>>

(* Mutant: the retry goes out with the token that was refused.             *)
RetryWithSameToken(c) ==
    /\ call' = [call EXCEPT ![c] = [Sent(@, "main") EXCEPT !.retried = TRUE]]
    /\ disturbed' = disturbed \ {c}
    /\ UNCHANGED <<csrfToken, leaving, performed>>

(* Once more from the start, with a token that must be fetched.            *)
Retry(c) ==
    /\ call' = [call EXCEPT ![c] = [Sent(@, "token") EXCEPT !.retried = TRUE, !.token = None]]
    /\ csrfToken' = [csrfToken EXCEPT ![call[c].tab] = None]
    /\ disturbed' = disturbed \ {c}
    /\ UNCHANGED <<leaving, performed>>

(* Mutant: nothing remembers that this is the retry.                       *)
RefusedAgain(c) == call[c].reply \in Forbidden403 /\ call[c].kind \in {"mutate", "logout"}

(* Mutant: every failed mutation is tried again.                           *)
FailedOnce(c) ==
    /\ call[c].reply \in Forbidden403 \cup {"error"}
    /\ call[c].kind \in {"mutate", "logout"} /\ ~call[c].retried

(* A 403 of a mutation, whatever it is for, taken for a stale token.        *)
Refused(c) ==
    /\ call[c].reply \in Forbidden403
    /\ call[c].kind \in {"mutate", "logout"} /\ ~call[c].retried

MainHere(c) ==
    /\ call[c].at = "here" /\ call[c].stage = "main"
    /\ \/ Refused(c) /\ Retry(c)
       \/ ~Refused(c) /\ Settle(c, call[c].reply)
    /\ UNCHANGED <<server, cookie, page>>

(* fetch rejects: the request or its reply is lost.                        *)
NetworkError(c) ==
    /\ call[c].at \in {"out", "back"} /\ call[c].tab # None
    /\ Settle(c, "network")
    /\ UNCHANGED <<server, cookie, page>>

(* A page loads, because the script or the user asked for it: requirePage   *)
(* and redirectIfAuthenticated choose which.  The scripts start afresh;     *)
(* what they had sent may still reach the server.                          *)
Load(t) ==
    /\ page' = [page EXCEPT ![t] = IF Authenticated(cookie) THEN "app" ELSE "login"]
    /\ leaving' = leaving \ {t}
    /\ csrfToken' = [csrfToken EXCEPT ![t] = None]
    /\ call' = [c \in Call |->
                  IF call[c].tab # t \/ Ended(c) THEN call[c]
                  ELSE IF call[c].at = "out" THEN [call[c] EXCEPT !.tab = None]
                  ELSE NoCall]
    /\ performed' = [c \in Call |-> IF call'[c] = NoCall THEN 0 ELSE performed[c]]
    /\ disturbed' = {c \in disturbed : call'[c] # NoCall}
    /\ UNCHANGED <<server, cookie>>

-----------------------------------------------------------------------------

Serve(c)  == CsrfToken(c) \/ Handle(c)
Resume(c) == TokenHere(c) \/ MainHere(c)

Next ==
    \/ \E c \in Call :
          \/ Serve(c) \/ Arrive(c) \/ Resume(c) \/ NetworkError(c)
          \/ \E t \in Tab, k \in Kind : Begin(c, t, k)
    \/ \E s \in Sid : SessionEnds(s)
    \/ \E t \in Tab : Load(t)

Spec == Init /\ [][Next]_vars

(* The server answers, the network delivers, the scripts run.              *)
Fairness == \A c \in Call : WF_vars(Serve(c)) /\ WF_vars(Arrive(c)) /\ WF_vars(Resume(c))
FairSpec == Spec /\ Fairness

-----------------------------------------------------------------------------
(* Properties.                                                             *)

(* The variables keep their types, and a reply is for a page that is there. *)
TypeOK ==
    /\ session \in [Sid -> SUBSET {"csrfSecret", "user"}]
    /\ issued \in 0..MaxSid
    /\ cookie \in Sid \cup {None}
    /\ page \in [Tab -> {"app", "login"}] /\ leaving \subseteq Tab
    /\ csrfToken \in [Tab -> Sid \cup {None}]
    /\ call \in [Call -> CallRecord]
    /\ \A c \in Call : call[c].at \in {"back", "here"} => call[c].tab # None
    /\ performed \in [Call -> Nat]
    /\ disturbed \subseteq Call

(* The reply that the promise of c is about to be settled with.             *)
Reports(c, reply) ==
    /\ call[c].at = "here" /\ call[c].stage = "main" /\ call[c].reply = reply
    /\ ~Refused(c)

(* What the caller is told is what happened, through the retry too: a call  *)
(* is performed at most once, once if it reports success, and not at all if *)
(* it reports a 401 or a 403 (api.js:62-84; the retry of :79 repeats only   *)
(* what the guards of app.ts:125 and the routes refused).                   *)
OutcomeTellsEffect ==
    \A c \in Call :
        /\ performed[c] <= 1
        /\ Reports(c, "ok") => performed[c] = 1
        /\ \A reply \in {"unauthorized", "badToken", "forbidden", "challenge"} :
              Reports(c, reply) => performed[c] = 0

(* "A stale CSRF token ... refresh once and retry" (api.js:78): a call of    *)
(* api.js is refused for its token in the end only if, since it was tried   *)
(* again, a session ended or a reply to another request changed the cookie; *)
(* whatever the other tabs and calls did before is repaired by the retry.   *)
StaleTokenRecovered ==
    \A c \in Call :
        Reports(c, "badToken") /\ UsesApi(call[c].kind) => c \in disturbed

(* How far a call is from its end: twice two requests, each of which goes   *)
(* out, comes back and is here.                                            *)
Remaining(r) ==
    IF r.at = "end" THEN 0
    ELSE (CASE r.at = "out" -> 3 [] r.at = "back" -> 2 [] r.at = "here" -> 1)
         + (IF r.stage = "token" THEN 3 ELSE 0) + (IF r.retried THEN 0 ELSE 6)

(* "Refresh once and retry" (api.js:78) stays "once" whatever the answers:   *)
(* each step of a call brings it nearer to its end, so that it makes four   *)
(* requests at most, even if no two answers are alike and nothing is fair.  *)
CallsAdvance ==
    [][\A c \in Call :
         ~Ended(c) /\ call'[c] # call[c] =>
            \/ Remaining(call'[c]) < Remaining(call[c])
            \/ call'[c] = [call[c] EXCEPT !.tab = None]]_vars  \* its page is gone

(* Every call comes to an end, however often its requests are refused.      *)
CallsEnd == \A c \in Call : []<>Ended(c)
=============================================================================

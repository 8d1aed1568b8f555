-------------------------- MODULE ApiClientProofs ---------------------------
(* Proofs about ApiClient, for any number of tabs, calls and sessions, and   *)
(* about the page that makes the calls (Views), for any number of requests  *)
(* under way.                                                              *)
EXTENDS ApiClient, Views, Integers, TLAPS

(* What the server may have done when a reply is under way.                *)
EffectKnown(c) ==
    LET r == call[c] IN
    /\ performed[c] <= 1
    /\ r.at = "out" \/ (r.stage = "token" /\ r.at # "end") => performed[c] = 0
    /\ r.at \in {"back", "here"} => r.reply \in Reply
    /\ r.stage = "main" /\ r.at \in {"back", "here"} =>
          /\ r.reply = "ok" => performed[c] = 1
          /\ r.reply \in {"unauthorized", "badToken", "forbidden", "challenge"}
                => performed[c] = 0
          /\ r.reply = "badToken" => Mutation(r.kind)

EffectsKnown == \A c \in Call : EffectKnown(c)

(* Ids not handed out yet have no row.                                     *)
IdsFresh == \A s \in Sid : s > issued => session[s] = {}

(* The token of a retry is the secret of the session its cookie names, from *)
(* the moment it is issued to the moment it is checked.                     *)
TokenGood(t) == t \in Sid /\ "csrfSecret" \in session[t]

RetryMatches(c) ==
    LET r == call[c] IN
    r.retried /\ r.at # "end" =>
        /\ r.kind \in {"mutate", "logout"}
        /\ c \notin disturbed =>
              /\ r.stage = "token" /\ r.at = "back" /\ r.reply = "ok" =>
                    TokenGood(r.token) /\ r.sets = {r.token}
              /\ r.stage = "token" /\ r.at = "here" /\ r.reply = "ok" =>
                    TokenGood(r.token) /\ cookie = r.token
              /\ r.stage = "main" /\ r.at = "out" =>
                    TokenGood(r.token) /\ r.sid = r.token
              /\ r.stage = "main" /\ r.at \in {"back", "here"} => r.reply # "badToken"

RetriesMatch == \A c \in Call : RetryMatches(c)

IInv == TypeOK /\ EffectsKnown /\ IdsFresh /\ RetriesMatch

LEMMA InitIInv == Init => IInv
  BY ClientAssumption
  DEF Init, IInv, TypeOK, EffectsKnown, EffectKnown, IdsFresh, RetriesMatch, RetryMatches,
      NoCall, CallRecord, Kind, Reply, Mutation, Sid

(* The step that leaves `call' a record of the same type.                  *)
LEMMA NoCallType == NoCall \in CallRecord
  BY DEF NoCall, CallRecord, Kind

LEMMA SentType ==
  ASSUME TypeOK, NEW rec \in CallRecord, NEW stage \in {"token", "main"}
  PROVE  /\ Sent(rec, stage) \in CallRecord
         /\ Sent(rec, stage).kind = rec.kind /\ Sent(rec, stage).tab = rec.tab
         /\ Sent(rec, stage).retried = rec.retried /\ Sent(rec, stage).token = rec.token
         /\ Sent(rec, stage).stage = stage /\ Sent(rec, stage).at = "out"
         /\ Sent(rec, stage).sid = cookie
  BY DEF TypeOK, Sent, CallRecord

LEMMA UpdateType ==
  ASSUME NEW rec \in CallRecord
  PROVE  /\ [rec EXCEPT !.tab = None] \in CallRecord
         /\ [rec EXCEPT !.at = "here", !.sets = {}] \in CallRecord
         /\ [rec EXCEPT !.retried = TRUE, !.token = None] \in CallRecord
<1>1. [rec EXCEPT !.tab = None] \in CallRecord
  BY DEF CallRecord
<1>2. [rec EXCEPT !.at = "here", !.sets = {}] \in CallRecord
  BY DEF CallRecord
<1>3. [rec EXCEPT !.retried = TRUE, !.token = None] \in CallRecord
  BY DEF CallRecord
<1> QED BY <1>1, <1>2, <1>3

(* The calls after the step are calls.                                     *)
TypedCall ==
    /\ call' \in [Call -> CallRecord]
    /\ \A c \in Call : call'[c].at \in {"back", "here"} => call'[c].tab # None

LEMMA AnswerType ==
  ASSUME TypeOK, NEW c \in Call, NEW reply \in Reply,
         NEW sets \in SUBSET (Sid \cup {None}), NEW token \in Sid \cup {None},
         Answer(c, reply, sets, token)
  PROVE  TypedCall
<1>1. NoCall \in CallRecord /\ NoCall.at = "end"
  BY NoCallType DEF NoCall
<1>2. ASSUME call[c].tab # None
      PROVE  [call[c] EXCEPT !.at = "back", !.reply = reply, !.sid = None,
                             !.sets = sets, !.token = token] \in CallRecord
  <2>1. call[c] \in CallRecord
    BY DEF TypeOK
  <2> QED BY <2>1 DEF CallRecord
<1>3. CASE call[c].tab = None
  BY <1>1, <1>3 DEF Answer, TypeOK, TypedCall
<1>4. CASE call[c].tab # None
  <2> DEFINE new == [call[c] EXCEPT !.at = "back", !.reply = reply, !.sid = None,
                                    !.sets = sets, !.token = token]
  <2>1. new \in CallRecord /\ new.tab = call[c].tab
    BY <1>2, <1>4 DEF TypeOK, CallRecord
  <2>2. call' = [call EXCEPT ![c] = new]
    BY <1>4 DEF Answer, TypeOK
  <2> HIDE DEF new
  <2> QED BY <1>4, <2>1, <2>2 DEF TypeOK, TypedCall
<1> QED BY <1>3, <1>4

LEMMA RollingType == \A s : Rolling(s) \in SUBSET (Sid \cup {None})
  BY DEF Rolling, Live

LEMMA TypeStep == TypeOK /\ [Next]_vars => TypeOK'
<1> SUFFICES ASSUME TypeOK, [Next]_vars PROVE TypeOK'
  OBVIOUS
<1> USE ClientAssumption
<1>1. ASSUME NEW c \in Call, CsrfToken(c) PROVE TypeOK'
  <2>1. TypedCall
    <3>1. CASE Answer(c, "ok", {call[c].sid}, call[c].sid) /\ Live(call[c].sid)
      BY <3>1, AnswerType DEF Live, Reply
    <3>2. CASE Answer(c, "ok", {issued + 1}, issued + 1) /\ issued < MaxSid
      <4>1. issued + 1 \in Sid
        BY <3>2 DEF TypeOK, Sid
      <4> QED BY <3>2, <4>1, AnswerType DEF Reply
    <3>3. CASE Answer(c, "error", Rolling(call[c].sid), None)
      BY <3>3, RollingType, AnswerType DEF Reply
    <3> QED BY <1>1, <3>1, <3>2, <3>3 DEF CsrfToken
  <2>2. session' \in [Sid -> SUBSET {"csrfSecret", "user"}] /\ issued' \in 0..MaxSid
    BY <1>1 DEF CsrfToken, server, Live, TypeOK, Sid
  <2> QED BY <1>1, <2>1, <2>2 DEF CsrfToken, TypeOK, TypedCall
<1>2. ASSUME NEW c \in Call, Handle(c) PROVE TypeOK'
  <2>1. UNCHANGED <<cookie, page, leaving, csrfToken>>
    BY <1>2 DEF Handle
  <2>2. CASE Rejected(c)
    <3>1. TypedCall
      BY <2>2, RollingType, AnswerType DEF Rejected, Reply
    <3> QED BY <2>1, <2>2, <3>1 DEF Rejected, server, TypeOK, TypedCall
  <2>3. CASE Guarded(c)
    <3>1. TypedCall
      BY <2>3, RollingType, AnswerType DEF Guarded, Reply
    <3>2. performed' \in [Call -> Nat]
      BY <2>3 DEF Guarded, TypeOK
    <3> QED BY <2>1, <2>3, <3>1, <3>2 DEF Guarded, server, TypeOK, TypedCall
  <2>4. CASE Logout(c)
    <3>1. TypedCall
      BY <2>4, AnswerType DEF Logout, Reply
    <3>2. performed' \in [Call -> Nat]
      BY <2>4 DEF Logout, TypeOK
    <3> QED BY <2>1, <2>4, <3>1, <3>2 DEF Logout, EndSession, Retrying, TypeOK, TypedCall
  <2>5. CASE Login(c)
    <3>1. TypedCall
      <4>1. CASE issued < MaxSid /\ Answer(c, "ok", {issued + 1}, None)
        <5>1. issued + 1 \in Sid
          BY <4>1 DEF TypeOK, Sid
        <5> QED BY <4>1, <5>1, AnswerType DEF Reply
      <4>2. CASE \E reply \in {"unauthorized", "challenge", "error"} :
                    Answer(c, reply, Rolling(call[c].sid), None)
        BY <4>2, RollingType, AnswerType DEF Reply
      <4> QED BY <2>5, <4>1, <4>2 DEF Login
    <3>2. performed' \in [Call -> Nat]
      BY <2>5 DEF Login, TypeOK
    <3>3. session' \in [Sid -> SUBSET {"csrfSecret", "user"}] /\ issued' \in 0..MaxSid
      BY <2>5 DEF Login, server, TypeOK
    <3>4. disturbed' \subseteq Call
      BY <2>5 DEF Login, Retrying, TypeOK
    <3> QED BY <2>1, <3>1, <3>2, <3>3, <3>4 DEF TypeOK, TypedCall
  <2> QED BY <1>2, <2>2, <2>3, <2>4, <2>5 DEF Handle
<1>3. ASSUME NEW c \in Call, Arrive(c) PROVE TypeOK'
  <2>1. TypedCall
    <3> DEFINE new == [call[c] EXCEPT !.at = "here", !.sets = {}]
    <3>1. new \in CallRecord
      BY UpdateType DEF TypeOK
    <3>2. new.tab # None /\ call' = [call EXCEPT ![c] = new]
      BY <1>3 DEF Arrive, TypeOK, CallRecord
    <3> HIDE DEF new
    <3> QED BY <3>1, <3>2 DEF TypeOK, TypedCall
  <2>2. cookie' \in Sid \cup {None} /\ disturbed' \subseteq Call
    BY <1>3 DEF Arrive, TypeOK, CallRecord, Retrying
  <2> QED BY <1>3, <2>1, <2>2 DEF Arrive, server, TypeOK, TypedCall
<1>4. ASSUME NEW c \in Call, NEW outcome, Settle(c, outcome), call[c].tab # None,
             UNCHANGED <<server, cookie, page>>
      PROVE  TypeOK'
  <2>1. NoCall \in CallRecord /\ NoCall.at = "end" /\ call[c].tab \in Tab
    BY <1>4, NoCallType DEF NoCall, TypeOK, CallRecord
  <2> QED BY <1>4, <2>1 DEF Settle, server, TypeOK
<1>5. ASSUME NEW c \in Call, TokenHere(c) PROVE TypeOK'
  <2>1. call[c] \in CallRecord /\ call[c].tab # None /\ call[c].tab \in Tab
    BY <1>5 DEF TokenHere, TypeOK, CallRecord
  <2>2. CASE Settle(c, call[c].reply)
    BY <1>4, <1>5, <2>1, <2>2 DEF TokenHere
  <2>3. CASE ~Settle(c, call[c].reply)
    <3>1. call' = [call EXCEPT ![c] = Sent(@, "main")] /\ UNCHANGED <<leaving, performed, disturbed>>
      BY <1>5, <2>3 DEF TokenHere
    <3>2. csrfToken' \in [Tab -> Sid \cup {None}]
      BY <1>5, <2>1, <2>3 DEF TokenHere, TypeOK, CallRecord
    <3> QED BY <1>5, <2>1, <3>1, <3>2, SentType DEF TokenHere, server, TypeOK
  <2> QED BY <2>2, <2>3
<1>6. ASSUME NEW c \in Call, MainHere(c) PROVE TypeOK'
  <2>1. call[c] \in CallRecord /\ call[c].tab # None /\ call[c].tab \in Tab
    BY <1>6 DEF MainHere, TypeOK, CallRecord
  <2>2. CASE Retry(c)
    <3>1. [Sent(call[c], "token") EXCEPT !.retried = TRUE, !.token = None] \in CallRecord
      BY <2>1, SentType, UpdateType
    <3>2. [Sent(call[c], "token") EXCEPT !.retried = TRUE, !.token = None].at = "out"
      BY <2>1, SentType DEF CallRecord
    <3> QED BY <1>6, <2>1, <2>2, <3>1, <3>2 DEF MainHere, Retry, server, TypeOK
  <2>3. CASE Settle(c, call[c].reply)
    BY <1>4, <1>6, <2>1, <2>3 DEF MainHere
  <2> QED BY <1>6, <2>2, <2>3 DEF MainHere
<1>7. ASSUME NEW c \in Call, NetworkError(c) PROVE TypeOK'
  BY <1>4, <1>7 DEF NetworkError
<1>8. ASSUME NEW c \in Call, NEW t \in Tab, NEW k \in Kind, Begin(c, t, k) PROVE TypeOK'
  <2> DEFINE token == IF k \in {"mutate", "logout"} THEN csrfToken[t] ELSE None
             new == [NoCall EXCEPT !.kind = k, !.tab = t, !.token = token]
             stage == IF k = "read" \/ token # None THEN "main" ELSE "token"
  <2>1. token \in Sid \cup {None} /\ stage \in {"token", "main"}
    BY DEF TypeOK
  <2>2. new \in CallRecord
    BY <2>1, NoCallType DEF CallRecord
  <2>3. call' = [call EXCEPT ![c] = Sent(new, stage)]
    BY <1>8 DEF Begin
  <2> HIDE DEF new, stage
  <2>4. Sent(new, stage) \in CallRecord /\ Sent(new, stage).at = "out"
    BY <2>1, <2>2, SentType
  <2> QED BY <1>8, <2>3, <2>4 DEF Begin, server, TypeOK
<1>9. ASSUME NEW s \in Sid, SessionEnds(s) PROVE TypeOK'
  BY <1>9 DEF SessionEnds, EndSession, Retrying, TypeOK
<1>10. ASSUME NEW t \in Tab, Load(t) PROVE TypeOK'
  <2>1. call' \in [Call -> CallRecord]
    BY <1>10, NoCallType, UpdateType DEF Load, TypeOK
  <2>2. \A c \in Call : call'[c].at \in {"back", "here"} => call'[c].tab # None
    BY <1>10 DEF Load, TypeOK, CallRecord, NoCall, Ended
  <2> QED BY <1>10, <2>1, <2>2 DEF Load, server, TypeOK
<1>11. CASE UNCHANGED vars
  BY <1>11 DEF vars, TypeOK
<1> QED BY <1>1, <1>2, <1>3, <1>5, <1>6, <1>7, <1>8, <1>9, <1>10, <1>11
        DEF Next, Serve, Resume

(* TypeOK: every variable stays in its type.                               *)
THEOREM TypeCorrect == Spec => []TypeOK
<1>1. Init => TypeOK
  BY InitIInv DEF IInv
<1> QED BY <1>1, TypeStep, PTL DEF Spec

-----------------------------------------------------------------------------
(* What a step of call c means for the other calls.                        *)

SecretsKept == \A s \in Sid : "csrfSecret" \in session[s] => "csrfSecret" \in session'[s]

OthersKept(c) ==
    \A d \in Call \ {c} :
        /\ call'[d] = call[d] /\ performed'[d] = performed[d]
        /\ d \in disturbed => d \in disturbed'
        /\ d \in Retrying /\ d \notin disturbed' => cookie' = cookie /\ SecretsKept

LEMMA Others ==
  ASSUME IInv, NEW c \in Call, OthersKept(c), EffectKnown(c)', RetryMatches(c)'
  PROVE  EffectsKnown' /\ RetriesMatch'
<1> SUFFICES ASSUME NEW d \in Call \ {c} PROVE EffectKnown(d)' /\ RetryMatches(d)'
  BY DEF EffectsKnown, RetriesMatch
<1>1. EffectKnown(d) /\ RetryMatches(d)
  BY DEF IInv, EffectsKnown, RetriesMatch
<1>2. call'[d] = call[d] /\ performed'[d] = performed[d]
  BY DEF OthersKept
<1>3. EffectKnown(d)'
  BY <1>1, <1>2 DEF EffectKnown
<1>4. RetryMatches(d)'
  <2>1. CASE d \in Retrying /\ d \notin disturbed'
    <3>1. d \notin disturbed /\ cookie' = cookie
          /\ \A t : TokenGood(t) => TokenGood(t)'
      BY <2>1 DEF OthersKept, SecretsKept, TokenGood
    <3> QED BY <1>1, <1>2, <3>1 DEF RetryMatches
  <2>2. CASE d \notin Retrying
    BY <1>2, <2>2 DEF RetryMatches, Retrying, Ended
  <2>3. CASE d \in disturbed'
    BY <1>1, <1>2, <2>3 DEF RetryMatches
  <2> QED BY <2>1, <2>2, <2>3
<1> QED BY <1>3, <1>4

(* What Answer leaves of its call.                                         *)
LEMMA AnswerEffect ==
  ASSUME TypeOK, NEW c \in Call, NEW reply \in Reply, NEW sets, NEW token,
         Answer(c, reply, sets, token)
  PROVE  /\ \A d \in Call \ {c} : call'[d] = call[d]
         /\ call'[c].kind = call[c].kind \/ call'[c].at = "end"
         /\ call'[c].at \in {"back", "end"}
         /\ call'[c].at = "back" =>
               /\ call'[c].stage = call[c].stage /\ call'[c].retried = call[c].retried
               /\ call'[c].reply = reply
               /\ call'[c].sets = sets /\ call'[c].token = token
<1>1. call[c] \in CallRecord
  BY DEF TypeOK
<1>2. CASE call[c].tab = None
  BY <1>1, <1>2 DEF Answer, TypeOK, NoCall
<1>3. CASE call[c].tab # None
  <2>1. call'[c] = [call[c] EXCEPT !.at = "back", !.reply = reply, !.sid = None,
                                   !.sets = sets, !.token = token]
    BY <1>3 DEF Answer, TypeOK
  <2>2. \A d \in Call \ {c} : call'[d] = call[d]
    BY DEF Answer, TypeOK
  <2> QED BY <1>1, <2>1, <2>2 DEF CallRecord
<1> QED BY <1>2, <1>3

LEMMA InvStep == IInv /\ [Next]_vars => IInv'
<1> SUFFICES ASSUME IInv, [Next]_vars PROVE IInv'
  OBVIOUS
<1> USE ClientAssumption
<1>0. TypeOK /\ TypeOK'
  BY TypeStep DEF IInv
<1> SUFFICES EffectsKnown' /\ IdsFresh' /\ RetriesMatch'
  BY <1>0 DEF IInv
<1>a. \A c \in Call : /\ call[c] \in CallRecord
                      /\ EffectKnown(c) /\ RetryMatches(c)
  BY <1>0 DEF IInv, TypeOK, EffectsKnown, RetriesMatch
<1>1. ASSUME NEW c \in Call, CsrfToken(c)
      PROVE  EffectsKnown' /\ IdsFresh' /\ RetriesMatch'
  <2> DEFINE s == call[c].sid
  <2>1. UNCHANGED <<cookie, performed, disturbed>> /\ call[c].at = "out" /\ call[c].stage = "token"
    BY <1>1 DEF CsrfToken
  <2>2. \/ Live(s) /\ session' = [session EXCEPT ![s] = @ \cup {"csrfSecret"}] /\ issued' = issued
           /\ Answer(c, "ok", {s}, s)
        \/ issued < MaxSid /\ issued' = issued + 1
           /\ session' = [session EXCEPT ![issued + 1] = {"csrfSecret"}]
           /\ Answer(c, "ok", {issued + 1}, issued + 1)
        \/ Answer(c, "error", Rolling(s), None) /\ session' = session /\ issued' = issued
    BY <1>1 DEF CsrfToken, server
  <2>3. SecretsKept /\ IdsFresh'
    <3>1. CASE Live(s) /\ session' = [session EXCEPT ![s] = @ \cup {"csrfSecret"}] /\ issued' = issued
      BY <1>0, <3>1 DEF IInv, IdsFresh, SecretsKept, TypeOK, Live
    <3>2. CASE issued < MaxSid /\ issued' = issued + 1
               /\ session' = [session EXCEPT ![issued + 1] = {"csrfSecret"}]
      <4>1. \A i \in Sid : i > issued' => i > issued /\ i # issued + 1
        BY <1>0, <3>2 DEF TypeOK, Sid
      <4> QED BY <1>0, <3>2, <4>1 DEF IInv, IdsFresh, SecretsKept, TypeOK
    <3>3. CASE session' = session /\ issued' = issued
      BY <3>3 DEF IInv, IdsFresh, SecretsKept
    <3> QED BY <2>2, <3>1, <3>2, <3>3
  <2>4. \E reply, token, sets :
           /\ reply \in Reply
           /\ Answer(c, reply, sets, token)
           /\ reply = "ok" => TokenGood(token)' /\ sets = {token}
    <3>1. CASE Live(s) /\ session' = [session EXCEPT ![s] = @ \cup {"csrfSecret"}]
               /\ Answer(c, "ok", {s}, s)
      BY <1>0, <3>1 DEF TokenGood, Live, TypeOK, Reply
    <3>2. CASE issued < MaxSid /\ session' = [session EXCEPT ![issued + 1] = {"csrfSecret"}]
               /\ Answer(c, "ok", {issued + 1}, issued + 1)
      <4>1. issued + 1 \in Sid
        BY <1>0, <3>2 DEF TypeOK, Sid
      <4> QED BY <1>0, <3>2, <4>1 DEF TokenGood, TypeOK, Reply
    <3>3. CASE Answer(c, "error", Rolling(s), None)
      <4>1. "error" \in Reply /\ "error" # "ok"
        BY DEF Reply
      <4> QED BY <3>3, <4>1
    <3> QED BY <2>2, <3>1, <3>2, <3>3
  <2>5. PICK reply, token, sets :
           /\ reply \in Reply
           /\ Answer(c, reply, sets, token)
           /\ reply = "ok" => TokenGood(token)' /\ sets = {token}
    BY <2>4
  <2>6. /\ \A d \in Call \ {c} : call'[d] = call[d]
        /\ call'[c].kind = call[c].kind \/ call'[c].at = "end"
        /\ call'[c].at \in {"back", "end"}
        /\ call'[c].at = "back" =>
              /\ call'[c].stage = "token" /\ call'[c].retried = call[c].retried
              /\ call'[c].reply = reply
              /\ call'[c].sets = sets /\ call'[c].token = token
    BY <1>0, <2>1, <2>5, AnswerEffect
  <2>7. OthersKept(c)
    BY <2>1, <2>3, <2>6 DEF OthersKept
  <2>8. EffectKnown(c)'
    BY <1>a, <2>1, <2>5, <2>6 DEF EffectKnown
  <2>9. RetryMatches(c)'
    BY <1>a, <2>1, <2>5, <2>6 DEF RetryMatches
  <2> QED BY <2>3, <2>7, <2>8, <2>9, Others
<1>2. ASSUME NEW c \in Call, Handle(c)
      PROVE  EffectsKnown' /\ IdsFresh' /\ RetriesMatch'
  <2>1. UNCHANGED cookie /\ call[c].at = "out" /\ call[c].stage = "main" /\ performed[c] = 0
    BY <1>2, <1>a DEF Handle, EffectKnown
  <2>2. \E reply, sets :
           /\ reply \in Reply
           /\ Answer(c, reply, sets, None)
           /\ reply = "ok" => performed'[c] = 1
           /\ reply \in {"unauthorized", "badToken", "forbidden", "challenge"} => performed'[c] = 0
           /\ performed'[c] \in {0, 1}
           /\ reply = "badToken" => ~Passes(c)
    <3>1. CASE Rejected(c)
      <4>1. performed'[c] = 0
        BY <2>1, <3>1 DEF Rejected
      <4>2. "error" \in Reply /\ "badToken" \in Reply
        BY DEF Reply
      <4> QED BY <3>1, <4>1, <4>2 DEF Rejected
    <3>2. CASE Guarded(c)
      <4>1. PICK reply \in {"ok", "unauthorized", "forbidden", "error"} :
               /\ Answer(c, reply, Rolling(call[c].sid), None)
               /\ performed' \in {performed, [performed EXCEPT ![c] = @ + 1]}
               /\ reply = "ok" => performed'[c] # performed[c]
               /\ reply \in {"unauthorized", "forbidden"} => performed' = performed
        BY <3>2 DEF Guarded
      <4>2. performed'[c] \in {0, 1} /\ reply \in Reply
        BY <1>0, <2>1, <4>1 DEF TypeOK, Reply
      <4> QED BY <2>1, <4>1, <4>2
    <3>3. CASE Logout(c)
      BY <1>0, <2>1, <3>3 DEF Logout, TypeOK, Reply
    <3>4. CASE Login(c)
      <4>1. CASE performed' = performed
        BY <2>1, <3>4, <4>1, <1>0 DEF Login, Reply, TypeOK
      <4>2. CASE performed' # performed
        BY <1>0, <2>1, <3>4, <4>2 DEF Login, TypeOK, Reply
      <4> QED BY <4>1, <4>2
    <3> QED BY <1>2, <3>1, <3>2, <3>3, <3>4 DEF Handle
  <2>3. PICK reply, sets :
           /\ reply \in Reply
           /\ Answer(c, reply, sets, None)
           /\ reply = "ok" => performed'[c] = 1
           /\ reply \in {"unauthorized", "badToken", "forbidden", "challenge"} => performed'[c] = 0
           /\ performed'[c] \in {0, 1}
           /\ reply = "badToken" => ~Passes(c)
    BY <2>2
  <2>4. /\ \A d \in Call \ {c} : call'[d] = call[d]
        /\ call'[c].kind = call[c].kind \/ call'[c].at = "end"
        /\ call'[c].at \in {"back", "end"}
        /\ call'[c].at = "back" =>
              /\ call'[c].stage = "main" /\ call'[c].retried = call[c].retried
              /\ call'[c].reply = reply
    BY <1>0, <2>1, <2>3, AnswerEffect
  <2>5. /\ \A d \in Call \ {c} : performed'[d] = performed[d]
        /\ disturbed \subseteq disturbed'
        /\ SecretsKept \/ disturbed' = disturbed \cup Retrying
        /\ IdsFresh'
    <3>1. CASE Rejected(c) \/ Guarded(c)
      BY <1>0, <3>1 DEF Rejected, Guarded, server, TypeOK, SecretsKept, IInv, IdsFresh
    <3>2. CASE Logout(c)
      <4>1. call[c].sid \in Sid
        BY <3>2 DEF Logout, Passes, Mutation, TokenValid
      <4> QED BY <1>0, <3>2, <4>1 DEF Logout, EndSession, TypeOK, IInv, IdsFresh, Sid
    <3>3. CASE Login(c)
      <4>1. call[c].sid \in Sid /\ session[call[c].sid] # {}
        BY <3>3 DEF Login, Passes, Mutation, TokenValid
      <4>2. CASE UNCHANGED <<server, performed, disturbed>>
        BY <4>2 DEF server, SecretsKept, IInv, IdsFresh
      <4>3. CASE ~UNCHANGED <<server, performed, disturbed>>
        <5>1. /\ issued' = issued + 1 /\ issued < MaxSid
              /\ session' = [session EXCEPT ![call[c].sid] = {}, ![issued + 1] = {"user"}]
              /\ disturbed' = disturbed \cup Retrying
              /\ performed' = [performed EXCEPT ![c] = @ + 1]
          BY <3>3, <4>3 DEF Login
        <5>2. \A i \in Sid : i > issued' => i > issued /\ i # issued + 1
          BY <1>0, <5>1 DEF TypeOK, Sid
        <5>3. IdsFresh'
          BY <1>0, <4>1, <5>1, <5>2 DEF TypeOK, IInv, IdsFresh
        <5> QED BY <1>0, <5>1, <5>3 DEF TypeOK
      <4> QED BY <4>2, <4>3
    <3> QED BY <1>2, <3>1, <3>2, <3>3 DEF Handle
  <2>6. OthersKept(c)
    BY <2>1, <2>4, <2>5 DEF OthersKept
  <2>7. EffectKnown(c)'
    <3>1. reply = "badToken" => Mutation(call[c].kind)
      BY <2>3 DEF Passes
    <3> QED BY <1>0, <2>1, <2>3, <2>4, <3>1 DEF EffectKnown, Mutation
  <2>8. RetryMatches(c)'
    <3>1. call[c].retried /\ c \notin disturbed => Passes(c)
      BY <1>a, <2>1 DEF RetryMatches, Passes, TokenValid, TokenGood
    <3> QED BY <1>a, <2>1, <2>3, <2>4, <2>5, <3>1 DEF RetryMatches
  <2> QED BY <2>5, <2>6, <2>7, <2>8, Others
<1>3. ASSUME NEW c \in Call, Arrive(c)
      PROVE  EffectsKnown' /\ IdsFresh' /\ RetriesMatch'
  <2>1. /\ call[c].at = "back" /\ UNCHANGED <<session, issued, performed>>
        /\ cookie' \in IF call[c].sets = {} THEN {cookie} ELSE call[c].sets
        /\ disturbed' = IF cookie' = cookie THEN disturbed ELSE disturbed \cup (Retrying \ {c})
        /\ call' = [call EXCEPT ![c].at = "here", ![c].sets = {}]
    BY <1>3 DEF Arrive, server
  <2>2. /\ \A d \in Call \ {c} : call'[d] = call[d]
        /\ call'[c].kind = call[c].kind /\ call'[c].stage = call[c].stage
        /\ call'[c].retried = call[c].retried /\ call'[c].reply = call[c].reply
        /\ call'[c].token = call[c].token /\ call'[c].at = "here"
    BY <1>0, <1>a, <2>1 DEF TypeOK, CallRecord
  <2>3. OthersKept(c)
    BY <2>1, <2>2 DEF OthersKept, SecretsKept
  <2>4. EffectKnown(c)'
    BY <1>a, <2>1, <2>2 DEF EffectKnown, Mutation
  <2>5. RetryMatches(c)'
    <3> SUFFICES ASSUME call[c].retried, c \notin disturbed,
                        call[c].stage = "token", call[c].reply = "ok"
                 PROVE  TokenGood(call[c].token)' /\ cookie' = call[c].token
      BY <1>a, <2>1, <2>2 DEF RetryMatches
    <3>1. TokenGood(call[c].token) /\ call[c].sets = {call[c].token}
      BY <1>a, <2>1 DEF RetryMatches
    <3> QED BY <2>1, <2>2, <3>1 DEF TokenGood
  <2>6. IdsFresh'
    BY <2>1 DEF IInv, IdsFresh
  <2> QED BY <2>3, <2>4, <2>5, <2>6, Others
<1>4. ASSUME NEW c \in Call, NEW outcome, Settle(c, outcome), UNCHANGED <<server, cookie, page>>
      PROVE  EffectsKnown' /\ IdsFresh' /\ RetriesMatch'
  <2>1. /\ \A d \in Call \ {c} : /\ call'[d] = call[d] /\ performed'[d] = performed[d]
                                 /\ d \in disturbed <=> d \in disturbed'
        /\ call'[c] = NoCall /\ performed'[c] = 0
    BY <1>0, <1>4 DEF Settle, TypeOK
  <2>2. OthersKept(c)
    BY <1>4, <2>1 DEF OthersKept, server, SecretsKept
  <2>3. EffectKnown(c)' /\ RetryMatches(c)'
    BY <2>1 DEF EffectKnown, RetryMatches, NoCall
  <2>4. IdsFresh'
    BY <1>4 DEF IInv, IdsFresh, server
  <2> QED BY <2>2, <2>3, <2>4, Others
<1>5. ASSUME NEW c \in Call, TokenHere(c)
      PROVE  EffectsKnown' /\ IdsFresh' /\ RetriesMatch'
  <2>1. UNCHANGED <<server, cookie, page>> /\ call[c].at = "here" /\ call[c].stage = "token"
    BY <1>5 DEF TokenHere
  <2>2. CASE Settle(c, call[c].reply)
    BY <1>4, <2>1, <2>2
  <2>3. CASE ~Settle(c, call[c].reply)
    <3>1. /\ call' = [call EXCEPT ![c] = Sent(@, "main")]
          /\ call[c].reply = "ok" /\ UNCHANGED <<performed, disturbed>>
      BY <1>5, <2>3 DEF TokenHere
    <3>2. /\ \A d \in Call \ {c} : call'[d] = call[d]
          /\ call'[c].kind = call[c].kind /\ call'[c].token = call[c].token
          /\ call'[c].retried = call[c].retried
          /\ call'[c].stage = "main" /\ call'[c].at = "out" /\ call'[c].sid = cookie
      BY <1>0, <1>a, <3>1, SentType DEF TypeOK
    <3>3. OthersKept(c) /\ IdsFresh'
      BY <2>1, <3>1, <3>2 DEF OthersKept, server, SecretsKept, IInv, IdsFresh
    <3>4. EffectKnown(c)'
      BY <1>a, <2>1, <3>1, <3>2 DEF EffectKnown
    <3>5. RetryMatches(c)'
      BY <1>a, <2>1, <3>1, <3>2 DEF RetryMatches, TokenGood, server
    <3> QED BY <3>3, <3>4, <3>5, Others
  <2> QED BY <2>2, <2>3
<1>6. ASSUME NEW c \in Call, MainHere(c)
      PROVE  EffectsKnown' /\ IdsFresh' /\ RetriesMatch'
  <2>1. UNCHANGED <<server, cookie, page>> /\ call[c].at = "here" /\ call[c].stage = "main"
    BY <1>6 DEF MainHere
  <2>2. CASE Settle(c, call[c].reply)
    BY <1>4, <2>1, <2>2
  <2>3. CASE Refused(c) /\ Retry(c)
    <3>1. /\ call' = [call EXCEPT ![c] = [Sent(@, "token") EXCEPT !.retried = TRUE, !.token = None]]
          /\ disturbed' = disturbed \ {c} /\ performed' = performed
          /\ call[c].kind \in {"mutate", "logout"}
          /\ call[c].reply \in {"badToken", "forbidden"}
      BY <2>3 DEF Refused, Retry, Forbidden403
    <3>2. performed[c] = 0
      BY <1>a, <2>1, <3>1 DEF EffectKnown
    <3>3. /\ \A d \in Call \ {c} : call'[d] = call[d]
          /\ call'[c].kind = call[c].kind
          /\ call'[c].stage = "token" /\ call'[c].at = "out"
      BY <1>0, <1>a, <3>1, SentType DEF TypeOK, CallRecord
    <3>4. OthersKept(c) /\ IdsFresh'
      BY <2>1, <3>1, <3>3 DEF OthersKept, server, SecretsKept, IInv, IdsFresh
    <3>5. EffectKnown(c)'
      BY <3>1, <3>2, <3>3 DEF EffectKnown
    <3>6. RetryMatches(c)'
      BY <3>1, <3>3 DEF RetryMatches
    <3> QED BY <3>4, <3>5, <3>6, Others
  <2> QED BY <1>6, <2>2, <2>3 DEF MainHere
<1>7. ASSUME NEW c \in Call, NetworkError(c)
      PROVE  EffectsKnown' /\ IdsFresh' /\ RetriesMatch'
  BY <1>4, <1>7 DEF NetworkError
<1>8. ASSUME NEW c \in Call, NEW t \in Tab, NEW k \in Kind, Begin(c, t, k)
      PROVE  EffectsKnown' /\ IdsFresh' /\ RetriesMatch'
  <2> DEFINE token == IF k \in {"mutate", "logout"} THEN csrfToken[t] ELSE None
             new == [NoCall EXCEPT !.kind = k, !.tab = t, !.token = token]
             stage == IF k = "read" \/ token # None THEN "main" ELSE "token"
  <2>1. new \in CallRecord /\ new.retried = FALSE
    <3>1. token \in Sid \cup {None}
      BY <1>0 DEF TypeOK
    <3> QED BY <3>1, NoCallType DEF CallRecord, NoCall
  <2>2. /\ call' = [call EXCEPT ![c] = Sent(new, stage)]
        /\ performed' = [performed EXCEPT ![c] = 0] /\ disturbed' = disturbed \ {c}
        /\ UNCHANGED <<server, cookie>>
    BY <1>8 DEF Begin
  <2>3. stage \in {"token", "main"}
    OBVIOUS
  <2> HIDE DEF new, stage
  <2>4. Sent(new, stage).at = "out" /\ Sent(new, stage).retried = FALSE
    BY <1>0, <2>1, <2>3, SentType
  <2>5. OthersKept(c) /\ IdsFresh'
    BY <1>0, <2>2 DEF OthersKept, server, SecretsKept, IInv, IdsFresh, TypeOK
  <2>6. EffectKnown(c)' /\ RetryMatches(c)'
    BY <1>0, <2>2, <2>4 DEF EffectKnown, RetryMatches, TypeOK
  <2> QED BY <2>5, <2>6, Others
<1>9. ASSUME NEW s \in Sid, SessionEnds(s)
      PROVE  EffectsKnown' /\ IdsFresh' /\ RetriesMatch'
  <2>1. /\ UNCHANGED <<issued, cookie, call, performed>>
        /\ session' = [session EXCEPT ![s] = {}] /\ disturbed' = disturbed \cup Retrying
    BY <1>9 DEF SessionEnds, EndSession
  <2>2. EffectsKnown'
    BY <2>1 DEF IInv, EffectsKnown, EffectKnown
  <2>3. RetriesMatch'
    BY <1>a, <2>1 DEF RetriesMatch, RetryMatches, Retrying, Ended
  <2>4. IdsFresh'
    BY <1>0, <2>1 DEF IInv, IdsFresh, TypeOK
  <2> QED BY <2>2, <2>3, <2>4
<1>10. ASSUME NEW t \in Tab, Load(t)
       PROVE  EffectsKnown' /\ IdsFresh' /\ RetriesMatch'
  <2>1. /\ UNCHANGED <<session, issued, cookie>>
        /\ performed' = [c \in Call |-> IF call'[c] = NoCall THEN 0 ELSE performed[c]]
        /\ disturbed' = {c \in disturbed : call'[c] # NoCall}
    BY <1>10 DEF Load, server
  <2>2. ASSUME NEW c \in Call PROVE EffectKnown(c)' /\ RetryMatches(c)'
    <3>1. CASE call'[c] = NoCall
      BY <2>1, <3>1 DEF EffectKnown, RetryMatches, NoCall
    <3>2. CASE call'[c] # NoCall
      <4>1. /\ call'[c].kind = call[c].kind /\ call'[c].stage = call[c].stage
            /\ call'[c].retried = call[c].retried /\ call'[c].reply = call[c].reply
            /\ call'[c].token = call[c].token /\ call'[c].at = call[c].at
            /\ call'[c].sid = call[c].sid /\ call'[c].sets = call[c].sets
        BY <1>10, <1>a, <3>2 DEF Load, CallRecord
      <4>2. performed'[c] = performed[c] /\ (c \in disturbed' <=> c \in disturbed)
        BY <2>1, <3>2
      <4> QED BY <1>a, <2>1, <4>1, <4>2 DEF EffectKnown, RetryMatches, TokenGood, Mutation
    <3> QED BY <3>1, <3>2
  <2>3. IdsFresh'
    BY <2>1 DEF IInv, IdsFresh
  <2> QED BY <2>2, <2>3 DEF EffectsKnown, RetriesMatch
<1>11. CASE UNCHANGED vars
  BY <1>11 DEF vars, IInv, EffectsKnown, EffectKnown, IdsFresh, RetriesMatch, RetryMatches, TokenGood
<1> QED BY <1>1, <1>2, <1>3, <1>5, <1>6, <1>7, <1>8, <1>9, <1>10, <1>11
        DEF Next, Serve, Resume

LEMMA Invariance == Spec => []IInv
  BY InitIInv, InvStep, PTL DEF Spec

-----------------------------------------------------------------------------
(* OutcomeTellsEffect: what a call reports is what was done, once at most,  *)
(* with retries, lost replies and reloads in between.                      *)
THEOREM ReportsTellEffects == Spec => []OutcomeTellsEffect
<1>1. IInv => OutcomeTellsEffect
  BY DEF IInv, EffectsKnown, EffectKnown, OutcomeTellsEffect, Reports
<1> QED BY <1>1, Invariance, PTL

(* StaleTokenRecovered: a retry is refused for its token only if it was     *)
(* disturbed meanwhile.                                                    *)
THEOREM RetryRecovers == Spec => []StaleTokenRecovered
<1>1. IInv => StaleTokenRecovered
  BY DEF IInv, EffectsKnown, EffectKnown, RetriesMatch, RetryMatches, StaleTokenRecovered,
         Reports, Refused, Forbidden403, UsesApi, Mutation
<1> QED BY <1>1, Invariance, PTL

-----------------------------------------------------------------------------
(* What a step does to the calls, for CallsAdvance: it changes one of them, *)
(* or takes the page away from some.                                       *)
Advances(c) ==
    ~Ended(c) /\ call'[c] # call[c] =>
        \/ Remaining(call'[c]) < Remaining(call[c])
        \/ call'[c] = [call[c] EXCEPT !.tab = None]

LEMMA RemainingType ==
  ASSUME NEW r \in CallRecord
  PROVE  /\ Remaining(r) \in Nat
         /\ r.at # "end" => Remaining(r) > 0
         /\ r.at = "end" => Remaining(r) = 0
  BY DEF Remaining, CallRecord

LEMMA SettledAdvances ==
  ASSUME TypeOK, NEW c \in Call, call' = [call EXCEPT ![c] = NoCall]
  PROVE  \A d \in Call : Advances(d)
<1>1. call[c] \in CallRecord /\ call'[c] = NoCall /\ \A d \in Call \ {c} : call'[d] = call[d]
  BY DEF TypeOK
<1>2. NoCall.at = "end"
  BY DEF NoCall
<1> QED BY <1>1, <1>2, NoCallType, RemainingType DEF Advances, Ended

(* The next request of a call, or its next place on the way.               *)
LEMMA MovedAdvances ==
  ASSUME TypeOK, NEW c \in Call, NEW new \in CallRecord, call' = [call EXCEPT ![c] = new],
         \/ /\ new.stage = call[c].stage /\ new.retried = call[c].retried
            /\ \/ call[c].at = "out" /\ new.at = "back"
               \/ call[c].at = "back" /\ new.at = "here"
         \/ /\ call[c].at = "here" /\ new.at = "out" /\ new.retried = call[c].retried
            /\ call[c].stage = "token" /\ new.stage = "main"
         \/ /\ call[c].at = "here" /\ new.at = "out"
            /\ ~call[c].retried /\ new.retried
  PROVE  \A d \in Call : Advances(d)
<1>1. call[c] \in CallRecord /\ call'[c] = new /\ \A d \in Call \ {c} : call'[d] = call[d]
  BY DEF TypeOK
<1>2. Remaining(new) < Remaining(call[c])
  BY <1>1 DEF Remaining, CallRecord
<1> QED BY <1>1, <1>2 DEF Advances

LEMMA AnsweredAdvances ==
  ASSUME TypeOK, NEW c \in Call, call[c].at = "out", NEW reply \in Reply,
         NEW sets \in SUBSET (Sid \cup {None}), NEW token \in Sid \cup {None},
         Answer(c, reply, sets, token)
  PROVE  \A d \in Call : Advances(d)
<1>1. CASE call[c].tab = None
  <2>1. call' = [call EXCEPT ![c] = NoCall]
    BY <1>1 DEF Answer, TypeOK
  <2> QED BY <2>1, SettledAdvances
<1>2. CASE call[c].tab # None
  <2> DEFINE new == [call[c] EXCEPT !.at = "back", !.reply = reply, !.sid = None,
                                    !.sets = sets, !.token = token]
  <2>1. call[c] \in CallRecord
    BY DEF TypeOK
  <2>2. /\ new \in CallRecord /\ new.at = "back"
        /\ new.stage = call[c].stage /\ new.retried = call[c].retried
    BY <2>1 DEF CallRecord
  <2>3. call' = [call EXCEPT ![c] = new]
    BY <1>2 DEF Answer, TypeOK
  <2> HIDE DEF new
  <2> QED BY <2>2, <2>3, MovedAdvances
<1> QED BY <1>1, <1>2

LEMMA AdvanceStep == TypeOK /\ [Next]_vars => \A c \in Call : Advances(c)
<1> SUFFICES ASSUME TypeOK, [Next]_vars PROVE \A c \in Call : Advances(c)
  OBVIOUS
<1> USE ClientAssumption
<1>1. ASSUME NEW c \in Call, CsrfToken(c) PROVE \A d \in Call : Advances(d)
  <2>1. call[c].at = "out"
    BY <1>1 DEF CsrfToken
  <2>2. CASE Answer(c, "ok", {call[c].sid}, call[c].sid) /\ Live(call[c].sid)
    BY <2>1, <2>2, AnsweredAdvances DEF Live, Reply
  <2>3. CASE Answer(c, "ok", {issued + 1}, issued + 1) /\ issued < MaxSid
    <3>1. issued + 1 \in Sid
      BY <2>3 DEF TypeOK, Sid
    <3> QED BY <2>1, <2>3, <3>1, AnsweredAdvances DEF Reply
  <2>4. CASE Answer(c, "error", Rolling(call[c].sid), None)
    BY <2>1, <2>4, RollingType, AnsweredAdvances DEF Reply
  <2> QED BY <1>1, <2>2, <2>3, <2>4 DEF CsrfToken
<1>2. ASSUME NEW c \in Call, Handle(c) PROVE \A d \in Call : Advances(d)
  <2>1. call[c].at = "out"
    BY <1>2 DEF Handle
  <2>2. \E reply \in Reply, sets \in SUBSET (Sid \cup {None}) : Answer(c, reply, sets, None)
    <3>1. CASE Rejected(c)
      BY <3>1, RollingType DEF Rejected, Reply
    <3>2. CASE Guarded(c)
      BY <3>2, RollingType DEF Guarded, Reply
    <3>3. CASE Logout(c)
      BY <3>3 DEF Logout, Reply
    <3>4. CASE Login(c)
      <4>1. CASE issued < MaxSid /\ Answer(c, "ok", {issued + 1}, None)
        <5>1. issued + 1 \in Sid
          BY <4>1 DEF TypeOK, Sid
        <5> QED BY <4>1, <5>1 DEF Reply
      <4>2. CASE \E reply \in {"unauthorized", "challenge", "error"} :
                    Answer(c, reply, Rolling(call[c].sid), None)
        BY <4>2, RollingType DEF Reply
      <4> QED BY <3>4, <4>1, <4>2 DEF Login
    <3> QED BY <1>2, <3>1, <3>2, <3>3, <3>4 DEF Handle
  <2> QED BY <2>1, <2>2, AnsweredAdvances
<1>3. ASSUME NEW c \in Call, Arrive(c) PROVE \A d \in Call : Advances(d)
  <2> DEFINE new == [call[c] EXCEPT !.at = "here", !.sets = {}]
  <2>1. call[c] \in CallRecord /\ call[c].at = "back"
    BY <1>3 DEF Arrive, TypeOK
  <2>2. /\ new \in CallRecord /\ new.at = "here"
        /\ new.stage = call[c].stage /\ new.retried = call[c].retried
    BY <2>1 DEF CallRecord
  <2>3. call' = [call EXCEPT ![c] = new]
    BY <1>3 DEF Arrive, TypeOK
  <2> HIDE DEF new
  <2> QED BY <2>1, <2>2, <2>3, MovedAdvances
<1>4. ASSUME NEW c \in Call, NEW outcome, Settle(c, outcome) PROVE \A d \in Call : Advances(d)
  BY <1>4, SettledAdvances DEF Settle
<1>5. ASSUME NEW c \in Call, TokenHere(c) PROVE \A d \in Call : Advances(d)
  <2>1. CASE Settle(c, call[c].reply)
    BY <1>4, <2>1
  <2>2. CASE call' = [call EXCEPT ![c] = Sent(@, "main")]
    <3> DEFINE new == Sent(call[c], "main")
    <3>1. call[c] \in CallRecord /\ call[c].at = "here" /\ call[c].stage = "token"
      BY <1>5 DEF TokenHere, TypeOK
    <3>2. new \in CallRecord /\ new.at = "out" /\ new.stage = "main"
          /\ new.retried = call[c].retried
      BY <3>1, SentType
    <3>3. call' = [call EXCEPT ![c] = new]
      BY <2>2 DEF TypeOK
    <3> HIDE DEF new
    <3> QED BY <3>1, <3>2, <3>3, MovedAdvances
  <2> QED BY <1>5, <2>1, <2>2 DEF TokenHere
<1>6. ASSUME NEW c \in Call, MainHere(c) PROVE \A d \in Call : Advances(d)
  <2>1. CASE Settle(c, call[c].reply)
    BY <1>4, <2>1
  <2>2. CASE Refused(c) /\ Retry(c)
    <3> DEFINE sent == Sent(call[c], "token")
               new == [sent EXCEPT !.retried = TRUE, !.token = None]
    <3>1. call[c] \in CallRecord /\ call[c].at = "here" /\ ~call[c].retried
      BY <1>6, <2>2 DEF MainHere, Refused, TypeOK
    <3>2. sent \in CallRecord /\ sent.at = "out"
      BY <3>1, SentType
    <3>3. call' = [call EXCEPT ![c] = new]
      BY <2>2 DEF Retry, TypeOK
    <3> HIDE DEF sent
    <3>4. new \in CallRecord /\ new.at = "out" /\ new.retried
      BY <3>2 DEF CallRecord
    <3> HIDE DEF new
    <3> QED BY <3>1, <3>3, <3>4, MovedAdvances
  <2> QED BY <1>6, <2>1, <2>2 DEF MainHere
<1>7. ASSUME NEW c \in Call, NEW t \in Tab, NEW k \in Kind, Begin(c, t, k)
      PROVE  \A d \in Call : Advances(d)
  BY <1>7 DEF Begin, Advances, TypeOK
<1>8. ASSUME NEW t \in Tab, Load(t) PROVE \A d \in Call : Advances(d)
  <2> SUFFICES ASSUME NEW d \in Call, ~Ended(d), call'[d] # call[d]
               PROVE  \/ Remaining(call'[d]) < Remaining(call[d])
                      \/ call'[d] = [call[d] EXCEPT !.tab = None]
    BY DEF Advances
  <2>1. call'[d] = NoCall \/ call'[d] = [call[d] EXCEPT !.tab = None]
    BY <1>8 DEF Load
  <2>2. NoCall.at = "end" /\ call[d] \in CallRecord
    BY DEF NoCall, TypeOK
  <2> QED BY <2>1, <2>2, NoCallType, RemainingType DEF Ended
<1>9. ASSUME NEW c \in Call, NetworkError(c) PROVE \A d \in Call : Advances(d)
  BY <1>4, <1>9 DEF NetworkError
<1>10. ASSUME NEW s \in Sid, SessionEnds(s) PROVE \A d \in Call : Advances(d)
  BY <1>10 DEF SessionEnds, Advances
<1>11. CASE UNCHANGED vars
  BY <1>11 DEF vars, Advances
<1> QED BY <1>1, <1>2, <1>3, <1>5, <1>6, <1>7, <1>8, <1>9, <1>10, <1>11 DEF Next, Serve, Resume

(* CallsAdvance: no call makes more than four requests, whatever it is      *)
(* answered and however the tabs interfere.  It is what CallsEnd needs      *)
(* besides fairness: each step a call can take is one of finitely many.    *)
THEOREM CallsGoForward == Spec => CallsAdvance
<1>1. TypeOK /\ [Next]_vars =>
        [\A c \in Call :
            ~Ended(c) /\ call'[c] # call[c] =>
               \/ Remaining(call'[c]) < Remaining(call[c])
               \/ call'[c] = [call[c] EXCEPT !.tab = None]]_vars
  BY AdvanceStep DEF Advances
<1>2. Spec => []TypeOK
  BY TypeCorrect
<1> QED BY <1>1, <1>2, PTL DEF Spec, CallsAdvance

-----------------------------------------------------------------------------
(* The page those calls are made for (Views).                              *)

(* A bag of requests; what is said of the polls in it.                     *)
Requests(b) == IsABag(b) /\ BagToSet(b) \subseteq Request

PollsOnce(b) ==
    \A r, s \in BagToSet(b) :
        r.poll /\ s.poll => b[r] = 1 /\ (r.kind = s.kind => r = s)

Plain(rs) == \A r \in rs : ~r.poll

WaitsForPolls(b, waits) == \A r \in BagToSet(b) : r.poll => waits

(* What adding a set of requests to a bag, and taking one out, leaves.      *)
LEMMA Adding ==
  ASSUME NEW b, Requests(b), NEW rs \in SUBSET Request
  PROVE  /\ Requests(With(b, rs))
         /\ BagToSet(With(b, rs)) = BagToSet(b) \cup rs
         /\ \A r \in BagToSet(b) \ rs : With(b, rs)[r] = b[r]
         /\ \A r \in rs \ BagToSet(b) : With(b, rs)[r] = 1
<1> DEFINE c == With(b, rs)
<1>1. /\ c = [e \in BagToSet(b) \cup rs |->
                 (IF e \in BagToSet(b) THEN b[e] ELSE 0) + (IF e \in rs THEN 1 ELSE 0)]
      /\ b \in [BagToSet(b) -> {n \in Nat : n > 0}]
            /\ BagToSet(b) \subseteq Request
  BY DEF With, (+), SetToBag, BagToSet, Requests, IsABag
<1>2. BagToSet(c) = BagToSet(b) \cup rs
  BY <1>1 DEF BagToSet
<1>3. /\ \A r \in BagToSet(b) \cup rs : c[r] \in Nat /\ c[r] > 0
      /\ \A r \in BagToSet(b) \ rs : c[r] = b[r]
      /\ \A r \in rs \ BagToSet(b) : c[r] = 1
  <2>1. \A r \in BagToSet(b) \cup rs :
           c[r] = (IF r \in BagToSet(b) THEN b[r] ELSE 0) + (IF r \in rs THEN 1 ELSE 0)
    BY <1>1
  <2>2. \A r \in BagToSet(b) : b[r] \in Nat /\ b[r] > 0
    BY <1>1
  <2> HIDE DEF c
  <2> QED BY <2>1, <2>2
<1>4. c \in [BagToSet(c) -> {n \in Nat : n > 0}]
  <2>1. c = [e \in BagToSet(c) |-> c[e]]
    BY <1>1, <1>2
  <2> HIDE DEF c
  <2> QED BY <2>1, <1>2, <1>3
<1>5. Requests(c)
  BY <1>1, <1>2, <1>4 DEF Requests, IsABag, BagToSet
<1> QED BY <1>2, <1>3, <1>5

LEMMA AddingPlain ==
  ASSUME NEW b, Requests(b), NEW rs \in SUBSET Request, Plain(rs), NEW waits
  PROVE  /\ PollsOnce(b) => PollsOnce(With(b, rs))
         /\ WaitsForPolls(b, waits) => WaitsForPolls(With(b, rs), waits)
  BY Adding DEF PollsOnce, WaitsForPolls, Plain

LEMMA Removing ==
  ASSUME NEW b, Requests(b), NEW r \in BagToSet(b)
  PROVE  /\ Requests(Without(b, r))
         /\ BagToSet(Without(b, r)) \subseteq BagToSet(b)
         /\ PollsOnce(b) => PollsOnce(Without(b, r))
<1> DEFINE c == Without(b, r)
           d == [e \in BagToSet(b) |-> IF e = r THEN b[e] - 1 ELSE b[e]]
<1>1. /\ c = [e \in {x \in BagToSet(b) : d[x] > 0} |-> d[e]]
      /\ b \in [BagToSet(b) -> {n \in Nat : n > 0}]
            /\ BagToSet(b) \subseteq Request
  <2>1. \A e \in DOMAIN b : (IF e \in {r} THEN b[e] - [x \in {r} |-> 1][e] ELSE b[e])
                              = IF e = r THEN b[e] - 1 ELSE b[e]
    OBVIOUS
  <2>2. d = [e \in DOMAIN b |-> IF e \in DOMAIN SetToBag({r}) THEN b[e] - SetToBag({r})[e]
                                                               ELSE b[e]]
    BY <2>1 DEF SetToBag, BagToSet
  <2>3. c = [e \in {x \in DOMAIN d : d[x] > 0} |-> d[e]]
    BY <2>2 DEF Without, (-)
  <2>4. DOMAIN d = BagToSet(b)
    OBVIOUS
  <2> HIDE DEF c, d
  <2> QED BY <2>3, <2>4 DEF Requests, IsABag, BagToSet
<1>2. \A e \in BagToSet(b) : d[e] \in Int /\ (e # r => d[e] = b[e])
      /\ (e = r => d[e] = b[e] - 1)
  BY <1>1
<1> HIDE DEF d
<1>3. BagToSet(c) = {x \in BagToSet(b) : d[x] > 0}
  BY <1>1 DEF BagToSet
<1>4. \A e \in BagToSet(c) : c[e] = d[e] /\ c[e] \in Nat /\ c[e] > 0
  <2> HIDE DEF c
  <2> QED BY <1>1, <1>2, <1>3
<1>5. c \in [BagToSet(c) -> {n \in Nat : n > 0}]
  <2>1. c = [e \in BagToSet(c) |-> c[e]]
    BY <1>1, <1>3
  <2> HIDE DEF c
  <2> QED BY <2>1, <1>4
<1>6. Requests(c)
  BY <1>1, <1>3, <1>5 DEF Requests, IsABag, BagToSet
<1>7. PollsOnce(b) => PollsOnce(c)
  <2> HIDE DEF c
  <2> SUFFICES ASSUME PollsOnce(b), NEW p \in BagToSet(c), NEW q \in BagToSet(c),
                  p.poll, q.poll
               PROVE  c[p] = 1 /\ (p.kind = q.kind => p = q)
    BY DEF PollsOnce
  <2>1. p \in BagToSet(b) /\ q \in BagToSet(b)
    BY <1>3
  <2>2. b[p] = 1 /\ (p.kind = q.kind => p = q)
    BY <2>1 DEF PollsOnce
  <2>3. c[p] = d[p] /\ c[p] > 0
    BY <1>4
  <2> QED BY <1>2, <2>1, <2>2, <2>3
<1> QED BY <1>3, <1>6, <1>7

LEMMA Plainly ==
  ASSUME NEW r \in Request
  PROVE  [r EXCEPT !.poll = FALSE] \in Request /\ ~[r EXCEPT !.poll = FALSE].poll
  BY DEF Request

(* Once an interval is gone no request is one that an interval waits for.   *)
LEMMA Orphaning ==
  ASSUME NEW b, Requests(b)
  PROVE  Requests(Orphaned(b)) /\ Plain(BagToSet(Orphaned(b)))
<1> DEFINE plain(r) == [r EXCEPT !.poll = FALSE]
           polled(r) == [r EXCEPT !.poll = TRUE]
           S == {plain(s) : s \in BagToSet(b)}
           n(r) == Copies(r, b) + Copies(polled(r), b)
<1>1. Orphaned(b) = [r \in S |-> n(r)]
  BY DEF Orphaned
<1>2. b \in [BagToSet(b) -> {k \in Nat : k > 0}] /\ BagToSet(b) \subseteq Request
  BY DEF Requests, IsABag, BagToSet
<1>3. ASSUME NEW s \in BagToSet(b)
      PROVE  plain(s) \in Request /\ ~plain(s).poll /\ n(plain(s)) \in Nat
            /\ n(plain(s)) > 0
  <2>1. plain(s) \in Request /\ ~plain(s).poll
    BY <1>2, Plainly
  <2>2. \A x : /\ Copies(x, b) \in Nat
               /\ x \in BagToSet(b) => Copies(x, b) > 0
    BY <1>2 DEF Copies, BagIn
  <2>3. plain(s) = s \/ polled(plain(s)) = s
    BY <1>2 DEF Request
  <2>4. n(plain(s)) = Copies(plain(s), b) + Copies(polled(plain(s)), b)
    OBVIOUS
  <2> HIDE DEF plain, polled, n
  <2>5. n(plain(s)) \in Nat /\ n(plain(s)) > 0
    <3>1. CASE plain(s) = s
      BY <2>2, <2>4, <3>1
    <3>2. CASE polled(plain(s)) = s
      BY <2>2, <2>4, <3>2
    <3> QED BY <2>3, <3>1, <3>2
  <2> QED BY <2>1, <2>5
<1> HIDE DEF plain, polled, n
<1>4. \A r \in S : r \in Request /\ ~r.poll /\ n(r) \in Nat /\ n(r) > 0
  BY <1>3
<1>5. BagToSet(Orphaned(b)) = S
  BY <1>1 DEF BagToSet
<1>6. Orphaned(b) \in [S -> {k \in Nat : k > 0}]
  BY <1>1, <1>4
<1> QED BY <1>4, <1>5, <1>6 DEF Requests, IsABag, BagToSet, Plain

(* What each view and each tick asks for are requests, no two of a tick the *)
(* same kind.                                                              *)
LEMMA OneRequest ==
  ASSUME NEW kind, NEW of, NEW poll,
         \/ kind \in {"summary", "firstSummary", "processes", "names", "settings"}
              /\ of = Nothing /\ poll \in BOOLEAN
         \/ kind = "history" /\ of \in Range /\ poll \in BOOLEAN
         \/ kind = "metrics" /\ of \in Choice /\ poll \in BOOLEAN
         \/ kind = "logs" /\ of \in Proc \cup {Nothing} /\ poll = FALSE
  PROVE  [kind |-> kind, of |-> of, poll |-> poll] \in Request
  BY DEF Request

LEMMA LoadsAreRequests ==
  ASSUME NEW v \in View
  PROVE  Loads(v) \in SUBSET Request /\ Plain(Loads(v))
<1>1. PICK kind \in {"firstSummary", "processes", "names", "logs", "settings"} :
         Loads(v) = {[kind |-> kind, of |-> Nothing, poll |-> FALSE]}
  BY DEF Loads, View, Req
<1>2. [kind |-> kind, of |-> Nothing, poll |-> FALSE] \in Request
  BY OneRequest
<1> QED BY <1>1, <1>2 DEF Plain

LEMMA FetchesAreRequests ==
  ASSUME NEW p \in Proc \cup {Nothing}, NEW r \in Range \cup Custom
  PROVE  Fetches(p, r) \in SUBSET Request /\ Plain(Fetches(p, r))
  BY DEF Fetches, Request, Choice, Req, Plain

LEMMA JobsAreRequests ==
  ASSUME ViewsTypeOK, NEW v \in Polled, NEW t
  PROVE  /\ Polls(Jobs(v, t)) \in SUBSET Request
         /\ Jobs(v, t) = {} => Polls(Jobs(v, t)) = {}
         /\ \A r \in Polls(Jobs(v, t)) : r.poll
         /\ \A r, s \in Polls(Jobs(v, t)) : r.kind = s.kind => r = s
<1> DEFINE Poll(kind, of) == [kind |-> kind, of |-> of, poll |-> TRUE]
<1>1. ASSUME NEW k, NEW o PROVE [Req(k, o) EXCEPT !.poll = TRUE] = Poll(k, o)
  <2> DEFINE q == Req(k, o)
             e == [q EXCEPT !.poll = TRUE]
  <2>1. q \in [kind: {k}, of: {o}, poll: {FALSE}]
    BY DEF Req
  <2> HIDE DEF q
  <2>2. e \in [kind: {k}, of: {o}, poll: {TRUE}]
    BY <2>1
  <2> HIDE DEF e
  <2>3. e = Poll(k, o)
    BY <2>2
  <2> QED BY <2>3 DEF e, q
<1>2. /\ Polls({}) = {}
      /\ \A k, o : Polls({Req(k, o)}) = {Poll(k, o)}
      /\ \A k, l, o, p : Polls({Req(k, o), Req(l, p)}) = {Poll(k, o), Poll(l, p)}
  <2>1. \A rs : Polls(rs) = {[r EXCEPT !.poll = TRUE] : r \in rs}
    BY DEF Polls
  <2> HIDE DEF Poll
  <2> QED BY <1>1, <2>1
<1>3. \A k, o : Poll(k, o).poll /\ Poll(k, o).kind = k
  OBVIOUS
<1>4. CASE v = "dashboard"
  <2>1. Jobs(v, t) \in {{Req("summary", Nothing)}, {Req("summary", Nothing),
                             Req("history", dashRange)}}
    BY <1>4 DEF Jobs
  <2>2. Poll("summary", Nothing) \in Request /\ Poll("history", dashRange) \in Request
    BY OneRequest DEF ViewsTypeOK
  <2> HIDE DEF Poll
  <2>3. Polls(Jobs(v, t)) \in {{Poll("summary", Nothing)}, {Poll("summary", Nothing),
                                         Poll("history", dashRange)}}
    BY <1>2, <2>1
  <2>4. Jobs(v, t) # {}
    BY <2>1
  <2> QED BY <1>3, <2>2, <2>3, <2>4
<1>5. CASE v = "processes"
  <2>1. Jobs(v, t) = {Req("processes", Nothing)}
    BY <1>5 DEF Jobs
  <2>2. Poll("processes", Nothing) \in Request
    BY OneRequest
  <2> HIDE DEF Poll
  <2> QED BY <1>2, <1>3, <2>1, <2>2
<1>6. CASE v = "metrics"
  <2> DEFINE c == [proc |-> process, range |-> range]
  <2>1. Jobs(v, t) = {} \/ (process # Nothing /\ Jobs(v, t) = {Req("metrics", c)})
    BY <1>6 DEF Jobs, Fetches
  <2>2. process # Nothing => Poll("metrics", c) \in Request
    <3>1. process # Nothing => c \in Choice
      BY DEF ViewsTypeOK, Choice
    <3> HIDE DEF c
    <3> QED BY <3>1, OneRequest
  <2> HIDE DEF Poll, c
  <2>3. CASE Jobs(v, t) = {}
    BY <1>2, <2>3
  <2>4. CASE process # Nothing /\ Jobs(v, t) = {Req("metrics", c)}
    <3>1. Polls(Jobs(v, t)) = {Poll("metrics", c)}
      BY <1>2, <2>4
    <3> QED BY <1>3, <2>2, <2>4, <3>1
  <2> QED BY <2>1, <2>3, <2>4
<1> QED BY <1>4, <1>5, <1>6 DEF Polled

(* One source is open, the one that is streamed.                           *)
OneStream == sources = IF logStream = Nothing THEN 0 ELSE 1

(* The interval waits for every poll under way.  Without that a tick, which *)
(* asks only whether it waits, could send a poll of a kind that is out.     *)
ViewsInv ==
    /\ ViewsTypeOK
    /\ PollsOnce(flight) /\ WaitsForPolls(flight, busy)
    /\ OneStream

(* The part of the invariant about the requests under way, and each of the  *)
(* ways a step can change them.                                            *)
FlightKept == Requests(flight') /\ PollsOnce(flight') /\ WaitsForPolls(flight', busy')

LEMMA InitViewsInv == ViewsInit => ViewsInv
<1> SUFFICES ASSUME ViewsInit PROVE ViewsInv
  OBVIOUS
<1>1. Req("firstSummary", Nothing) \in Request /\ ~Req("firstSummary", Nothing).poll
  BY DEF Req, Request
<1>2. BagToSet(flight) = {Req("firstSummary", Nothing)} /\ IsABag(flight)
  BY DEF ViewsInit, SetToBag, BagToSet, IsABag
<1>3. PollsOnce(flight) /\ WaitsForPolls(flight, busy)
  BY <1>1, <1>2 DEF PollsOnce, WaitsForPolls
<1>4. ViewsTypeOK
  <2>1. tick \in 0..(HistoryTicks - 1)
    BY ViewsAssumption DEF ViewsInit
  <2>2. view \in View /\ timers = {view} \cap Polled
    BY DEF ViewsInit, View, Polled
  <2>3. BagToSet(flight) \subseteq Request
    BY <1>1, <1>2
  <2> QED BY <1>2, <2>1, <2>2, <2>3 DEF ViewsInit, ViewsTypeOK
<1> QED BY <1>3, <1>4 DEF ViewsInv, OneStream, ViewsInit

LEMMA FlightSame ==
  ASSUME ViewsInv, UNCHANGED <<flight, busy>>
  PROVE  FlightKept
  BY DEF ViewsInv, ViewsTypeOK, Requests, FlightKept

LEMMA FlightSends ==
  ASSUME ViewsInv, NEW rs \in SUBSET Request, Plain(rs), Send(rs), busy' = busy
  PROVE  FlightKept
  BY AddingPlain, Adding DEF ViewsInv, ViewsTypeOK, Requests, Send, FlightKept

LEMMA FlightShown ==
  ASSUME ViewsInv, NEW rs \in SUBSET Request, Plain(rs),
         flight' = With(Orphaned(flight), rs)
  PROVE  FlightKept
<1>1. Requests(Orphaned(flight)) /\ Plain(BagToSet(Orphaned(flight)))
  BY Orphaning DEF ViewsInv, ViewsTypeOK, Requests
<1>2. PollsOnce(Orphaned(flight)) /\ WaitsForPolls(Orphaned(flight), busy')
  BY <1>1 DEF Plain, PollsOnce, WaitsForPolls
<1> QED BY <1>1, <1>2, Adding, AddingPlain DEF FlightKept

LEMMA FlightAnswered ==
  ASSUME ViewsInv, NEW r \in BagToSet(flight), NEW rs \in SUBSET Request, Plain(rs),
         Done(r), flight' = With(Without(flight, r), rs)
  PROVE  FlightKept
<1> DEFINE b == Without(flight, r)
<1>1. Requests(b) /\ BagToSet(b) \subseteq BagToSet(flight) /\ PollsOnce(b)
  BY Removing DEF ViewsInv, ViewsTypeOK, Requests
<1>2. WaitsForPolls(b, busy')
  BY <1>1 DEF ViewsInv, WaitsForPolls, Done
<1> HIDE DEF b
<1>3. flight' = With(b, rs)
  BY DEF b
<1> QED BY <1>1, <1>2, <1>3, Adding, AddingPlain DEF FlightKept

LEMMA FlightPolls ==
  ASSUME ViewsInv, ~busy, NEW v \in Polled, NEW t,
         Send(Polls(Jobs(v, t))), busy' = (Jobs(v, t) # {})
  PROVE  FlightKept
<1> DEFINE rs == Polls(Jobs(v, t))
<1>1. /\ rs \in SUBSET Request /\ (Jobs(v, t) = {} => rs = {})
      /\ \A r \in rs : r.poll
      /\ \A r, s \in rs : r.kind = s.kind => r = s
  BY JobsAreRequests DEF ViewsInv
<1>2. Requests(flight) /\ \A r \in BagToSet(flight) : ~r.poll
  BY DEF ViewsInv, ViewsTypeOK, Requests, WaitsForPolls
<1>3. flight' = With(flight, rs)
  BY DEF Send
<1> HIDE DEF rs
<1>4. /\ Requests(flight') /\ BagToSet(flight') = BagToSet(flight) \cup rs
      /\ \A r \in rs \ BagToSet(flight) : flight'[r] = 1
  BY <1>1, <1>2, <1>3, Adding
<1>5. PollsOnce(flight')
  BY <1>1, <1>2, <1>4 DEF PollsOnce
<1>6. WaitsForPolls(flight', busy')
  BY <1>1, <1>2, <1>4 DEF WaitsForPolls
<1> QED BY <1>4, <1>5, <1>6 DEF FlightKept

LEMMA StreamKept ==
  ASSUME ViewsTypeOK, OneStream,
         StopLogs \/ (\E p \in Proc : StartLogs(p)) \/ UNCHANGED logs
  PROVE  OneStream' /\ logStream' \in Proc \cup {Nothing}
  BY ViewsAssumption DEF ViewsTypeOK, OneStream, StopLogs, StartLogs, logs

(* The types but for the requests and the stream.                          *)
ViewsRest ==
    /\ view \in View /\ timers = {view} \cap Polled
    /\ busy \in BOOLEAN /\ tick \in 0..(HistoryTicks - 1) /\ dialog \in BOOLEAN
    /\ dashRange \in Range /\ dashShown \in Range \cup {Nothing}
    /\ process \in Proc \cup {Nothing} /\ range \in Range \cup Custom
    /\ metricsShown \in Choice \cup {Nothing}

LEMMA ViewsWhole ==
  ASSUME FlightKept, ViewsRest', OneStream',
         logStream' \in Proc \cup {Nothing}
  PROVE  ViewsInv'
  BY DEF FlightKept, ViewsRest, ViewsInv, ViewsTypeOK, Requests

(* One lemma per group of steps.                                           *)
LEMMA Showing ==
  ASSUME ViewsInv, NEW v \in View, NEW also \in SUBSET Request, Plain(also),
         Show(v, also)
  PROVE  ViewsInv'
<1>1. (Loads(v) \cup also) \in SUBSET Request /\ Plain(Loads(v) \cup also)
  BY LoadsAreRequests DEF Plain
<1>2. FlightKept
  BY <1>1, FlightShown DEF Show
<1>3. OneStream' /\ logStream' \in Proc \cup {Nothing}
  BY StreamKept DEF Show, ViewsInv
<1>4. ViewsRest'
  <2>1. tick' \in 0..(HistoryTicks - 1)
    BY ViewsAssumption DEF Show
  <2>2. view' \in View /\ timers' = {view'} \cap Polled
    BY DEF Show
  <2> QED BY <2>1, <2>2 DEF ViewsInv, ViewsTypeOK, ViewsRest, Show, dash, metrics
<1> QED BY <1>2, <1>3, <1>4, ViewsWhole

LEMMA ViewsUser ==
  ASSUME ViewsInv, User
  PROVE  ViewsInv'
<1>1. ASSUME NEW v \in View, ShowView(v) PROVE ViewsInv'
  BY <1>1, Showing DEF ShowView, Plain
<1>2. ASSUME NEW p \in Proc, OpenLogsFor(p) PROVE ViewsInv'
  <2>1. {Req("logs", p)} \in SUBSET Request /\ Plain({Req("logs", p)})
    BY DEF Req, Request, Plain
  <2>2. Show("logs", {Req("logs", p)}) /\ "logs" \in View
    BY <1>2 DEF OpenLogsFor, View
  <2> QED BY <2>1, <2>2, Showing
<1>3. ASSUME NEW p \in Proc, PressStart(p) \/ PressStop PROVE ViewsInv'
  <2>1. FlightKept
    BY <1>3, FlightSame DEF PressStart, PressStop, poller
  <2>2. OneStream' /\ logStream' \in Proc \cup {Nothing}
    BY <1>3, StreamKept DEF PressStart, PressStop, ViewsInv
  <2>3. ViewsRest'
    BY <1>3 DEF ViewsInv, ViewsTypeOK, ViewsRest, PressStart, PressStop, poller,
           dash, metrics
  <2> QED BY <2>1, <2>2, <2>3, ViewsWhole
<1>4. CASE PressStop
  <2>1. FlightKept
    BY <1>4, FlightSame DEF PressStop, poller
  <2>2. OneStream' /\ logStream' \in Proc \cup {Nothing}
    BY <1>4, StreamKept DEF PressStop, ViewsInv
  <2>3. ViewsRest'
    BY <1>4 DEF ViewsInv, ViewsTypeOK, ViewsRest, PressStop, poller, dash,
           metrics
  <2> QED BY <2>1, <2>2, <2>3, ViewsWhole
<1>5. ASSUME NEW r \in Range, ChooseDashRange(r) PROVE ViewsInv'
  <2>1. {Req("history", r)} \in SUBSET Request /\ Plain({Req("history", r)})
    BY DEF Req, Request, Plain
  <2>2. FlightKept
    BY <1>5, <2>1, FlightSends DEF ChooseDashRange, poller
  <2>3. OneStream' /\ logStream' \in Proc \cup {Nothing}
    BY <1>5, StreamKept DEF ChooseDashRange, ViewsInv
  <2>4. ViewsRest'
    BY <1>5 DEF ViewsInv, ViewsTypeOK, ViewsRest, ChooseDashRange, poller, metrics
  <2> QED BY <2>2, <2>3, <2>4, ViewsWhole
<1>6. CASE RefreshDashboard
  <2>1. {Req("firstSummary", Nothing)} \in SUBSET Request
        /\ Plain({Req("firstSummary", Nothing)})
    BY DEF Req, Request, Plain
  <2>2. FlightKept
    BY <1>6, <2>1, FlightSends DEF RefreshDashboard, poller
  <2>3. OneStream' /\ logStream' \in Proc \cup {Nothing}
    BY <1>6, StreamKept DEF RefreshDashboard, ViewsInv
  <2>4. ViewsRest'
    BY <1>6 DEF ViewsInv, ViewsTypeOK, ViewsRest, RefreshDashboard, poller,
           dash, metrics
  <2> QED BY <2>2, <2>3, <2>4, ViewsWhole
<1>7. ASSUME NEW p \in Proc, NEW r \in Range \cup Custom, ChooseMetrics(p,
         r) PROVE ViewsInv'
  <2>1. /\ process' \in Proc \cup {Nothing} /\ range' = r
        /\ Send(Fetches(process', r)) /\ metricsShown' = ShownWithout(process')
        /\ UNCHANGED <<view, poller, dialog, dash, logs>>
    BY <1>7 DEF ChooseMetrics
  <2>2. FlightKept
    BY <2>1, FetchesAreRequests, FlightSends DEF poller
  <2>3. OneStream' /\ logStream' \in Proc \cup {Nothing}
    BY <2>1, StreamKept DEF ViewsInv
  <2>4. ViewsRest'
    BY <2>1 DEF ViewsInv, ViewsTypeOK, ViewsRest, poller, dash, ShownWithout
  <2> QED BY <2>2, <2>3, <2>4, ViewsWhole
<1>8. CASE ToggleDialog
  <2>1. FlightKept
    BY <1>8, FlightSame DEF ToggleDialog, poller
  <2>2. OneStream' /\ logStream' \in Proc \cup {Nothing}
    BY <1>8, StreamKept DEF ToggleDialog, ViewsInv
  <2>3. ViewsRest'
    BY <1>8 DEF ViewsInv, ViewsTypeOK, ViewsRest, ToggleDialog, poller, dash,
           metrics
  <2> QED BY <2>1, <2>2, <2>3, ViewsWhole
<1> QED BY <1>1, <1>2, <1>3, <1>4, <1>5, <1>6, <1>7, <1>8 DEF User

LEMMA ViewsTick ==
  ASSUME ViewsInv, Tick
  PROVE  ViewsInv'
<1>1. PICK v \in timers :
        /\ tick' = (tick + 1) % HistoryTicks
        /\ busy' = (Jobs(v, tick + 1) # {})
        /\ Send(Polls(Jobs(v, tick + 1)))
        /\ metricsShown' = IF v = "metrics"
              /\ range \notin Custom THEN ShownWithout(process)
                                                                   ELSE metricsShown
  BY DEF Tick
<1>2. ~busy /\ UNCHANGED <<view, timers, dialog, dash, process, range, logs>>
  BY DEF Tick
<1>3. FlightKept
  <2>1. v \in Polled
    BY DEF ViewsInv, ViewsTypeOK
  <2> QED BY <1>1, <1>2, <2>1, FlightPolls
<1>4. OneStream' /\ logStream' \in Proc \cup {Nothing}
  BY <1>2, StreamKept DEF ViewsInv
<1>5. ViewsRest'
  <2>1. tick' \in 0..(HistoryTicks - 1)
    BY <1>1, ViewsAssumption DEF ViewsInv, ViewsTypeOK
  <2>2. busy' \in BOOLEAN
    BY <1>1
  <2> QED BY <1>1, <1>2, <2>1, <2>2 DEF ViewsInv, ViewsTypeOK, ViewsRest, dash,
         ShownWithout
<1> QED BY <1>3, <1>4, <1>5, ViewsWhole

LEMMA ViewsFails ==
  ASSUME ViewsInv, NEW r \in BagToSet(flight), Fails(r)
  PROVE  ViewsInv'
<1>1. FlightKept
  <2>1. Requests(Without(flight, r)) /\ PollsOnce(Without(flight, r))
        /\ BagToSet(Without(flight, r)) \subseteq BagToSet(flight)
    BY Removing DEF ViewsInv, ViewsTypeOK, Requests
  <2> QED BY <2>1 DEF Fails, Done, FlightKept, ViewsInv, WaitsForPolls
<1>2. OneStream' /\ logStream' \in Proc \cup {Nothing}
  BY StreamKept DEF Fails, ViewsInv
<1>3. ViewsRest'
  BY DEF ViewsInv, ViewsTypeOK, ViewsRest, Fails, Done
<1> QED BY <1>1, <1>2, <1>3, ViewsWhole

LEMMA ViewsAnswered ==
  ASSUME ViewsInv, NEW r \in BagToSet(flight), Answered(r)
  PROVE  ViewsInv'
<1> DEFINE follow(rs) == flight' = With(Without(flight, r), rs)
<1>0. Done(r) /\ UNCHANGED <<view, timers, tick, dialog>> /\ r \in Request
  BY DEF Answered, ViewsInv, ViewsTypeOK
<1>1. ASSUME NEW rs \in SUBSET Request, Plain(rs), follow(rs),
             dashRange' = dashRange, dashShown' \in Range \cup {Nothing},
             process' \in Proc \cup {Nothing}, range' = range,
             metricsShown' \in Choice \cup {Nothing},
             (\E p \in Proc : StartLogs(p)) \/ UNCHANGED logs
      PROVE  ViewsInv'
  <2>1. FlightKept
    BY <1>0, <1>1, FlightAnswered
  <2>2. OneStream' /\ logStream' \in Proc \cup {Nothing}
    BY <1>1, StreamKept DEF ViewsInv
  <2>3. ViewsRest'
    BY <1>0, <1>1 DEF ViewsInv, ViewsTypeOK, ViewsRest, Done
  <2> QED BY <2>1, <2>2, <2>3, ViewsWhole
<1> HIDE DEF follow
<1>2. {} \in SUBSET Request /\ Plain({})
  BY DEF Plain
<1>3. CASE r.kind = "firstSummary"
  <2>1. follow({Req("history", dashRange)})
        /\ UNCHANGED <<dash, metrics, logs>>
    BY <1>3 DEF Answered, follow
  <2>2. {Req("history", dashRange)} \in SUBSET Request
        /\ Plain({Req("history", dashRange)})
    BY DEF Req, Request, Plain, ViewsInv, ViewsTypeOK
  <2> QED BY <1>1, <2>1, <2>2 DEF dash, metrics, ViewsInv, ViewsTypeOK
<1>4. CASE r.kind = "history"
  <2>1. follow({}) /\ dashShown' = r.of /\ UNCHANGED <<dashRange, metrics, logs>>
    BY <1>4 DEF Answered, follow
  <2>2. r.of \in Range
    BY <1>0, <1>4 DEF Request
  <2> QED BY <1>1, <1>2, <2>1, <2>2 DEF metrics, ViewsInv, ViewsTypeOK
<1>5. CASE r.kind = "names"
  <2>1. PICK names \in SUBSET Proc : Named(names)
    BY <1>5 DEF Answered
  <2>2. follow(Fetches(process', range)) /\ UNCHANGED <<range, dash, logs>>
    BY <1>5 DEF Answered, follow
  <2>3. process' \in Proc \cup {Nothing} /\ metricsShown' \in Choice \cup {Nothing}
    BY <2>1 DEF Named, ShownWithout, ViewsInv, ViewsTypeOK
  <2>4. Fetches(process', range) \in SUBSET Request
        /\ Plain(Fetches(process', range))
    BY <2>3, FetchesAreRequests DEF ViewsInv, ViewsTypeOK
  <2> QED BY <1>1, <2>2, <2>3, <2>4 DEF dash, ViewsInv, ViewsTypeOK
<1>6. CASE r.kind = "metrics"
  <2>1. follow({}) /\ metricsShown' = r.of /\ UNCHANGED <<process, range, dash, logs>>
    BY <1>6 DEF Answered, follow
  <2>2. r.of \in Choice
    BY <1>0, <1>6 DEF Request
  <2> QED BY <1>1, <1>2, <2>1, <2>2 DEF dash, ViewsInv, ViewsTypeOK
<1>7. CASE r.kind = "logs" /\ r.of # Nothing
  <2>1. follow({}) /\ UNCHANGED <<dash, metrics>>
        /\ (StartLogs(r.of) \/ UNCHANGED logs)
    BY <1>7 DEF Answered, follow
  <2>2. r.of \in Proc
    BY <1>0, <1>7 DEF Request
  <2> QED BY <1>1, <1>2, <2>1, <2>2 DEF dash, metrics, ViewsInv, ViewsTypeOK
<1>8. CASE r.kind \notin {"firstSummary", "history", "names", "metrics"}
           /\ ~(r.kind = "logs" /\ r.of # Nothing)
  <2>1. follow({}) /\ UNCHANGED <<dash, metrics, logs>>
    BY <1>8 DEF Answered, follow
  <2> QED BY <1>1, <1>2, <2>1 DEF dash, metrics, ViewsInv, ViewsTypeOK
<1> QED BY <1>3, <1>4, <1>5, <1>6, <1>7, <1>8

LEMMA ViewsStep == ViewsInv /\ [ViewsNext]_viewsVars => ViewsInv'
<1> SUFFICES ASSUME ViewsInv, [ViewsNext]_viewsVars PROVE ViewsInv'
  OBVIOUS
<1>1. CASE User
  BY <1>1, ViewsUser
<1>2. CASE Tick
  BY <1>2, ViewsTick
<1>3. ASSUME NEW r \in BagToSet(flight), Settled(r) PROVE ViewsInv'
  BY <1>3, ViewsAnswered, ViewsFails DEF Settled
<1>4. CASE UNCHANGED viewsVars
  <2>1. FlightKept
    BY <1>4, FlightSame DEF viewsVars
  <2>2. OneStream' /\ logStream' \in Proc \cup {Nothing}
    BY <1>4 DEF viewsVars, ViewsInv, ViewsTypeOK, OneStream
  <2>3. ViewsRest'
    BY <1>4 DEF viewsVars, ViewsInv, ViewsTypeOK, ViewsRest
  <2> QED BY <2>1, <2>2, <2>3, ViewsWhole
<1> QED BY <1>1, <1>2, <1>3, <1>4 DEF ViewsNext

LEMMA ViewsInvariance == ViewsSpec => []ViewsInv
  BY InitViewsInv, ViewsStep, PTL DEF ViewsSpec

(* ViewsTypeOK: an interval runs for the view that is open and no other,  *)
(* and a bag of requests stays one, however many are sent.                 *)
THEOREM ViewsTypeCorrect == ViewsSpec => []ViewsTypeOK
<1>1. ViewsInv => ViewsTypeOK
  BY DEF ViewsInv
<1> QED BY <1>1, ViewsInvariance, PTL

(* NothingPilesUp: the interval waits for one refresh at most, of one *)
(* request of each kind, whatever the order of the answers; one event source *)
(* is open at most, and it is the one that can be closed.                  *)
THEOREM ViewsNothingPilesUp == ViewsSpec => []NothingPilesUp
<1>1. ViewsInv => NothingPilesUp
  BY DEF ViewsInv, OneStream, PollsOnce, NothingPilesUp
<1> QED BY <1>1, ViewsInvariance, PTL
=============================================================================

--------------------------- MODULE LogStreamProofs ---------------------------
(***************************************************************************)
(* Proofs of the safety properties of LogStream, for any streams,          *)
(* processes, names, pm_ids, buses and lengths of the backlog.             *)
(***************************************************************************)
EXTENDS LogStream, TLAPS

(* What a tail returns is in the file, and no more than BACKLOG_LINES.      *)
LEMMA TailBounded ==
    ASSUME NEW n \in Nat
    PROVE  Tail(n) \in Nat /\ Tail(n) <= n /\ Tail(n) <= BacklogLines
  BY LogStreamAssumption DEF Tail, AtMost

LEMMA ReadTailBounds ==
    ASSUME TypeOK, NEW s \in Stream, ReadTail(s)
    PROVE  \E skipped \in 0..MaxLines, upto \in 0..MaxLines :
              /\ backlog' = [backlog EXCEPT ![s] = [skipped |-> skipped, upto |-> upto]]
              /\ skipped <= upto /\ upto - skipped <= BacklogLines
<1>1. proc[s] \in Proc
  BY DEF TypeOK, ReadTail
<1>2. PICK n \in 0..MaxLines : n = written[proc[s]]
  BY <1>1 DEF TypeOK
<1>3. PICK skipped \in {n - Tail(n), n} :
         backlog' = [backlog EXCEPT ![s] = [skipped |-> skipped, upto |-> n]]
  BY <1>2 DEF ReadTail
<1>4. n \in Nat /\ Tail(n) \in Nat /\ Tail(n) <= n /\ Tail(n) <= BacklogLines
  BY TailBounded, LogStreamAssumption
<1>5. skipped \in 0..MaxLines /\ skipped <= n /\ n - skipped <= BacklogLines
  BY <1>3, <1>4, LogStreamAssumption
<1>6. QED
  BY <1>3, <1>5

LEMMA TypeStep == TypeOK /\ [Next]_vars => TypeOK'
<1> SUFFICES ASSUME TypeOK, [Next]_vars PROVE TypeOK'
  OBVIOUS
<1> USE DEF stream, daemon, feed, lines
<1>1. ASSUME NEW s \in Stream, Open(s) PROVE TypeOK'
  BY <1>1 DEF TypeOK, Open
<1>2. ASSUME NEW s \in Stream, NEW p \in Proc, Described(s, p) PROVE TypeOK'
  BY <1>2 DEF TypeOK, Described
<1>3. ASSUME NEW s \in Stream, NotDescribed(s) PROVE TypeOK'
  BY <1>3 DEF TypeOK, NotDescribed
<1>4. ASSUME NEW s \in Stream, ReadTail(s) PROVE TypeOK'
  <2>1. PICK skipped \in 0..MaxLines, upto \in 0..MaxLines :
           backlog' = [backlog EXCEPT ![s] = [skipped |-> skipped, upto |-> upto]]
    BY <1>4, ReadTailBounds
  <2>2. backlog' \in [Stream -> [skipped: 0..MaxLines, upto: 0..MaxLines]]
    BY <2>1 DEF TypeOK
  <2>3. QED
    BY <1>4, <2>2 DEF TypeOK, ReadTail
<1>5. ASSUME NEW s \in Stream, Subscribe(s) PROVE TypeOK'
  <2>1. emitted[proc[s]] \in 0..MaxLines
    BY <1>5 DEF TypeOK, Subscribe
  <2>2. QED
    BY <1>5, <2>1 DEF TypeOK, Subscribe
<1>6. ASSUME NEW s \in Stream, ClientLeaves(s) PROVE TypeOK'
  <2>1. CASE pc[s] = "open"
    <3>1. NoBacklog \in [skipped: 0..MaxLines, upto: 0..MaxLines] /\ 0 \in 0..MaxLines
      BY LogStreamAssumption DEF NoBacklog
    <3>2. /\ pc' = [pc EXCEPT ![s] = "done"] /\ Forget(s)
          /\ clients' \subseteq Stream /\ listeners' \subseteq Stream /\ beats' \subseteq Stream
          /\ UNCHANGED <<written, emitted, daemon, feed>>
      BY <1>6, <2>1 DEF ClientLeaves, TypeOK
    <3>3. QED
      BY <3>1, <3>2 DEF TypeOK, Forget
  <2>2. CASE pc[s] # "open"
    BY <1>6, <2>2 DEF TypeOK, ClientLeaves
  <2>3. QED
    BY <2>1, <2>2
<1>7. ASSUME NEW p \in Proc, LogLine(p) PROVE TypeOK'
  <2>1. emitted[p] + 1 \in 1..MaxLines
    BY <1>7, LogStreamAssumption DEF TypeOK, LogLine
  <2>2. emitted' \in [Proc -> 0..MaxLines]
    BY <1>7, <2>1 DEF TypeOK, LogLine
  <2>3. sent' \in [Stream -> SUBSET (Proc \X (1..MaxLines))]
    BY <1>7, <2>1 DEF TypeOK, LogLine
  <2>4. foreign' \subseteq Stream
    BY <1>7 DEF TypeOK, LogLine
  <2>5. detached' \in [Stream -> SUBSET (1..MaxLines)]
    BY <1>7, <2>1 DEF TypeOK, LogLine
  <2>6. UNCHANGED <<written, stream, daemon, feed>>
    BY <1>7 DEF LogLine
  <2>7. QED
    BY <2>2, <2>3, <2>4, <2>5, <2>6 DEF TypeOK
<1>8. ASSUME NEW p \in Proc, AppendLine(p) PROVE TypeOK'
  <2>1. written' \in [Proc -> 0..MaxLines]
    BY <1>8, LogStreamAssumption DEF TypeOK, AppendLine
  <2>2. QED
    BY <1>8, <2>1 DEF TypeOK, AppendLine
<1>9. ASSUME NEW p \in Proc, Started(p) \/ Renamed(p) \/ Deleted(p) PROVE TypeOK'
  <2>1. /\ idOf' \in [Proc -> PmId \cup {None, Gone}] /\ nameOf' \in [Proc -> Name]
        /\ UNCHANGED <<stream, feed, lines>>
    <3>1. CASE Started(p)
      BY <3>1 DEF TypeOK, Started
    <3>2. CASE Renamed(p)
      BY <3>2 DEF TypeOK, Renamed
    <3>3. CASE Deleted(p)
      BY <3>3 DEF TypeOK, Deleted
    <3>4. QED
      BY <1>9, <3>1, <3>2, <3>3
  <2>2. QED
    BY <2>1 DEF TypeOK
<1>10. ASSUME NEW b \in Bus, Attach(b) \/ BusEnds(b) PROVE TypeOK'
  BY <1>10 DEF TypeOK, Attach, BusEnds
<1>11. CASE UNCHANGED vars
  BY <1>11 DEF TypeOK, vars
<1>12. QED
  BY <1>1, <1>2, <1>3, <1>4, <1>5, <1>6, <1>7, <1>8, <1>9, <1>10, <1>11 DEF Next

(* Type correctness.                                                       *)
THEOREM TypeCorrect == Spec => []TypeOK
<1>1. Init => TypeOK
  BY LogStreamAssumption DEF Init, TypeOK, NoBacklog
<1>2. QED
  BY <1>1, TypeStep, PTL DEF Spec

-----------------------------------------------------------------------------
LEMMA ResourcesStep ==
    TypeOK /\ ResourcesBelongToOpenStreams /\ [Next]_vars => ResourcesBelongToOpenStreams'
<1> SUFFICES ASSUME TypeOK, ResourcesBelongToOpenStreams, [Next]_vars
             PROVE  ResourcesBelongToOpenStreams'
  OBVIOUS
<1> USE DEF stream, daemon, feed, lines
<1>1. ASSUME NEW s \in Stream, Open(s) PROVE ResourcesBelongToOpenStreams'
  BY <1>1 DEF TypeOK, ResourcesBelongToOpenStreams, Open
<1>2. ASSUME NEW s \in Stream, NEW p \in Proc, Described(s, p)
      PROVE  ResourcesBelongToOpenStreams'
  BY <1>2 DEF TypeOK, ResourcesBelongToOpenStreams, Described
<1>3. ASSUME NEW s \in Stream, NotDescribed(s) PROVE ResourcesBelongToOpenStreams'
  BY <1>3 DEF TypeOK, ResourcesBelongToOpenStreams, NotDescribed
<1>4. ASSUME NEW s \in Stream, ReadTail(s) PROVE ResourcesBelongToOpenStreams'
  BY <1>4 DEF TypeOK, ResourcesBelongToOpenStreams, ReadTail
<1>5. ASSUME NEW s \in Stream, Subscribe(s) PROVE ResourcesBelongToOpenStreams'
  BY <1>5 DEF TypeOK, ResourcesBelongToOpenStreams, Subscribe
<1>6. ASSUME NEW s \in Stream, ClientLeaves(s) PROVE ResourcesBelongToOpenStreams'
  <2>1. CASE pc[s] = "open"
    BY <1>6, <2>1 DEF TypeOK, ResourcesBelongToOpenStreams, ClientLeaves
  <2>2. CASE pc[s] # "open"
    BY <1>6, <2>2 DEF ResourcesBelongToOpenStreams, ClientLeaves
  <2>3. QED
    BY <2>1, <2>2
<1>7. ASSUME NEW p \in Proc,
             LogLine(p) \/ AppendLine(p) \/ Started(p) \/ Renamed(p) \/ Deleted(p)
      PROVE  ResourcesBelongToOpenStreams'
  BY <1>7 DEF ResourcesBelongToOpenStreams, LogLine, AppendLine, Started, Renamed, Deleted
<1>8. ASSUME NEW b \in Bus, Attach(b) \/ BusEnds(b) PROVE ResourcesBelongToOpenStreams'
  BY <1>8 DEF ResourcesBelongToOpenStreams, Attach, BusEnds
<1>9. CASE UNCHANGED vars
  BY <1>9 DEF ResourcesBelongToOpenStreams, vars
<1>10. QED
  BY <1>1, <1>2, <1>3, <1>4, <1>5, <1>6, <1>7, <1>8, <1>9 DEF Next

(* Open streams hold a subscription and a heartbeat, others neither.       *)
THEOREM ResourcesAccounted == Spec => []ResourcesBelongToOpenStreams
<1>1. Init => ResourcesBelongToOpenStreams
  BY DEF Init, ResourcesBelongToOpenStreams
<1>2. QED
  BY <1>1, ResourcesStep, TypeCorrect, PTL DEF Spec

-----------------------------------------------------------------------------
(* A pm_id is that of one process at a time, and that of the process of a    *)
(* stream is the one it had when it was described, until it is deleted.  A  *)
(* stream is sent nothing before it listens, so what it was sent came when  *)
(* it knew its process.                                                    *)
IdsUnique == \A p, q \in Proc : idOf[p] = idOf[q] /\ idOf[p] \in PmId => p = q

Known(s) == pc[s] \in {"backlog", "replay", "open"} => idOf[proc[s]] \in {pmId[s], Gone}

Silent(s) ==
    pc[s] # "open" => sent[s] = {} /\ s \notin foreign /\ detached[s] = {}

IdentityInv ==
    /\ IdsUnique
    /\ \A s \in Stream : Known(s) /\ Silent(s)
    /\ ForeignOnlyAfterDeletion

LEMMA IdentityStep ==
    ASSUME TypeOK, ResourcesBelongToOpenStreams, IdentityInv, [Next]_vars
    PROVE  IdentityInv'
<1> USE DEF IdentityInv, IdsUnique, Known, Silent, ForeignOnlyAfterDeletion,
            stream, daemon, feed, lines
<1>1. ASSUME NEW s \in Stream, Open(s) PROVE IdentityInv'
  BY <1>1 DEF TypeOK, Open
<1>2. ASSUME NEW s \in Stream, NEW p \in Proc, Described(s, p) PROVE IdentityInv'
  BY <1>2 DEF TypeOK, Described
<1>3. ASSUME NEW s \in Stream, NotDescribed(s) PROVE IdentityInv'
  BY <1>3 DEF TypeOK, NotDescribed
<1>4. ASSUME NEW s \in Stream, ReadTail(s) PROVE IdentityInv'
  BY <1>4 DEF TypeOK, ReadTail
<1>5. ASSUME NEW s \in Stream, Subscribe(s) PROVE IdentityInv'
  BY <1>5 DEF TypeOK, Subscribe
<1>6. ASSUME NEW s \in Stream, ClientLeaves(s) PROVE IdentityInv'
  <2>1. UNCHANGED idOf
    BY <1>6 DEF ClientLeaves
  <2>2. CASE pc[s] = "open"
    <3>1. pc' = [pc EXCEPT ![s] = "done"] /\ Forget(s)
      BY <1>6, <2>2 DEF ClientLeaves
    <3>2. ASSUME NEW z \in Stream, z # s
          PROVE  /\ pc'[z] = pc[z] /\ proc'[z] = proc[z] /\ pmId'[z] = pmId[z]
                 /\ sent'[z] = sent[z] /\ detached'[z] = detached[z]
                 /\ z \in foreign' <=> z \in foreign
      BY <3>1, <3>2 DEF TypeOK, Forget
    <3>3. pc'[s] = "done" /\ sent'[s] = {} /\ detached'[s] = {} /\ s \notin foreign'
      BY <3>1 DEF TypeOK, Forget
    <3>4. ASSUME NEW z \in Stream PROVE Known(z)' /\ Silent(z)'
      <4>1. CASE z = s
        BY <3>3, <4>1
      <4>2. CASE z # s
        BY <2>1, <3>2, <4>2
      <4>3. QED
        BY <4>1, <4>2
    <3>5. ASSUME NEW z \in foreign' PROVE idOf'[proc'[z]] = Gone
      <4>1. z \in foreign /\ z # s /\ z \in Stream
        BY <3>1, <3>3 DEF TypeOK, Forget
      <4>2. proc'[z] = proc[z]
        BY <3>2, <4>1
      <4>3. QED
        BY <2>1, <4>1, <4>2
    <3>6. QED
      BY <2>1, <3>4, <3>5
  <2>3. CASE pc[s] # "open"
    BY <1>6, <2>3 DEF ClientLeaves
  <2>4. QED
    BY <2>2, <2>3
<1>7. ASSUME NEW p \in Proc, LogLine(p) PROVE IdentityInv'
  <2>1. IdsUnique' /\ \A s \in Stream : Known(s)'
    BY <1>7 DEF LogLine
  <2>2. ASSUME NEW s \in Stream PROVE Silent(s)'
    BY <1>7 DEF TypeOK, ResourcesBelongToOpenStreams, LogLine
  <2>3. ASSUME NEW s \in foreign' PROVE idOf'[proc'[s]] = Gone
    <3>1. CASE s \in foreign
      BY <1>7, <3>1 DEF LogLine
    <3>2. CASE s \notin foreign
      <4>1. /\ s \in listeners /\ p # proc[s] /\ idOf[p] = pmId[s] /\ idOf[p] \in PmId
            /\ pc[s] = "open" /\ s \in Stream
        BY <1>7, <3>2 DEF TypeOK, ResourcesBelongToOpenStreams, LogLine, Matches
      <4>2. idOf[proc[s]] # pmId[s]
        BY <4>1 DEF TypeOK
      <4>3. QED
        BY <1>7, <4>1, <4>2 DEF LogLine
    <3>3. QED
      BY <3>1, <3>2
  <2>4. QED
    BY <2>1, <2>2, <2>3
<1>8. ASSUME NEW p \in Proc, AppendLine(p) PROVE IdentityInv'
  BY <1>8 DEF AppendLine
<1>9. ASSUME NEW p \in Proc, Started(p) PROVE IdentityInv'
  <2>1. ASSUME NEW s \in Stream, pc[s] \in {"backlog", "replay", "open"}
        PROVE  proc[s] # p
    BY <1>9, <2>1, LogStreamAssumption DEF TypeOK, Started
  <2>2. ASSUME NEW s \in foreign PROVE pc[s] = "open" /\ s \in Stream
    BY DEF TypeOK
  <2>3. IdsUnique'
    BY <1>9 DEF TypeOK, Started
  <2>4. QED
    BY <1>9, <2>1, <2>2, <2>3 DEF TypeOK, Started
<1>10. ASSUME NEW p \in Proc, Renamed(p) PROVE IdentityInv'
  BY <1>10 DEF Renamed
<1>11. ASSUME NEW p \in Proc, Deleted(p) PROVE IdentityInv'
  <2>1. ASSUME NEW s \in foreign PROVE pc[s] = "open" /\ s \in Stream
    BY DEF TypeOK
  <2>2. QED
    BY <1>11, <2>1, LogStreamAssumption DEF TypeOK, Deleted
<1>12. ASSUME NEW b \in Bus, Attach(b) \/ BusEnds(b) PROVE IdentityInv'
  BY <1>12 DEF Attach, BusEnds
<1>13. CASE UNCHANGED vars
  BY <1>13 DEF vars
<1>14. QED
  BY <1>1, <1>2, <1>3, <1>4, <1>5, <1>6, <1>7, <1>8, <1>9, <1>10, <1>11, <1>12, <1>13 DEF Next

LEMMA IdentityAlways == Spec => []IdentityInv
<1>1. Init => IdentityInv
  BY LogStreamAssumption
     DEF Init, IdentityInv, IdsUnique, Known, Silent, ForeignOnlyAfterDeletion
<1>2. TypeOK /\ ResourcesBelongToOpenStreams /\ IdentityInv /\ [Next]_vars => IdentityInv'
  BY IdentityStep
<1>3. QED
  BY <1>1, <1>2, TypeCorrect, ResourcesAccounted, PTL DEF Spec

(* As long as the process a stream was opened on is there, the stream shows *)
(* no process of another name.                                             *)
THEOREM ForeignNeedsDeletion == Spec => []ForeignOnlyAfterDeletion
<1>1. IdentityInv => ForeignOnlyAfterDeletion
  BY DEF IdentityInv
<1>2. QED
  BY <1>1, IdentityAlways, PTL

-----------------------------------------------------------------------------
(* The bus the service holds is heard.  A stream replays a bounded piece of *)
(* the file, and from its subscription on it is sent every line of its      *)
(* process that comes while the service holds a bus.                       *)
HeldIsHeard == bus # None => bus \in heard

Bounded(s) ==
    pc[s] \in {"replay", "open"} =>
        /\ backlog[s].skipped <= backlog[s].upto
        /\ backlog[s].upto - backlog[s].skipped <= BacklogLines

Follows(s) ==
    pc[s] = "open" =>
        /\ since[s] <= emitted[proc[s]]
        /\ \A i \in 1..MaxLines :
              <<proc[s], i>> \in sent[s] => since[s] < i /\ i <= emitted[proc[s]]
        /\ \A i \in 1..MaxLines :
              since[s] < i /\ i <= emitted[proc[s]] =>
                  <<proc[s], i>> \in sent[s] \/ i \in detached[s]

GapInv == HeldIsHeard /\ \A s \in Stream : Bounded(s) /\ Follows(s)

LEMMA HeldStep ==
    ASSUME TypeOK, HeldIsHeard, [Next]_vars
    PROVE  HeldIsHeard'
  BY DEF TypeOK, HeldIsHeard, Next, vars, stream, daemon, feed, lines, Open, Described,
         NotDescribed, ReadTail, Subscribe, ClientLeaves, Started, Renamed, Deleted, LogLine,
         AppendLine, Attach, BusEnds

LEMMA GapStep ==
    ASSUME TypeOK, ResourcesBelongToOpenStreams, IdentityInv, GapInv, [Next]_vars
    PROVE  GapInv'
<1> SUFFICES ASSUME NEW z \in Stream PROVE Bounded(z)' /\ Follows(z)'
  BY HeldStep DEF GapInv
<1> Bounded(z) /\ Follows(z)
  BY DEF GapInv
<1> USE DEF stream, daemon, feed, lines
<1>1. ASSUME NEW s \in Stream, Open(s) PROVE Bounded(z)' /\ Follows(z)'
  BY <1>1 DEF TypeOK, Open, Bounded, Follows
<1>2. ASSUME NEW s \in Stream, NEW p \in Proc, Described(s, p)
      PROVE  Bounded(z)' /\ Follows(z)'
  BY <1>2 DEF TypeOK, Described, Bounded, Follows
<1>3. ASSUME NEW s \in Stream, NotDescribed(s) PROVE Bounded(z)' /\ Follows(z)'
  BY <1>3 DEF TypeOK, NotDescribed, Bounded, Follows
<1>4. ASSUME NEW s \in Stream, ReadTail(s) PROVE Bounded(z)' /\ Follows(z)'
  <2>1. PICK skipped \in 0..MaxLines, upto \in 0..MaxLines :
           /\ backlog' = [backlog EXCEPT ![s] = [skipped |-> skipped, upto |-> upto]]
           /\ skipped <= upto /\ upto - skipped <= BacklogLines
    BY <1>4, ReadTailBounds
  <2>2. Bounded(z)'
    BY <1>4, <2>1 DEF TypeOK, ReadTail, Bounded
  <2>3. Follows(z)'
    BY <1>4 DEF TypeOK, ReadTail, Follows
  <2>4. QED
    BY <2>2, <2>3
<1>5. ASSUME NEW s \in Stream, Subscribe(s) PROVE Bounded(z)' /\ Follows(z)'
  <2>1. Bounded(z)'
    BY <1>5 DEF TypeOK, Subscribe, Bounded
  <2>2. CASE z = s
    <3>1. sent'[z] = {} /\ proc'[z] \in Proc
      BY <1>5, <2>2 DEF TypeOK, Subscribe, IdentityInv, Silent
    <3>2. since'[z] = emitted'[proc'[z]] /\ emitted'[proc'[z]] \in 0..MaxLines
      BY <1>5, <2>2, <3>1 DEF TypeOK, Subscribe
    <3>3. QED
      BY <2>1, <3>1, <3>2, LogStreamAssumption DEF Follows
  <2>3. CASE z # s
    BY <1>5, <2>1, <2>3 DEF TypeOK, Subscribe, Follows
  <2>4. QED
    BY <2>2, <2>3
<1>6. ASSUME NEW s \in Stream, ClientLeaves(s) PROVE Bounded(z)' /\ Follows(z)'
  BY <1>6 DEF TypeOK, ClientLeaves, Forget, Bounded, Follows
<1>7. ASSUME NEW p \in Proc, LogLine(p) PROVE Bounded(z)' /\ Follows(z)'
  <2>1. Bounded(z)'
    BY <1>7 DEF LogLine, Bounded
  <2> SUFFICES ASSUME pc[z] = "open" PROVE Follows(z)'
    BY <1>7, <2>1 DEF LogLine, Follows
  <2>2. z \in listeners /\ proc[z] \in Proc
    BY DEF TypeOK, ResourcesBelongToOpenStreams
  <2>3. /\ since[z] \in 0..MaxLines /\ emitted[p] \in 0..MaxLines
        /\ emitted[proc[z]] \in 0..MaxLines /\ emitted' = [emitted EXCEPT ![p] = emitted[p] + 1]
    BY <1>7, <2>2 DEF TypeOK, LogLine
  <2>4. since'[z] = since[z] /\ proc'[z] = proc[z]
    BY <1>7 DEF LogLine
  <2>5. CASE p = proc[z]
    <3>1. Matches(z, p)
      BY <1>7, <2>5, LogStreamAssumption DEF LogLine, IdentityInv, Known, Matches
    <3>2. emitted'[proc[z]] = emitted[p] + 1
      BY <2>2, <2>3, <2>5 DEF TypeOK
    <3>3. /\ sent'[z] \in {sent[z], sent[z] \cup {<<p, emitted[p] + 1>>}}
          /\ detached[z] \subseteq detached'[z]
          /\ <<p, emitted[p] + 1>> \in sent'[z] \/ emitted[p] + 1 \in detached'[z]
      <4>1. CASE bus = None
        BY <1>7, <2>2, <2>5, <4>1 DEF TypeOK, LogLine
      <4>2. CASE bus # None
        BY <1>7, <2>2, <2>5, <3>1, <4>2 DEF TypeOK, LogLine, GapInv, HeldIsHeard
      <4>3. QED
        BY <4>1, <4>2
    <3>4. ASSUME NEW i \in 1..MaxLines, <<proc[z], i>> \in sent'[z]
          PROVE  since[z] < i /\ i <= emitted[p] + 1
      BY <2>3, <2>5, <3>3, <3>4 DEF Follows
    <3>5. ASSUME NEW i \in 1..MaxLines, since[z] < i, i <= emitted[p] + 1
          PROVE  <<proc[z], i>> \in sent'[z] \/ i \in detached'[z]
      BY <2>3, <2>5, <3>3, <3>5 DEF Follows
    <3>6. since[z] <= emitted[p] + 1
      BY <2>3, <2>5 DEF Follows
    <3>7. QED
      BY <2>4, <3>2, <3>4, <3>5, <3>6 DEF Follows
  <2>6. CASE p # proc[z]
    <3>1. \A i \in 1..MaxLines : <<proc[z], i>> \in sent'[z] <=> <<proc[z], i>> \in sent[z]
      BY <1>7, <2>2, <2>6 DEF TypeOK, LogLine
    <3>2. emitted'[proc[z]] = emitted[proc[z]] /\ detached'[z] = detached[z]
      BY <1>7, <2>2, <2>3, <2>6 DEF TypeOK, LogLine
    <3>3. QED
      BY <2>4, <3>1, <3>2 DEF Follows
  <2>7. QED
    BY <2>5, <2>6
<1>8. ASSUME NEW p \in Proc, AppendLine(p) \/ Started(p) \/ Renamed(p) \/ Deleted(p)
      PROVE  Bounded(z)' /\ Follows(z)'
  BY <1>8 DEF AppendLine, Started, Renamed, Deleted, Bounded, Follows
<1>9. ASSUME NEW b \in Bus, Attach(b) \/ BusEnds(b) PROVE Bounded(z)' /\ Follows(z)'
  BY <1>9 DEF Attach, BusEnds, Bounded, Follows
<1>10. CASE UNCHANGED vars
  BY <1>10 DEF vars, Bounded, Follows
<1>11. QED
  BY <1>1, <1>2, <1>3, <1>4, <1>5, <1>6, <1>7, <1>8, <1>9, <1>10 DEF Next

LEMMA GapBounds ==
    ASSUME TypeOK, GapInv
    PROVE  MissedOnlyInGap
<1> SUFFICES ASSUME NEW s \in Stream, pc[s] = "open"
             PROVE  /\ \A i \in 1..emitted[proc[s]] :
                          \/ i \in Replayed(s) \cup Live(s)
                          \/ i <= backlog[s].skipped
                          \/ backlog[s].upto < i /\ i <= since[s]
                          \/ i \in detached[s]
                    /\ \A i \in Replayed(s) \cap Live(s) :
                          since[s] < i /\ i <= backlog[s].upto
                    /\ backlog[s].upto - backlog[s].skipped <= BacklogLines
  BY DEF MissedOnlyInGap
<1>1. /\ Bounded(s) /\ Follows(s) /\ emitted[proc[s]] \in 0..MaxLines
      /\ since[s] \in 0..MaxLines
      /\ backlog[s].skipped \in 0..MaxLines /\ backlog[s].upto \in 0..MaxLines
  BY DEF GapInv, TypeOK
<1>2. ASSUME NEW i \in 1..emitted[proc[s]]
      PROVE  \/ i \in Replayed(s) \cup Live(s)
             \/ i <= backlog[s].skipped
             \/ backlog[s].upto < i /\ i <= since[s]
             \/ i \in detached[s]
  BY <1>1, LogStreamAssumption DEF Follows, Replayed, Live
<1>3. \A i \in Replayed(s) \cap Live(s) : since[s] < i /\ i <= backlog[s].upto
  BY <1>1 DEF Follows, Replayed, Live
<1>4. QED
  BY <1>1, <1>2, <1>3 DEF Bounded

(* A viewer misses lines only before the tail, between the reading of the   *)
(* file and the subscription, and while the service holds no bus; and is    *)
(* shown from the file and live only what was in the file before it came.  *)
THEOREM GapsAreAll == Spec => []MissedOnlyInGap
<1>1. Init => GapInv
  BY DEF Init, GapInv, HeldIsHeard, Bounded, Follows
<1>2. TypeOK /\ ResourcesBelongToOpenStreams /\ IdentityInv /\ GapInv /\ [Next]_vars => GapInv'
  BY GapStep
<1>3. TypeOK /\ GapInv => MissedOnlyInGap
  BY GapBounds
<1>4. QED
  BY <1>1, <1>2, <1>3, TypeCorrect, ResourcesAccounted, IdentityAlways, PTL DEF Spec
=============================================================================

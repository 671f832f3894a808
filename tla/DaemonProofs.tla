---------------------------- MODULE DaemonProofs -----------------------------
(***************************************************************************)
(* The read-models catch up with the fleet, for any sessions, channel      *)
(* capacity and commands.  The invariant says of a queue, without folding  *)
(* it, where the fold will end: what is told last about a session is what  *)
(* the fleet says of it, or nothing is told and the view already has it.   *)
(***************************************************************************)
EXTENDS Daemon, SupervisorProofs

-----------------------------------------------------------------------------
(* What a queue will come to *)

\* After the last of `right` in the queue nothing of `wrong` follows; with none of
\* either, what the view shows `now` stands.
Ends(queue, right, wrong, now) ==
  \/ now /\ \A i \in 1..Len(queue) : queue[i] \notin wrong
  \/ \E i \in 1..Len(queue) :
       queue[i] \in right /\ \A j \in 1..Len(queue) : j > i => queue[j] \notin wrong

Upserts(s)  == {e \in Events : e.kind = "SessionUpserted" /\ e.session = s}
Removals(s) == {e \in Events : e.kind = "SessionRemoved" /\ e.session = s}

\* The facts that tell the phase of a session, and the one they tell.
PhaseTellers(s) ==
  {e \in Events : e.kind \in {"SessionUpserted", "PhaseTransitioned"} /\ e.session = s}
PhaseTold(e) == IF e.kind = "SessionUpserted" THEN e.row.phase ELSE e.phase

PhaseRight(s, rec) == {e \in PhaseTellers(s) : PhaseTold(e) = rec.phase}
PhaseWrong(s, rec) == {e \in PhaseTellers(s) : PhaseTold(e) # rec.phase}

\* The rows that tell what a session is entrusted with.
Grants(row, rec) == row.trust_tier = rec.trust_tier /\ row.adopted = rec.adopted
GrantRight(s, rec) == {e \in Upserts(s) : Grants(e.row, rec)}
GrantWrong(s, rec) == {e \in Upserts(s) : ~Grants(e.row, rec)}

Queue(r) == bus[r].queue

\* Where the gate's view and the fleet view will end.
WillList(s) == Ends(Queue("readmodels"), Upserts(s), Removals(s),
                    gate[s] # Absent /\ view[s] # Absent)
WillPhase(s) == Ends(Queue("readmodels"), PhaseRight(s, fleet[s]), PhaseWrong(s, fleet[s]),
                     gate[s] # Absent => gate[s].phase = fleet[s].phase)
WillGrant(s) == Ends(Queue("readmodels"), GrantRight(s, fleet[s]), GrantWrong(s, fleet[s]),
                     gate[s] # Absent => /\ gate[s].trust = fleet[s].trust_tier
                                         /\ gate[s].adopted = fleet[s].adopted)

\* Where the policy view will end.
WillDecide(s) ==
  /\ Ends(Queue("policy"), PhaseRight(s, fleet[s]), PhaseWrong(s, fleet[s]),
          policy[s] # Absent => policy[s].phase = fleet[s].phase)
  /\ Ends(Queue("policy"), GrantRight(s, fleet[s]), GrantWrong(s, fleet[s]),
          policy[s] # Absent => policy[s].trust_tier = fleet[s].trust_tier)

FoldsEndRight ==
  ~bus["readmodels"].lagged /\ ~Resynchronising =>
    \A s \in Sessions : Known(s) => WillList(s) /\ WillPhase(s) /\ WillGrant(s)

PolicyEndsRight ==
  policyFolds /\ ~bus["policy"].lagged =>
    \A s \in Sessions : Known(s) => WillDecide(s)

PolicyEntry == [phase : Phases, trust_tier : Tiers]

DaemonTyped ==
  /\ TypeOK
  /\ commands \in Seq(Commands)
  /\ gate \in [Sessions -> GateState \cup {Absent}]
  /\ view \in [Sessions -> Session \cup {Absent}]
  /\ policy \in [Sessions -> PolicyEntry \cup {Absent}]
  /\ policyFolds \in BOOLEAN

DaemonInv == DaemonTyped /\ FoldsEndRight /\ PolicyEndsRight


-----------------------------------------------------------------------------
(* Facts about queues *)

\* An empty queue ends where the view is.
LEMMA EndsOfNone ==
  ASSUME NEW queue, NEW right, NEW wrong, NEW now, Len(queue) = 0, Ends(queue, right, wrong, now)
  PROVE  now
<1>1. 1..Len(queue) = {}
  OBVIOUS
<1>2. QED
  BY <1>1 DEF Ends

\* What is sent after a queue decides, and decides what the queue would when it tells
\* nothing new.
LEMMA EndsOfBoth ==
  ASSUME NEW S, NEW queue \in Seq(S), NEW sent \in Seq(S), NEW right, NEW wrong, NEW now, NEW keep,
         Ends(sent, right, wrong, keep), keep => Ends(queue, right, wrong, now)
  PROVE  Ends(queue \o sent, right, wrong, now)
<1> DEFINE all == queue \o sent
           m   == Len(queue)
           n   == Len(sent)
<1>1. /\ m \in Nat /\ n \in Nat /\ Len(all) = m + n
      /\ \A i \in 1..m : all[i] = queue[i]
      /\ \A i \in 1..n : all[m + i] = sent[i]
  OBVIOUS
<1> HIDE DEF all, m, n
<1>2. ASSUME NEW k \in 1..Len(all), k > m PROVE k - m \in 1..n /\ all[k] = sent[k - m]
  <2>1. k - m \in 1..n /\ m + (k - m) = k
    BY <1>1, <1>2
  <2>2. QED
    BY <1>1, <2>1
<1>3. ASSUME NEW k \in 1..Len(all), ~(k > m) PROVE k \in 1..m /\ all[k] = queue[k]
  BY <1>1, <1>3
<1>4. CASE \E i \in 1..n : sent[i] \in right /\ \A j \in 1..n : j > i => sent[j] \notin wrong
  <2>1. PICK i \in 1..n : sent[i] \in right /\ \A j \in 1..n : j > i => sent[j] \notin wrong
    BY <1>4
  <2>2. m + i \in 1..Len(all) /\ all[m + i] \in right
    BY <1>1, <2>1
  <2>3. ASSUME NEW k \in 1..Len(all), k > m + i PROVE all[k] \notin wrong
    <3>1. k > m /\ k - m > i
      BY <1>1, <2>3
    <3>2. QED
      BY <1>2, <2>1, <3>1
  <2>4. QED
    BY <2>2, <2>3 DEF Ends, all
<1>5. CASE keep /\ \A i \in 1..n : sent[i] \notin wrong
  <2>1. Ends(queue, right, wrong, now)
    BY <1>5
  <2>2. CASE now /\ \A i \in 1..m : queue[i] \notin wrong
    <3>1. \A k \in 1..Len(all) : all[k] \notin wrong
      BY <1>2, <1>3, <1>5, <2>2
    <3>2. QED
      BY <2>2, <3>1 DEF Ends, all
  <2>3. CASE \E i \in 1..m : queue[i] \in right /\ \A j \in 1..m : j > i => queue[j] \notin wrong
    <3>1. PICK i \in 1..m : queue[i] \in right /\ \A j \in 1..m : j > i => queue[j] \notin wrong
      BY <2>3
    <3>2. i \in 1..Len(all) /\ all[i] \in right
      BY <1>1, <3>1
    <3>3. ASSUME NEW k \in 1..Len(all), k > i PROVE all[k] \notin wrong
      BY <1>2, <1>3, <1>5, <3>1, <3>3
    <3>4. QED
      BY <3>2, <3>3 DEF Ends, all
  <2>4. QED
    BY <2>1, <2>2, <2>3 DEF Ends, m
<1>6. QED
  BY <1>4, <1>5 DEF Ends, n

\* Folding the head of a queue leaves it ending where it did, provided the view takes
\* over what the head told.
LEMMA EndsOfTail ==
  ASSUME NEW S, NEW queue \in Seq(S), queue # <<>>, NEW right, NEW wrong, NEW now, NEW then,
         Ends(queue, right, wrong, now),
         Head(queue) \in right => then,
         Head(queue) \notin wrong /\ now => then
  PROVE  Ends(Tail(queue), right, wrong, then)
<1> DEFINE rest == Tail(queue)
           n    == Len(rest)
<1>1. /\ n \in Nat /\ Len(queue) = n + 1 /\ queue[1] = Head(queue)
      /\ \A i \in 1..n : rest[i] = queue[i + 1]
  OBVIOUS
<1> HIDE DEF rest, n
<1>2. CASE now /\ \A i \in 1..Len(queue) : queue[i] \notin wrong
  <2>1. then
    <3>1. 1 \in 1..Len(queue)
      BY <1>1
    <3>2. Head(queue) \notin wrong
      BY <1>1, <1>2, <3>1
    <3>3. QED
      BY <1>2, <3>2
  <2>2. \A i \in 1..n : rest[i] \notin wrong
    BY <1>1, <1>2
  <2>3. QED
    BY <2>1, <2>2 DEF Ends, rest, n
<1>3. CASE \E i \in 1..Len(queue) :
             queue[i] \in right /\ \A j \in 1..Len(queue) : j > i => queue[j] \notin wrong
  <2>1. PICK i \in 1..Len(queue) :
          queue[i] \in right /\ \A j \in 1..Len(queue) : j > i => queue[j] \notin wrong
    BY <1>3
  <2>2. CASE i = 1
    <3>1. then
      BY <1>1, <2>1, <2>2
    <3>2. \A j \in 1..n : rest[j] \notin wrong
      <4>1. \A j \in 1..n : j + 1 \in 1..Len(queue) /\ j + 1 > i
        BY <1>1, <2>2
      <4>2. QED
        BY <1>1, <2>1, <4>1
    <3>3. QED
      BY <3>1, <3>2 DEF Ends, rest, n
  <2>3. CASE i # 1
    <3>1. i - 1 \in 1..n /\ (i - 1) + 1 = i
      BY <1>1, <2>1, <2>3
    <3>2. rest[i - 1] \in right
      BY <1>1, <2>1, <3>1
    <3>3. ASSUME NEW j \in 1..n, j > i - 1 PROVE rest[j] \notin wrong
      <4>1. j + 1 \in 1..Len(queue) /\ j + 1 > i
        BY <1>1, <2>1, <3>3
      <4>2. QED
        BY <1>1, <2>1, <4>1
    <3>4. QED
      BY <3>1, <3>2, <3>3 DEF Ends, rest, n
  <2>4. QED
    BY <2>2, <2>3
<1>4. QED
  BY <1>2, <1>3 DEF Ends

\* A queue that ends right when the view shows nothing ends right whatever it shows.
LEMMA EndsWhatever ==
  ASSUME NEW queue, NEW right, NEW wrong, NEW now, Ends(queue, right, wrong, FALSE)
  PROVE  Ends(queue, right, wrong, now)
BY DEF Ends

-----------------------------------------------------------------------------
(* What a handler reports: facts that leave every session of the fleet it    *)
(* leads to told as it is, in presence, phase, and grants.                   *)

Reports(facts) ==
  \A s \in Sessions : Known(s)' =>
    /\ Ends(facts, Upserts(s), Removals(s), Known(s))
    /\ Ends(facts, PhaseRight(s, fleet'[s]), PhaseWrong(s, fleet'[s]),
            Known(s) /\ fleet'[s].phase = fleet[s].phase)
    /\ Ends(facts, GrantRight(s, fleet'[s]), GrantWrong(s, fleet'[s]),
            Known(s) /\ Grants(fleet'[s], fleet[s]))

\* A fact of another session or of a kind no read-model folds tells nothing of this one.
LEMMA TellsNothing ==
  ASSUME NEW s, NEW rec, NEW e, e.session # s \/ e.kind \in NoticeKinds
  PROVE  /\ e \notin Removals(s) /\ e \notin PhaseWrong(s, rec) /\ e \notin GrantWrong(s, rec)
         /\ e \notin PhaseRight(s, rec) /\ e \notin GrantRight(s, rec) /\ e \notin Upserts(s)
BY DEF Removals, PhaseWrong, PhaseRight, GrantWrong, GrantRight, PhaseTellers, Upserts,
       NoticeKinds

\* Facts that tell nothing of a session leave it as it was told.
LEMMA SilenceEnds ==
  ASSUME NEW facts, NEW s, NEW rec, NEW now, now,
         \A i \in 1..Len(facts) : facts[i].session # s \/ facts[i].kind \in NoticeKinds
  PROVE  /\ Ends(facts, Upserts(s), Removals(s), now)
         /\ Ends(facts, PhaseRight(s, rec), PhaseWrong(s, rec), now)
         /\ Ends(facts, GrantRight(s, rec), GrantWrong(s, rec), now)
BY TellsNothing DEF Ends

\* A row upserted as it is tells all of it, when only notices follow.
LEMMA UpsertEnds ==
  ASSUME NEW facts, NEW s \in Sessions, NEW rec \in Session, NEW k \in 1..Len(facts), NEW now,
         facts[k] = Upserted(s, rec),
         \A j \in 1..Len(facts) :
           j > k => facts[j].session # s \/ facts[j].kind \in NoticeKinds
  PROVE  /\ Ends(facts, Upserts(s), Removals(s), now)
         /\ Ends(facts, PhaseRight(s, rec), PhaseWrong(s, rec), now)
         /\ Ends(facts, GrantRight(s, rec), GrantWrong(s, rec), now)
<1>1. facts[k] \in Events
  BY FactsTyped
<1>2. facts[k].kind = "SessionUpserted" /\ facts[k].session = s /\ facts[k].row = rec
  BY DEF Upserted
<1>3. facts[k] \in Upserts(s) /\ facts[k] \in PhaseRight(s, rec) /\ facts[k] \in GrantRight(s, rec)
  BY <1>1, <1>2 DEF Upserts, PhaseRight, PhaseTellers, PhaseTold, GrantRight, Grants
<1>4. \A j \in 1..Len(facts) : j > k => /\ facts[j] \notin Removals(s)
                                        /\ facts[j] \notin PhaseWrong(s, rec)
                                        /\ facts[j] \notin GrantWrong(s, rec)
  BY TellsNothing
<1>5. QED
  BY <1>3, <1>4 DEF Ends

\* A handler that assigns one entry, upserts it, and says no more of it than notices.
LEMMA UpsertReports ==
  ASSUME NEW s \in Sessions, NEW rec \in Session, TypeOK,
         fleet' = [fleet EXCEPT ![s] = rec],
         NEW facts, \A i \in 1..Len(facts) : facts[i].session = s,
         NEW k \in 1..Len(facts), facts[k] = Upserted(s, rec),
         \A j \in 1..Len(facts) : j > k => facts[j].kind \in NoticeKinds
  PROVE  Reports(facts)
<1>1. fleet'[s] = rec /\ \A t \in Sessions \ {s} : fleet'[t] = fleet[t]
  BY DEF TypeOK
<1>2. ASSUME NEW t \in Sessions, Known(t)', t # s
      PROVE  /\ Ends(facts, Upserts(t), Removals(t), Known(t))
             /\ Ends(facts, PhaseRight(t, fleet'[t]), PhaseWrong(t, fleet'[t]),
                     Known(t) /\ fleet'[t].phase = fleet[t].phase)
             /\ Ends(facts, GrantRight(t, fleet'[t]), GrantWrong(t, fleet'[t]),
                     Known(t) /\ Grants(fleet'[t], fleet[t]))
  <2>1. fleet'[t] = fleet[t] /\ Known(t)
    BY <1>1, <1>2 DEF Known
  <2>2. Known(t) /\ fleet'[t].phase = fleet[t].phase
    BY <2>1
  <2>3. Known(t) /\ Grants(fleet'[t], fleet[t])
    BY <2>1 DEF Grants
  <2>4. \A i \in 1..Len(facts) : facts[i].session # t \/ facts[i].kind \in NoticeKinds
    BY <1>2
  <2>5. QED
    BY <2>1, <2>2, <2>3, <2>4, SilenceEnds
<1>3. /\ Ends(facts, Upserts(s), Removals(s), Known(s))
      /\ Ends(facts, PhaseRight(s, fleet'[s]), PhaseWrong(s, fleet'[s]),
              Known(s) /\ fleet'[s].phase = fleet[s].phase)
      /\ Ends(facts, GrantRight(s, fleet'[s]), GrantWrong(s, fleet'[s]),
              Known(s) /\ Grants(fleet'[s], fleet[s]))
  BY <1>1, UpsertEnds
<1>4. QED
  BY <1>2, <1>3 DEF Reports

\* A handler that only notices, and leaves what is told of every session it keeps.
LEMMA NoticesReport ==
  ASSUME NEW facts, \A i \in 1..Len(facts) : facts[i].kind \in NoticeKinds,
         \A s \in Sessions : Known(s)' =>
           Known(s) /\ fleet'[s].phase = fleet[s].phase /\ Grants(fleet'[s], fleet[s])
  PROVE  Reports(facts)
<1> SUFFICES ASSUME NEW s \in Sessions, Known(s)'
             PROVE  /\ Ends(facts, Upserts(s), Removals(s), Known(s))
                    /\ Ends(facts, PhaseRight(s, fleet'[s]), PhaseWrong(s, fleet'[s]),
                            Known(s) /\ fleet'[s].phase = fleet[s].phase)
                    /\ Ends(facts, GrantRight(s, fleet'[s]), GrantWrong(s, fleet'[s]),
                            Known(s) /\ Grants(fleet'[s], fleet[s]))
  BY DEF Reports
<1>1. Known(s) /\ fleet'[s].phase = fleet[s].phase /\ Grants(fleet'[s], fleet[s])
  OBVIOUS
<1>2. \A i \in 1..Len(facts) : facts[i].session # s \/ facts[i].kind \in NoticeKinds
  OBVIOUS
<1>3. QED
  BY <1>1, <1>2, SilenceEnds

\* What a forgotten session's removal tells is of no session of the fleet.
LEMMA RemovalReports ==
  ASSUME TypeOK, NEW s \in Sessions, fleet' = [fleet EXCEPT ![s] = Absent]
  PROVE  Reports(<<Removed(s)>>)
<1> DEFINE facts == <<Removed(s)>>
<1>1. \A i \in 1..Len(facts) : facts[i].session = s
  BY DEF Removed
<1> HIDE DEF facts
<1> SUFFICES ASSUME NEW t \in Sessions, Known(t)'
             PROVE  /\ Ends(facts, Upserts(t), Removals(t), Known(t))
                    /\ Ends(facts, PhaseRight(t, fleet'[t]), PhaseWrong(t, fleet'[t]),
                            Known(t) /\ fleet'[t].phase = fleet[t].phase)
                    /\ Ends(facts, GrantRight(t, fleet'[t]), GrantWrong(t, fleet'[t]),
                            Known(t) /\ Grants(fleet'[t], fleet[t]))
  BY DEF Reports, facts
<1>2. t # s /\ fleet'[t] = fleet[t] /\ Known(t)
  BY DEF TypeOK, Known
<1>3. Known(t) /\ fleet'[t].phase = fleet[t].phase /\ Grants(fleet'[t], fleet[t])
  BY <1>2 DEF Grants
<1>4. \A i \in 1..Len(facts) : facts[i].session # t \/ facts[i].kind \in NoticeKinds
  BY <1>1, <1>2
<1>5. QED
  BY <1>3, <1>4, SilenceEnds

\* The thin fact tells the phase, and leaves the rest as it was told.
LEMMA ThinReports ==
  ASSUME TypeOK, NEW s \in Sessions, Known(s), NEW p \in Phases,
         fleet' = [fleet EXCEPT ![s] = [fleet[s] EXCEPT !.phase = p]]
  PROVE  Reports(<<PhaseTransitioned(s, p)>>)
<1> DEFINE e     == PhaseTransitioned(s, p)
           facts == <<e>>
<1>1. /\ Len(facts) = 1 /\ facts[1] = e
      /\ \A i \in 1..Len(facts) : facts[i] = e
  OBVIOUS
<1>2. e \in Events /\ e.session = s /\ e.kind = "PhaseTransitioned" /\ e.phase = p
  BY FactsTyped DEF PhaseTransitioned
<1> HIDE DEF e, facts
<1>3. fleet[s] \in Session
  BY DEF TypeOK, Known
<1>4. /\ fleet'[s].phase = p /\ Grants(fleet'[s], fleet[s])
      /\ \A t \in Sessions \ {s} : fleet'[t] = fleet[t]
  BY <1>3 DEF TypeOK, Grants, Session
<1> SUFFICES ASSUME NEW t \in Sessions, Known(t)'
             PROVE  /\ Ends(facts, Upserts(t), Removals(t), Known(t))
                    /\ Ends(facts, PhaseRight(t, fleet'[t]), PhaseWrong(t, fleet'[t]),
                            Known(t) /\ fleet'[t].phase = fleet[t].phase)
                    /\ Ends(facts, GrantRight(t, fleet'[t]), GrantWrong(t, fleet'[t]),
                            Known(t) /\ Grants(fleet'[t], fleet[t]))
  BY DEF Reports, facts, e
<1>5. CASE t # s
  <2>1. Known(t) /\ fleet'[t].phase = fleet[t].phase /\ Grants(fleet'[t], fleet[t])
    BY <1>4, <1>5 DEF Known, Grants
  <2>2. \A i \in 1..Len(facts) : facts[i].session # t \/ facts[i].kind \in NoticeKinds
    BY <1>1, <1>2, <1>5
  <2>3. QED
    BY <2>1, <2>2, SilenceEnds
<1>6. CASE t = s
  <2>1. \A i \in 1..Len(facts) :
          facts[i] \notin Removals(s) /\ facts[i] \notin GrantWrong(s, fleet'[s])
    BY <1>1, <1>2 DEF Removals, GrantWrong, Upserts
  <2>2. facts[1] \in PhaseRight(s, fleet'[s])
    BY <1>1, <1>2, <1>4 DEF PhaseRight, PhaseTellers, PhaseTold
  <2>3. \A j \in 1..Len(facts) : j > 1 => facts[j] \notin PhaseWrong(s, fleet'[s])
    BY <1>1
  <2>4. 1 \in 1..Len(facts)
    BY <1>1
  <2>5. QED
    BY <1>4, <1>6, <2>1, <2>2, <2>3, <2>4 DEF Ends
<1>7. QED
  BY <1>5, <1>6

\* An ordering of some sessions names each of them.
LEMMA OrderingNamesAll ==
  ASSUME NEW S \in SUBSET Sessions, NEW order \in Orderings(S)
  PROVE  /\ Cardinality(S) \in Nat /\ order \in [1..Cardinality(S) -> S]
         /\ \A s \in S : \E i \in 1..Cardinality(S) : order[i] = s
         /\ \A i, j \in 1..Cardinality(S) : order[i] = order[j] => i = j
<1> DEFINE n == Cardinality(S)
<1>1. IsFiniteSet(S) /\ n \in Nat
  BY SupervisorAssumption, FS_Subset, FS_CardinalityType
<1>2. order \in [1..n -> S] /\ \A i, j \in 1..n : order[i] = order[j] => i = j
  BY DEF Orderings
<1> HIDE DEF n
<1>3. order \in Injection(1..n, S)
  BY <1>2 DEF Injection, IsInjective
<1>4. Cardinality(1..n) = n
  BY <1>1, FS_Interval
<1>5. Cardinality(1..n) = Cardinality(S)
  BY <1>4 DEF n
<1>6. order \in Surjection(1..n, S)
  BY <1>1, <1>3, <1>5, FS_Injection
<1>7. \A s \in S : \E i \in 1..n : order[i] = s
  BY <1>6 DEF Surjection
<1>8. QED
  BY <1>1, <1>2, <1>7 DEF n

\* Rows upserted one by one tell all of every session they are of.
LEMMA UpsertAllEnds ==
  ASSUME NEW S \in SUBSET Sessions, NEW order \in Orderings(S), NEW live, NEW s \in S, NEW now,
         \A t \in S : live[t] \in Session
  PROVE  /\ Ends(UpsertAll(order, live), Upserts(s), Removals(s), now)
         /\ Ends(UpsertAll(order, live), PhaseRight(s, live[s]), PhaseWrong(s, live[s]), now)
         /\ Ends(UpsertAll(order, live), GrantRight(s, live[s]), GrantWrong(s, live[s]), now)
<1> DEFINE facts == UpsertAll(order, live)
           n     == Cardinality(S)
<1>1. /\ n \in Nat /\ order \in [1..n -> S]
      /\ \A i, j \in 1..n : order[i] = order[j] => i = j
  BY OrderingNamesAll
<1>2. facts = [i \in 1..n |-> Upserted(order[i], live[order[i]])]
  BY <1>1 DEF UpsertAll
<1>3. PICK k \in 1..n : order[k] = s
  BY OrderingNamesAll
<1>4. Len(facts) = n
  BY <1>1, <1>2, UpsertAllTyped
<1> HIDE DEF facts, n
<1>5. \A i \in 1..n : facts[i].session = order[i]
  BY <1>2 DEF Upserted
<1>6. facts[k] = Upserted(s, live[s]) /\ live[s] \in Session
  BY <1>2, <1>3
<1>7. \A j \in 1..n : j > k => facts[j].session # s
  BY <1>1, <1>3, <1>5
<1>8. QED
  BY <1>3, <1>4, <1>6, <1>7, UpsertEnds DEF facts

-----------------------------------------------------------------------------
(* Publishing what is so *)

\* The facts that tell right and wrong of a row depend on the phase and the grants.
LEMMA TellersOfSame ==
  ASSUME NEW s, NEW rec, NEW old
  PROVE  /\ rec.phase = old.phase => /\ PhaseRight(s, rec) = PhaseRight(s, old)
                                     /\ PhaseWrong(s, rec) = PhaseWrong(s, old)
         /\ Grants(rec, old) => /\ GrantRight(s, rec) = GrantRight(s, old)
                                /\ GrantWrong(s, rec) = GrantWrong(s, old)
BY DEF PhaseRight, PhaseWrong, GrantRight, GrantWrong, Grants

\* A receiver of the bus that is not told of a gap has all that was published.
LEMMA PublishedWhole ==
  ASSUME TypeOK, NEW r \in Receivers, NEW facts \in Seq(Events), Publish(facts), ~bus'[r].lagged
  PROVE  ~bus[r].lagged /\ Queue(r) \in Seq(Events) /\ Queue(r)' = Queue(r) \o facts
<1>1. bus[r] \in Channel(Events)
  BY DEF TypeOK
<1>2. bus'[r] = Deliver(bus[r], facts)
  BY DEF Publish
<1>3. bus[r].lagged \in BOOLEAN /\ bus[r].queue \in Seq(Events)
  BY <1>1 DEF Channel
<1>4. ~Deliver(bus[r], facts).lagged
  BY <1>2
<1>5. ~bus[r].lagged /\ Deliver(bus[r], facts).queue = bus[r].queue \o facts
  BY <1>4 DEF Deliver
<1>6. QED
  BY <1>2, <1>3, <1>5 DEF Queue

\* Facts that report what they lead to keep both folds ending right, whatever is dropped.
LEMMA ReportedKeeps ==
  ASSUME TypeOK, FoldsEndRight, PolicyEndsRight, NEW facts \in Seq(Events),
         Publish(facts), Reports(facts), UNCHANGED <<gate, view, policy, policyFolds>>,
         ~Resynchronising' => ~Resynchronising
  PROVE  FoldsEndRight' /\ PolicyEndsRight'
<1>1. "readmodels" \in Receivers /\ "policy" \in Receivers
  BY DaemonAssumption
<1>2. ASSUME ~bus'["readmodels"].lagged, ~Resynchronising', NEW s \in Sessions, Known(s)'
      PROVE  WillList(s)' /\ WillPhase(s)' /\ WillGrant(s)'
  <2> DEFINE q == Queue("readmodels")
  <2>1. ~bus["readmodels"].lagged /\ q \in Seq(Events) /\ Queue("readmodels")' = q \o facts
    BY <1>1, <1>2, PublishedWhole
  <2>2. /\ Ends(facts, Upserts(s), Removals(s), Known(s))
        /\ Ends(facts, PhaseRight(s, fleet'[s]), PhaseWrong(s, fleet'[s]),
                Known(s) /\ fleet'[s].phase = fleet[s].phase)
        /\ Ends(facts, GrantRight(s, fleet'[s]), GrantWrong(s, fleet'[s]),
                Known(s) /\ Grants(fleet'[s], fleet[s]))
    BY <1>2 DEF Reports
  <2>3. Known(s) => WillList(s) /\ WillPhase(s) /\ WillGrant(s)
    BY <1>2, <2>1 DEF FoldsEndRight
  <2> HIDE DEF q
  <2>4. WillList(s)'
    <3> DEFINE now == gate[s] # Absent /\ view[s] # Absent
    <3>1. Known(s) => Ends(q, Upserts(s), Removals(s), now)
      BY <2>3 DEF WillList, q
    <3>2. Ends(q \o facts, Upserts(s), Removals(s), now)
      <4> HIDE DEF now
      <4> QED BY <2>1, <2>2, <3>1, EndsOfBoth
    <3>3. QED
      BY <2>1, <3>2 DEF WillList
  <2>5. WillPhase(s)'
    <3> DEFINE now == gate[s] # Absent => gate[s].phase = fleet'[s].phase
               keep == Known(s) /\ fleet'[s].phase = fleet[s].phase
    <3>1. keep => Ends(q, PhaseRight(s, fleet'[s]), PhaseWrong(s, fleet'[s]), now)
      BY <2>3, TellersOfSame DEF WillPhase, q
    <3>2. Ends(q \o facts, PhaseRight(s, fleet'[s]), PhaseWrong(s, fleet'[s]), now)
      <4>1. Ends(facts, PhaseRight(s, fleet'[s]), PhaseWrong(s, fleet'[s]), keep)
        BY <2>2
      <4> HIDE DEF now, keep
      <4> QED BY <2>1, <4>1, <3>1, EndsOfBoth
    <3>3. QED
      BY <2>1, <3>2 DEF WillPhase
  <2>6. WillGrant(s)'
    <3> DEFINE now == gate[s] # Absent => /\ gate[s].trust = fleet'[s].trust_tier
                                          /\ gate[s].adopted = fleet'[s].adopted
               keep == Known(s) /\ Grants(fleet'[s], fleet[s])
    <3>1. keep => Ends(q, GrantRight(s, fleet'[s]), GrantWrong(s, fleet'[s]), now)
      BY <2>3, TellersOfSame DEF WillGrant, q, Grants
    <3>2. Ends(q \o facts, GrantRight(s, fleet'[s]), GrantWrong(s, fleet'[s]), now)
      <4>1. Ends(facts, GrantRight(s, fleet'[s]), GrantWrong(s, fleet'[s]), keep)
        BY <2>2
      <4> HIDE DEF now, keep
      <4> QED BY <2>1, <4>1, <3>1, EndsOfBoth
    <3>3. QED
      BY <2>1, <3>2 DEF WillGrant
  <2>7. QED
    BY <2>4, <2>5, <2>6
<1>3. ASSUME policyFolds', ~bus'["policy"].lagged, NEW s \in Sessions, Known(s)'
      PROVE  WillDecide(s)'
  <2> DEFINE q == Queue("policy")
  <2>1. ~bus["policy"].lagged /\ q \in Seq(Events) /\ Queue("policy")' = q \o facts
    BY <1>1, <1>3, PublishedWhole
  <2>2. /\ Ends(facts, PhaseRight(s, fleet'[s]), PhaseWrong(s, fleet'[s]),
                Known(s) /\ fleet'[s].phase = fleet[s].phase)
        /\ Ends(facts, GrantRight(s, fleet'[s]), GrantWrong(s, fleet'[s]),
                Known(s) /\ Grants(fleet'[s], fleet[s]))
    BY <1>3 DEF Reports
  <2>3. Known(s) => WillDecide(s)
    BY <1>3, <2>1 DEF PolicyEndsRight
  <2> HIDE DEF q
  <2> DEFINE nowPhase == policy[s] # Absent => policy[s].phase = fleet'[s].phase
             nowTier  == policy[s] # Absent => policy[s].trust_tier = fleet'[s].trust_tier
             samePhase == Known(s) /\ fleet'[s].phase = fleet[s].phase
             sameTier  == Known(s) /\ Grants(fleet'[s], fleet[s])
  <2>4. /\ samePhase => Ends(q, PhaseRight(s, fleet'[s]), PhaseWrong(s, fleet'[s]), nowPhase)
        /\ sameTier => Ends(q, GrantRight(s, fleet'[s]), GrantWrong(s, fleet'[s]), nowTier)
    BY <2>3, TellersOfSame DEF WillDecide, q, Grants
  <2>5. /\ Ends(facts, PhaseRight(s, fleet'[s]), PhaseWrong(s, fleet'[s]), samePhase)
        /\ Ends(facts, GrantRight(s, fleet'[s]), GrantWrong(s, fleet'[s]), sameTier)
    BY <2>2
  <2>6. /\ Ends(q \o facts, PhaseRight(s, fleet'[s]), PhaseWrong(s, fleet'[s]), nowPhase)
        /\ Ends(q \o facts, GrantRight(s, fleet'[s]), GrantWrong(s, fleet'[s]), nowTier)
    <3> HIDE DEF nowPhase, nowTier, samePhase, sameTier
    <3> QED BY <2>1, <2>4, <2>5, EndsOfBoth
  <2>7. QED
    BY <2>1, <2>6 DEF WillDecide
<1>4. QED
  BY <1>2, <1>3 DEF FoldsEndRight, PolicyEndsRight

-----------------------------------------------------------------------------
(* The handlers report *)

\* A handler publishes facts, and they report what it did.
Reported == \E facts \in Seq(Events) : Publish(facts) /\ Reports(facts)

\* Facts that keep every entry and only notice it.
LEMMA NoticeReported ==
  ASSUME NEW facts \in Seq(Events), Publish(facts),
         \A i \in 1..Len(facts) : facts[i].kind \in NoticeKinds,
         \A s \in Sessions : Known(s)' =>
           Known(s) /\ fleet'[s].phase = fleet[s].phase /\ Grants(fleet'[s], fleet[s])
  PROVE  Reported
<1>1. Reports(facts)
  BY NoticesReport
<1>2. QED
  BY <1>1 DEF Reported

\* A handler that only publishes notices (supervisor.rs, the arms that move nothing).
LEMMA OnlyNoticed ==
  ASSUME NEW s \in Sessions, NEW kind \in NoticeKinds, Publish(<<Notice(kind, s)>>),
         UNCHANGED fleet
  PROVE  Reported
<1> DEFINE facts == <<Notice(kind, s)>>
<1>1. facts \in Seq(Events)
  BY FactsTyped
<1>2. \A i \in 1..Len(facts) : facts[i].kind \in NoticeKinds
  BY DEF Notice
<1>3. Publish(facts)
  OBVIOUS
<1> HIDE DEF facts
<1>4. QED
  BY <1>1, <1>2, <1>3, NoticeReported DEF Known, Grants

\* The row assigned is the row published (supervisor.rs, the arms of a field).
LEMMA UpsertReported ==
  ASSUME TypeOK, NEW s \in Sessions, NEW rec \in Session,
         fleet' = [fleet EXCEPT ![s] = rec], Publish(<<Upserted(s, rec)>>)
  PROVE  Reported
<1> DEFINE facts == <<Upserted(s, rec)>>
<1>1. facts \in Seq(Events) /\ Len(facts) = 1
  BY FactsTyped
<1>2. 1 \in 1..Len(facts) /\ \A j \in 1..Len(facts) : ~(j > 1)
  BY <1>1
<1>3. facts[1] = Upserted(s, rec) /\ \A i \in 1..Len(facts) : facts[i].session = s
  BY <1>1 DEF Upserted
<1>4. Publish(facts)
  OBVIOUS
<1> HIDE DEF facts
<1>5. Reports(facts)
  BY <1>2, <1>3, UpsertReports
<1>6. QED
  BY <1>1, <1>4, <1>5 DEF Reported

\* One fact behind another.
LEMMA TwoFacts ==
  ASSUME NEW a, NEW b
  PROVE  <<a>> \o <<b>> = <<a, b>>
<1> DEFINE S    == {a, b}
           both == <<a>> \o <<b>>
           pair == <<a, b>>
<1>1. <<a>> \in Seq(S) /\ <<b>> \in Seq(S)
  OBVIOUS
<1>2. pair \in Seq(S) /\ Len(pair) = 2 /\ pair[1] = a /\ pair[2] = b
  OBVIOUS
<1>3. both \in Seq(S) /\ Len(both) = 2 /\ both[1] = a /\ both[2] = b
  BY <1>1, ConcatProperties
<1> HIDE DEF S, both, pair
<1>4. \A k \in 1..Len(both) : both[k] = pair[k]
  BY <1>2, <1>3
<1>5. both = pair
  BY <1>2, <1>3, <1>4, SeqEqual
<1>6. QED
  BY <1>5 DEF both, pair

\* The facts of a phase that moves: its row, then notices, all of the one session
\* (supervisor.rs apply_phase).
LEMMA PhaseFactsShape ==
  ASSUME NEW s \in Sessions, NEW rec \in Session, NEW p \in Phases, NEW pin \in BOOLEAN
  PROVE  LET facts == PhaseFacts(s, rec, p, pin) IN
         /\ facts[1] = Upserted(s, InPhase(rec, p, pin)) /\ Len(facts) \in Nat /\ Len(facts) >= 1
         /\ \A i \in 1..Len(facts) : facts[i].session = s
         /\ \A i \in 1..Len(facts) : i > 1 => facts[i].kind \in NoticeKinds
<1> DEFINE up    == Upserted(s, InPhase(rec, p, pin))
           aim   == Notice("AuditAppended", s)
           ready == Notice("ReviewReady", s)
<1>1. /\ up.session = s /\ aim.session = s /\ ready.session = s
      /\ aim.kind \in NoticeKinds /\ ready.kind \in NoticeKinds
  BY DEF Upserted, Notice, NoticeKinds
<1>2. \/ PhaseFacts(s, rec, p, pin) = <<up>>
      \/ PhaseFacts(s, rec, p, pin) = <<up, aim>>
      \/ PhaseFacts(s, rec, p, pin) = <<up, ready>>
  <2> DEFINE xs == IF p = "Plan" /\ rec.phase # "Plan" THEN <<aim>> ELSE <<>>
             ys == IF p = "Review" THEN <<ready>> ELSE <<>>
  <2>1. PhaseFacts(s, rec, p, pin) = <<up>> \o xs \o ys
    BY DEF PhaseFacts
  <2>2. \/ xs = <<aim>> /\ ys = <<>>
        \/ xs = <<>> /\ ys = <<ready>>
        \/ xs = <<>> /\ ys = <<>>
    OBVIOUS
  <2> HIDE DEF up, aim, ready, xs, ys
  <2>3. <<up>> \o <<>> = <<up>> /\ <<up, aim>> \o <<>> = <<up, aim>>
    <3>1. <<up>> \in Seq({up}) /\ <<up, aim>> \in Seq({up, aim})
      OBVIOUS
    <3>2. QED
      BY <3>1, ConcatEmptySeq
  <2>4. \A a, b : <<a>> \o <<b>> = <<a, b>>
    BY TwoFacts
  <2>5. QED
    BY <2>1, <2>2, <2>3, <2>4
<1> HIDE DEF up, aim, ready
<1>3. QED
  BY <1>1, <1>2 DEF up

\* A phase that moves is reported by its row, with a status before it or not.
LEMMA PhaseReported ==
  ASSUME TypeOK, NEW s \in Sessions, NEW rec \in Session, NEW p \in Phases, NEW pin \in BOOLEAN,
         fleet' = [fleet EXCEPT ![s] = InPhase(rec, p, pin)],
         \/ Publish(PhaseFacts(s, rec, p, pin))
         \/ Publish(<<Notice("SessionStateChanged", s)>> \o PhaseFacts(s, rec, p, pin))
  PROVE  Reported
<1> DEFINE facts == PhaseFacts(s, rec, p, pin)
           told  == Notice("SessionStateChanged", s)
           all   == <<told>> \o facts
<1>1. /\ facts[1] = Upserted(s, InPhase(rec, p, pin)) /\ Len(facts) \in Nat /\ Len(facts) >= 1
      /\ \A i \in 1..Len(facts) : facts[i].session = s
      /\ \A i \in 1..Len(facts) : i > 1 => facts[i].kind \in NoticeKinds
  BY PhaseFactsShape
<1>2. facts \in Seq(Events) /\ InPhase(rec, p, pin) \in Session
  BY PhaseFactsTyped, AmendedIsSession
<1>3. told \in Events /\ told.session = s
  BY FactsTyped DEF Notice, NoticeKinds
<1> HIDE DEF facts, told
<1>4. CASE Publish(facts)
  <2>1. 1 \in 1..Len(facts)
    BY <1>1
  <2>2. Reports(facts)
    BY <1>1, <1>2, <2>1, UpsertReports
  <2>3. QED
    BY <1>2, <1>4, <2>2 DEF Reported
<1>5. CASE Publish(all)
  <2>1. <<told>> \in Seq(Events) /\ Len(<<told>>) = 1 /\ <<told>>[1] = told
    BY <1>3
  <2>2. /\ all \in Seq(Events) /\ Len(all) = 1 + Len(facts)
        /\ \A i \in 1..Len(all) : all[i] = IF i <= 1 THEN <<told>>[i] ELSE facts[i - 1]
    BY <1>2, <2>1, ConcatProperties
  <2> HIDE DEF all
  <2>3. 2 \in 1..Len(all) /\ all[2] = facts[1]
    BY <1>1, <2>2
  <2>4. ASSUME NEW i \in 1..Len(all)
        PROVE  all[i].session = s /\ (i > 2 => all[i].kind \in NoticeKinds)
    <3>1. CASE i = 1
      BY <1>3, <2>1, <2>2, <3>1
    <3>2. CASE i > 1
      <4>1. i - 1 \in 1..Len(facts) /\ all[i] = facts[i - 1] /\ (i > 2 => i - 1 > 1)
        BY <1>1, <2>2, <3>2
      <4>2. QED
        BY <1>1, <4>1
    <3>3. QED
      BY <3>1, <3>2
  <2>5. Reports(all)
    BY <1>1, <1>2, <2>3, <2>4, UpsertReports
  <2>6. QED
    BY <1>5, <2>2, <2>5 DEF Reported
<1>6. QED
  BY <1>4, <1>5 DEF facts, told

\* Whatever phase an operator's command moves to is reported.
LEMMA ApplyPhaseReported ==
  ASSUME TypeOK, NEW s \in Sessions, NEW p \in Phases, NEW pin \in BOOLEAN, ApplyPhase(s, p, pin)
  PROVE  Reported
<1>1. fleet[s] \in Session
  BY DEF ApplyPhase, Known, TypeOK
<1>2. fleet' = [fleet EXCEPT ![s] = InPhase(fleet[s], p, pin)]
      /\ Publish(PhaseFacts(s, fleet[s], p, pin))
  BY DEF ApplyPhase
<1>3. QED
  BY <1>1, <1>2, PhaseReported

\* A row amended is reported.
LEMMA AmendReported ==
  ASSUME TypeOK, NEW s \in Sessions, NEW rec \in Session, Amend(s, rec)
  PROVE  Reported
BY UpsertReported DEF Amend

\* Every command the loop serves reports what it did (supervisor.rs handle_command).
LEMMA HandledReported ==
  ASSUME TypeOK, NEW c \in SessionCommands, Handled(c)
  PROVE  Reported
<1> DEFINE s == c.session
<1>1. s \in Sessions /\ c.op # "RepublishFleet"
  BY DEF SessionCommands
<1>2. Known(s) => fleet[s] \in Session
  BY <1>1 DEF Known, TypeOK
<1>3. CASE c.op = "SetAdopted" /\ SetAdopted(s, c.adopted)
  <2>1. c.adopted \in BOOLEAN
    BY <1>3 DEF SessionCommands
  <2>2. [fleet[s] EXCEPT !.adopted = c.adopted] \in Session
    BY <1>2, <1>3, <2>1, AmendedIsSession DEF SetAdopted
  <2>3. QED
    BY <1>1, <1>3, <2>2, AmendReported DEF SetAdopted
<1>4. CASE c.op = "ToggleAdoption" /\ ToggleAdoption(s)
  <2>1. (~fleet[s].adopted) \in BOOLEAN /\ fleet[s] \in Session
    BY <1>2, <1>4 DEF ToggleAdoption
  <2>2. [fleet[s] EXCEPT !.adopted = ~fleet[s].adopted] \in Session
    BY <2>1, AmendedIsSession
  <2>3. Amend(s, [fleet[s] EXCEPT !.adopted = ~fleet[s].adopted])
    BY <1>4 DEF ToggleAdoption
  <2>4. QED
    BY <1>1, <2>2, <2>3, AmendReported
<1>5. CASE c.op = "SetTrust" /\ SetTrust(s, c.tier)
  <2>1. c.tier \in Tiers
    BY <1>5 DEF SessionCommands
  <2>2. [fleet[s] EXCEPT !.trust_tier = c.tier] \in Session
    BY <1>2, <1>5, <2>1, AmendedIsSession DEF SetTrust
  <2>3. QED
    BY <1>1, <1>5, <2>2, AmendReported DEF SetTrust
<1>6. CASE c.op = "TogglePause" /\ TogglePause(s)
  <2>1. (~fleet[s].paused) \in BOOLEAN /\ fleet[s] \in Session
    BY <1>2, <1>6 DEF TogglePause
  <2>2. [fleet[s] EXCEPT !.paused = ~fleet[s].paused] \in Session
    BY <2>1, AmendedIsSession
  <2>3. Amend(s, [fleet[s] EXCEPT !.paused = ~fleet[s].paused])
    BY <1>6 DEF TogglePause
  <2>4. QED
    BY <1>1, <2>2, <2>3, AmendReported
<1>7. CASE c.op = "SetPhasePinned" /\ SetPhasePinned(s, c.pinned)
  <2>1. c.pinned \in BOOLEAN
    BY <1>7 DEF SessionCommands
  <2>2. [fleet[s] EXCEPT !.phase_pinned = c.pinned] \in Session
    BY <1>2, <1>7, <2>1, AmendedIsSession DEF SetPhasePinned
  <2>3. QED
    BY <1>1, <1>7, <2>2, AmendReported DEF SetPhasePinned
<1>8. CASE c.op = "SetPhase" /\ SetPhase(s, c.phase)
  <2>1. c.phase \in Phases
    BY <1>8 DEF SessionCommands
  <2>2. QED
    BY <1>1, <1>8, <2>1, ApplyPhaseReported DEF SetPhase
<1>9. CASE c.op = "AdvancePhase" /\ AdvancePhase(s)
  <2>1. NextPhase(fleet[s].phase) \in Phases
    BY <1>2, <1>9, SessionFields, NextPhaseTyped DEF AdvancePhase
  <2>2. QED
    BY <1>1, <1>9, <2>1, ApplyPhaseReported DEF AdvancePhase
<1>10. CASE c.op = "ApprovePlan" /\ ApprovePlan(s)
  <2>1. NextPhase("Plan") \in Phases
    BY NextPhaseTyped DEF Phases
  <2>2. CASE Publish(<<Notice("PhaseAdvanceRequested", s)>>) /\ UNCHANGED <<fleet, store>>
    BY <1>1, <2>2, OnlyNoticed DEF NoticeKinds
  <2>3. CASE ApplyPhase(s, NextPhase("Plan"), FALSE)
    BY <1>1, <2>1, <2>3, ApplyPhaseReported
  <2>4. QED
    BY <1>10, <2>2, <2>3 DEF ApprovePlan
<1>11. CASE c.op = "ForgetSession" /\ ForgetSession(s)
  <2>1. fleet' = [fleet EXCEPT ![s] = Absent] /\ Publish(<<Removed(s)>>)
    BY <1>11 DEF ForgetSession
  <2>2. Reports(<<Removed(s)>>)
    BY <1>1, <2>1, RemovalReports
  <2>3. <<Removed(s)>> \in Seq(Events)
    BY <1>1, FactsTyped
  <2>4. QED
    BY <2>1, <2>2, <2>3 DEF Reported
<1>12. QED
  BY <1>1, <1>3, <1>4, <1>5, <1>6, <1>7, <1>8, <1>9, <1>10, <1>11 DEF Handled

\* A working directory that moves is reported, and so is the adoption its root calls for
\* (supervisor.rs on_detection, maybe_auto_adopt).
LEMMA WorkspaceReported ==
  ASSUME TypeOK, NEW s \in Sessions, NEW root \in Roots, WorkspaceObserved(s, root)
  PROVE  Reported
<1> DEFINE moved   == [fleet[s] EXCEPT !.root = root]
           adopted == [moved EXCEPT !.adopted = TRUE]
           facts   == IF moved # fleet[s] THEN <<Upserted(s, moved)>> ELSE <<>>
<1>1. moved \in Session
  BY AmendedIsSession DEF WorkspaceObserved, Known, TypeOK
<1>2. adopted \in Session
  <2> HIDE DEF moved
  <2> QED BY <1>1, AmendedIsSession
<1>3. \/ /\ fleet' = [fleet EXCEPT ![s] = adopted]
         /\ Publish(facts \o <<Upserted(s, adopted)>>)
      \/ fleet' = [fleet EXCEPT ![s] = moved] /\ moved # fleet[s] /\ Publish(facts)
  BY DEF WorkspaceObserved
<1>4. \/ facts = <<Upserted(s, moved)>>
      \/ moved = fleet[s] /\ facts = <<>>
  OBVIOUS
<1> HIDE DEF moved, adopted, facts
<1>5. CASE fleet' = [fleet EXCEPT ![s] = moved] /\ Publish(<<Upserted(s, moved)>>)
  BY <1>1, <1>5, UpsertReported
<1>6. CASE fleet' = [fleet EXCEPT ![s] = adopted] /\ Publish(<<>> \o <<Upserted(s, adopted)>>)
  <2>1. <<Upserted(s, adopted)>> \in Seq(Events)
    BY <1>2, FactsTyped
  <2>2. Publish(<<Upserted(s, adopted)>>)
    BY <1>6, <2>1, ConcatEmptySeq
  <2>3. QED
    BY <1>2, <1>6, <2>2, UpsertReported
<1>7. CASE /\ fleet' = [fleet EXCEPT ![s] = adopted]
           /\ Publish(<<Upserted(s, moved)>> \o <<Upserted(s, adopted)>>)
  <2> DEFINE both == <<Upserted(s, moved), Upserted(s, adopted)>>
  <2>1. Publish(both)
    BY <1>7, TwoFacts
  <2>2. Upserted(s, moved) \in Events /\ Upserted(s, adopted) \in Events
    BY <1>1, <1>2, FactsTyped
  <2>3. both \in Seq(Events) /\ Len(both) = 2 /\ both[2] = Upserted(s, adopted)
    BY <2>2
  <2>4. \A i \in 1..Len(both) : both[i].session = s
    BY <2>3 DEF Upserted
  <2> HIDE DEF both
  <2>5. 2 \in 1..Len(both) /\ \A j \in 1..Len(both) : ~(j > 2)
    BY <2>3
  <2>6. Reports(both)
    BY <1>2, <1>7, <2>3, <2>4, <2>5, UpsertReports
  <2>7. QED
    BY <2>1, <2>3, <2>6 DEF Reported
<1>8. QED
  BY <1>3, <1>4, <1>5, <1>6, <1>7

\* A status is noticed, and the phase a done checkpoint moves is reported
\* (supervisor.rs apply_status).
LEMMA StatusReported ==
  ASSUME TypeOK, NEW s \in Sessions, NEW status \in Statuses, StatusChanged(s, status)
  PROVE  Reported
<1> DEFINE rec  == [fleet[s] EXCEPT !.status = status]
           told == Notice("SessionStateChanged", s)
           asks == Notice("PhaseAdvanceRequested", s)
           next == NextPhase(rec.phase)
<1>1. fleet[s] \in Session /\ Known(s)
  BY DEF StatusChanged, Known, TypeOK
<1>2. /\ rec \in Session /\ rec.phase = fleet[s].phase
      /\ rec.trust_tier = fleet[s].trust_tier /\ rec.adopted = fleet[s].adopted
  BY <1>1, AmendedIsSession DEF Session
<1>3. next \in Phases
  <2> HIDE DEF rec
  <2> QED BY <1>2, SessionFields, NextPhaseTyped
<1>4. \/ /\ fleet' = [fleet EXCEPT ![s] = rec]
         /\ Publish(<<told>>) \/ Publish(<<told, asks>>)
      \/ /\ fleet' = [fleet EXCEPT ![s] = InPhase(rec, next, FALSE)]
         /\ Publish(<<told>> \o PhaseFacts(s, rec, next, FALSE))
  BY DEF StatusChanged
<1>5. /\ told \in Events /\ told.kind \in NoticeKinds
      /\ asks \in Events /\ asks.kind \in NoticeKinds
  BY FactsTyped DEF Notice, NoticeKinds
<1> HIDE DEF rec, told, asks, next
<1>6. /\ <<told>> \in Seq(Events) /\ <<told, asks>> \in Seq(Events)
      /\ \A i \in 1..Len(<<told>>) : <<told>>[i].kind \in NoticeKinds
      /\ \A i \in 1..Len(<<told, asks>>) : <<told, asks>>[i].kind \in NoticeKinds
  BY <1>5
<1>7. CASE /\ fleet' = [fleet EXCEPT ![s] = rec]
           /\ Publish(<<told>>) \/ Publish(<<told, asks>>)
  <2>1. ASSUME NEW t \in Sessions, Known(t)'
        PROVE  Known(t) /\ fleet'[t].phase = fleet[t].phase /\ Grants(fleet'[t], fleet[t])
    BY <1>1, <1>2, <1>7, <2>1 DEF Known, Grants, TypeOK
  <2>2. CASE Publish(<<told>>)
    BY <1>6, <2>1, <2>2, NoticeReported
  <2>3. CASE Publish(<<told, asks>>)
    BY <1>6, <2>1, <2>3, NoticeReported
  <2>4. QED
    BY <1>7, <2>2, <2>3
<1>8. CASE /\ fleet' = [fleet EXCEPT ![s] = InPhase(rec, next, FALSE)]
           /\ Publish(<<told>> \o PhaseFacts(s, rec, next, FALSE))
  BY <1>2, <1>3, <1>8, PhaseReported DEF told
<1>9. QED
  BY <1>4, <1>7, <1>8

\* Every observation reports what it did (supervisor.rs on_detection).
LEMMA DetectionReported ==
  ASSUME TypeOK, NEW s \in Sessions, Detection(s)
  PROVE  Reported
<1>0. /\ Known(s) => fleet[s] \in Session
      /\ Managed(s) => store[s] \in ManagedSession
  BY DEF Known, Managed, TypeOK
<1>1. ASSUME NEW status \in Statuses, StatusChanged(s, status) PROVE Reported
  BY <1>1, StatusReported
<1>2. CASE PhaseObserved(s)
  <2>1. /\ Known(s) /\ "Plan" \in Phases
        /\ fleet' = [fleet EXCEPT ![s] = [fleet[s] EXCEPT !.phase = "Plan"]]
        /\ Publish(<<PhaseTransitioned(s, "Plan")>>)
    BY <1>2 DEF PhaseObserved, Phases
  <2>2. Reports(<<PhaseTransitioned(s, "Plan")>>)
    BY <2>1, ThinReports
  <2>3. <<PhaseTransitioned(s, "Plan")>> \in Seq(Events)
    BY <2>1, FactsTyped
  <2>4. QED
    BY <2>1, <2>2, <2>3 DEF Reported
<1>3. ASSUME NEW title \in Titles, TitleObserved(s, title) PROVE Reported
  BY <1>0, <1>3, AmendedIsSession, AmendReported DEF TitleObserved
<1>4. ASSUME NEW root \in Roots, WorkspaceObserved(s, root) PROVE Reported
  BY <1>4, WorkspaceReported
<1>5. CASE Discovered(s)
  <2>1. PICK rec \in Session : fleet' = [fleet EXCEPT ![s] = rec] /\ Publish(<<Upserted(s, rec)>>)
    BY <1>0, <1>5, SeededTyped DEF Discovered
  <2>2. QED
    BY <2>1, UpsertReported
<1>6. CASE Ended(s)
  <2>1. CASE /\ fleet' = [fleet EXCEPT ![s].status = "Idle"]
             /\ Publish(<<Upserted(s, [fleet[s] EXCEPT !.status = "Idle"])>>)
    <3>1. [fleet[s] EXCEPT !.status = "Idle"] \in Session
      BY <1>0, <1>6, AmendedIsSession, SupervisorAssumption DEF Ended
    <3>2. fleet' = [fleet EXCEPT ![s] = [fleet[s] EXCEPT !.status = "Idle"]]
      BY <2>1
    <3>3. QED
      BY <2>1, <3>1, <3>2, UpsertReported
  <2>2. CASE /\ fleet' = [fleet EXCEPT ![s] = Absent]
             /\ Publish(<<Notice("SessionStateChanged", s)>>)
    <3> DEFINE facts == <<Notice("SessionStateChanged", s)>>
    <3>1. Notice("SessionStateChanged", s) \in Events
      BY FactsTyped DEF NoticeKinds
    <3>2. facts \in Seq(Events) /\ \A i \in 1..Len(facts) : facts[i].kind \in NoticeKinds
      BY <3>1 DEF Notice, NoticeKinds
    <3>3. Publish(facts)
      BY <2>2
    <3>4. \A t \in Sessions : Known(t)' =>
            Known(t) /\ fleet'[t].phase = fleet[t].phase /\ Grants(fleet'[t], fleet[t])
      BY <2>2 DEF Known, Grants, TypeOK
    <3> HIDE DEF facts
    <3>5. QED
      BY <3>2, <3>3, <3>4, NoticeReported
  <2>3. QED
    BY <1>6, <2>1, <2>2 DEF Ended
<1>7. ASSUME NEW kind \in {"PlanProposed", "SummaryObserved"}, PassedOn(s, kind)
      PROVE  Reported
  <2>1. kind \in NoticeKinds
    BY DEF NoticeKinds
  <2>2. QED
    BY <1>7, <2>1, OnlyNoticed DEF PassedOn
<1>8. QED
  BY <1>1, <1>2, <1>3, <1>4, <1>5, <1>6, <1>7 DEF Detection

-----------------------------------------------------------------------------
(* Republishing and restarting                                             *)

\* A republish tells all of every session, whatever was dropped before it: the folds end
\* right from then on (main.rs, the lagged arm; supervisor.rs republish_fleet).
LEMMA RepublishEndsRight ==
  ASSUME TypeOK, PolicyEndsRight, RepublishFleet,
         UNCHANGED <<gate, view, policy, policyFolds>>
  PROVE  FoldsEndRight' /\ PolicyEndsRight'
<1> DEFINE known == {s \in Sessions : Known(s)}
<1>1. PICK order \in Orderings(known) : Publish(UpsertAll(order, fleet))
  BY DEF RepublishFleet
<1> DEFINE facts == UpsertAll(order, fleet)
<1>2. known \in SUBSET Sessions /\ \A s \in known : fleet[s] \in Session
  BY DEF Known, TypeOK
<1>3. fleet' = fleet /\ \A s \in Sessions : Known(s)' => s \in known
  BY DEF RepublishFleet, Known
<1>4. facts \in Seq(Events) /\ Publish(facts)
  BY <1>1, <1>2, UpsertAllTyped
<1>5. ASSUME NEW s \in Sessions, Known(s)', NEW now
      PROVE  /\ Ends(facts, Upserts(s), Removals(s), now)
             /\ Ends(facts, PhaseRight(s, fleet'[s]), PhaseWrong(s, fleet'[s]), now)
             /\ Ends(facts, GrantRight(s, fleet'[s]), GrantWrong(s, fleet'[s]), now)
  BY <1>2, <1>3, <1>5, UpsertAllEnds
<1> HIDE DEF facts, known
<1>6. "readmodels" \in Receivers /\ "policy" \in Receivers
  BY DaemonAssumption
<1>7. ASSUME NEW r \in Receivers, ~bus'[r].lagged, NEW s \in Sessions, Known(s)', NEW now
      PROVE  /\ Ends(Queue(r)', Upserts(s), Removals(s), now)
             /\ Ends(Queue(r)', PhaseRight(s, fleet'[s]), PhaseWrong(s, fleet'[s]), now)
             /\ Ends(Queue(r)', GrantRight(s, fleet'[s]), GrantWrong(s, fleet'[s]), now)
  <2>1. Queue(r) \in Seq(Events) /\ Queue(r)' = Queue(r) \o facts
    BY <1>4, <1>7, PublishedWhole
  <2>2. /\ Ends(facts, Upserts(s), Removals(s), FALSE)
        /\ Ends(facts, PhaseRight(s, fleet'[s]), PhaseWrong(s, fleet'[s]), FALSE)
        /\ Ends(facts, GrantRight(s, fleet'[s]), GrantWrong(s, fleet'[s]), FALSE)
    BY <1>5, <1>7
  <2>3. QED
    BY <1>4, <2>1, <2>2, EndsOfBoth
<1>8. ASSUME ~bus'["readmodels"].lagged, NEW s \in Sessions, Known(s)'
      PROVE  WillList(s)' /\ WillPhase(s)' /\ WillGrant(s)'
  BY <1>6, <1>7, <1>8 DEF WillList, WillPhase, WillGrant
<1>9. ASSUME ~bus'["policy"].lagged, NEW s \in Sessions, Known(s)' PROVE WillDecide(s)'
  BY <1>6, <1>7, <1>9 DEF WillDecide
<1>10. QED
  BY <1>8, <1>9 DEF FoldsEndRight, PolicyEndsRight

\* A process that starts hears its own hydration, and a late receiver's share of it is
\* true as far as it goes (main.rs, run_supervisor_loop, build_mcp_host).
LEMMA RestartEndsRight ==
  ASSUME TypeOK, CrashRestart, policy' = [s \in Sessions |-> Absent]
  PROVE  FoldsEndRight' /\ PolicyEndsRight'
<1> DEFINE empty == [s \in Sessions |-> Absent]
           live  == Hydrated(empty)
           rows  == Missing(empty)
<1>1. CASE fleet' = empty
  BY <1>1 DEF FoldsEndRight, PolicyEndsRight, Known
<1>2. CASE /\ fleet' = live
           /\ \E order \in Orderings(rows) : PublishAfresh(UpsertAll(order, live))
  <2>1. PICK order \in Orderings(rows) : PublishAfresh(UpsertAll(order, live))
    BY <1>2
  <2> DEFINE facts == UpsertAll(order, live)
  <2>2. rows \in SUBSET Sessions /\ \A s \in rows : live[s] \in Session
    <3>1. empty \in [Sessions -> Session \cup {Absent}]
      OBVIOUS
    <3> HIDE DEF empty
    <3>2. QED
      BY <3>1, HydratedTyped DEF Missing
  <2>3. \A s \in Sessions : Known(s)' => s \in rows
    BY <1>2 DEF Known, Hydrated, Missing
  <2> HIDE DEF live, rows, empty
  <2>4. facts \in Seq(Events)
    BY <2>2, UpsertAllTyped
  <2>5. PICK missed \in [Receivers -> 0..Len(facts)] :
          /\ \A r \in Receivers \ LateReceivers : missed[r] = 0
          /\ bus' = [r \in Receivers |->
                       Deliver(EmptyChannel, SubSeq(facts, missed[r] + 1, Len(facts)))]
    BY <2>1 DEF PublishAfresh
  <2>6. ASSUME NEW s \in Sessions, Known(s)', NEW now
        PROVE  /\ Ends(facts, Upserts(s), Removals(s), now)
               /\ Ends(facts, PhaseRight(s, fleet'[s]), PhaseWrong(s, fleet'[s]), now)
               /\ Ends(facts, GrantRight(s, fleet'[s]), GrantWrong(s, fleet'[s]), now)
    BY <1>2, <2>2, <2>3, <2>6, UpsertAllEnds
  <2>7. ASSUME NEW s \in Sessions, Known(s)', NEW i \in 1..Len(facts)
        PROVE  facts[i] \notin PhaseWrong(s, fleet'[s]) /\ facts[i] \notin GrantWrong(s, fleet'[s])
    <3>1. /\ Cardinality(rows) \in Nat /\ order \in [1..Cardinality(rows) -> rows]
      BY <2>2, OrderingNamesAll
    <3>2. facts[i] = Upserted(order[i], live[order[i]])
      BY <2>4, <3>1 DEF UpsertAll
    <3>3. facts[i].kind = "SessionUpserted" /\ facts[i].session = order[i]
          /\ facts[i].row = fleet'[order[i]]
      BY <1>2, <3>2 DEF Upserted
    <3>4. QED
      BY <3>3 DEF PhaseWrong, PhaseTold, PhaseTellers, GrantWrong, Upserts, Grants
  <2> HIDE DEF facts
  <2>8. ASSUME NEW r \in Receivers, ~bus'[r].lagged
        PROVE  /\ missed[r] + 1 \in Nat /\ missed[r] + 1 >= 1
               /\ Queue(r)' = SubSeq(facts, missed[r] + 1, Len(facts))
    <3> DEFINE heard == SubSeq(facts, missed[r] + 1, Len(facts))
    <3>1. missed[r] + 1 \in Nat /\ missed[r] + 1 >= 1
      OBVIOUS
    <3>2. heard \in Seq(Events)
      BY <2>4, <3>1, SliceIsSeq
    <3>3. bus'[r] = Deliver(EmptyChannel, heard)
      BY <2>5
    <3> HIDE DEF heard
    <3>4. bus'[r].queue = <<>> \o heard
      BY <1>2, <2>8, <3>3 DEF Deliver, EmptyChannel
    <3>5. QED
      BY <3>1, <3>2, <3>4, ConcatEmptySeq DEF Queue, heard
  <2>9. "readmodels" \in Receivers \ LateReceivers /\ "policy" \in Receivers
    BY DaemonAssumption
  <2>10. ASSUME ~bus'["readmodels"].lagged, NEW s \in Sessions, Known(s)'
         PROVE  WillList(s)' /\ WillPhase(s)' /\ WillGrant(s)'
    <3>1. Queue("readmodels")' = SubSeq(facts, 1, Len(facts))
      <4>1. missed["readmodels"] = 0
        BY <2>5, <2>9
      <4>2. missed["readmodels"] + 1 = 1
        BY <4>1
      <4>3. Queue("readmodels")' = SubSeq(facts, missed["readmodels"] + 1, Len(facts))
        BY <2>8, <2>9, <2>10
      <4>4. QED
        BY <4>2, <4>3
    <3>2. SubSeq(facts, 1, Len(facts)) = facts
      BY <2>4, SubSeqFull
    <3>3. QED
      BY <2>6, <2>10, <3>1, <3>2 DEF WillList, WillPhase, WillGrant
  <2>11. ASSUME ~bus'["policy"].lagged, NEW s \in Sessions, Known(s)' PROVE WillDecide(s)'
    <3> DEFINE m == missed["policy"] + 1
               heard == SubSeq(facts, m, Len(facts))
    <3>1. Queue("policy")' = heard /\ m \in Nat /\ m >= 1
      BY <2>8, <2>9, <2>11
    <3>2. heard \in Seq(Events) /\ Len(heard) = IF m <= Len(facts) THEN Len(facts) - m + 1 ELSE 0
      BY <2>4, <3>1, SliceIsSeq
    <3>3. Len(facts) \in Nat
      BY <2>4
    <3>4. ASSUME NEW i \in 1..Len(heard) PROVE \E k \in 1..Len(facts) : heard[i] = facts[k]
      <4>1. m + i - 1 \in 1..Len(facts) /\ m \in 1..Len(facts) /\ i \in 1..(Len(facts) - m + 1)
        BY <3>1, <3>2, <3>3
      <4>2. m \in Int /\ Len(facts) \in Int /\ \A k \in m..Len(facts) : facts[k] \in Events
        BY <2>4, <3>1, <3>3
      <4>3. heard[i] = facts[m + i - 1]
        <5> HIDE DEF m
        <5> QED BY <4>1, <4>2, SubSeqProperties
      <4>4. QED
        BY <4>1, <4>3
    <3> HIDE DEF m, heard
    <3>5. \A i \in 1..Len(heard) :
            heard[i] \notin PhaseWrong(s, fleet'[s]) /\ heard[i] \notin GrantWrong(s, fleet'[s])
      BY <2>7, <2>11, <3>4
    <3>6. policy'[s] = Absent
      OBVIOUS
    <3>7. QED
      BY <3>1, <3>5, <3>6 DEF WillDecide, Ends
  <2>12. QED
    BY <2>10, <2>11 DEF FoldsEndRight, PolicyEndsRight
<1>3. QED
  BY <1>1, <1>2 DEF CrashRestart

-----------------------------------------------------------------------------
(* The folds                                                               *)

\* The facts a fold acts on, by what they are.
LEMMA FactCases ==
  ASSUME NEW e \in Events
  PROVE  /\ e.session \in Sessions
         /\ \/ e.kind = "SessionUpserted" /\ e.row \in Session
            \/ e.kind = "PhaseTransitioned" /\ e.phase \in Phases
            \/ e.kind = "SessionRemoved" \/ e.kind \in NoticeKinds
BY DEF Events

\* What apply_gate_event does to a session's entry (adapters.rs).
LEMMA GateFolds ==
  ASSUME NEW map \in [Sessions -> GateState \cup {Absent}], NEW e \in Events, NEW s \in Sessions
  PROVE  /\ FoldGate(map, e)[s] \in GateState \cup {Absent}
         /\ e \in Upserts(s) => /\ FoldGate(map, e)[s] # Absent
                                /\ FoldGate(map, e)[s].phase = e.row.phase
                                /\ FoldGate(map, e)[s].trust = e.row.trust_tier
                                /\ FoldGate(map, e)[s].adopted = e.row.adopted
         /\ e \notin Upserts(s) =>
              /\ (FoldGate(map, e)[s] = Absent) = (map[s] = Absent)
              /\ FoldGate(map, e)[s] # Absent =>
                   /\ FoldGate(map, e)[s].trust = map[s].trust
                   /\ FoldGate(map, e)[s].adopted = map[s].adopted
                   /\ FoldGate(map, e)[s].phase =
                        IF e \in PhaseTellers(s) THEN PhaseTold(e) ELSE map[s].phase
<1>1. Absent \notin GateState /\ Tiers \subseteq TrustTiers
  BY DaemonAssumption, SupervisorAssumption
<1>2. DefaultGate \in GateState
  BY DEF DefaultGate, GateState, Phases, TrustTiers
<1>3. CASE e.kind = "SessionUpserted"
  <2> DEFINE base == IF map[e.session] = Absent THEN DefaultGate ELSE map[e.session]
             entry == [base EXCEPT !.phase = e.row.phase, !.trust = e.row.trust_tier,
                                   !.adopted = e.row.adopted]
  <2>1. e.session \in Sessions /\ e.row \in Session
    BY <1>3, FactCases DEF NoticeKinds
  <2>2. FoldGate(map, e) = [map EXCEPT ![e.session] = entry]
    BY <1>3 DEF FoldGate
  <2>3. base \in GateState
    BY <1>2, <2>1
  <2>4. e.row.phase \in Phases /\ e.row.trust_tier \in TrustTiers /\ e.row.adopted \in BOOLEAN
    BY <1>1, <2>1, SessionFields
  <2> HIDE DEF base
  <2>5. /\ entry \in GateState /\ entry.phase = e.row.phase /\ entry.trust = e.row.trust_tier
        /\ entry.adopted = e.row.adopted
    BY <2>3, <2>4 DEF GateState
  <2> HIDE DEF entry
  <2>6. e \in Upserts(s) <=> e.session = s
    BY <1>3 DEF Upserts
  <2>7. e.session # s => e \notin PhaseTellers(s)
    BY DEF PhaseTellers
  <2>8. CASE e.session = s
    BY <1>1, <2>2, <2>5, <2>6, <2>8
  <2>9. CASE e.session # s
    BY <1>1, <2>1, <2>2, <2>6, <2>7, <2>9
  <2>10. QED
    BY <2>8, <2>9
<1>4. CASE e.kind = "PhaseTransitioned"
  <2>1. e.session \in Sessions /\ e.phase \in Phases /\ e \notin Upserts(s)
    BY <1>4, FactCases DEF Upserts, NoticeKinds
  <2>2. PhaseTold(e) = e.phase /\ (e \in PhaseTellers(s) <=> e.session = s)
    BY <1>4 DEF PhaseTold, PhaseTellers
  <2>3. CASE map[e.session] = Absent
    <3>1. FoldGate(map, e) = map
      BY <1>4, <2>3 DEF FoldGate
    <3>2. QED
      BY <2>1, <2>2, <2>3, <3>1
  <2>4. CASE map[e.session] # Absent
    <3> DEFINE entry == [map[e.session] EXCEPT !.phase = e.phase]
    <3>1. FoldGate(map, e) = [map EXCEPT ![e.session] = entry]
      BY <1>4, <2>4 DEF FoldGate
    <3>2. map[e.session] \in GateState
      BY <2>1, <2>4
    <3>3. /\ entry \in GateState /\ entry.phase = e.phase
          /\ entry.trust = map[e.session].trust /\ entry.adopted = map[e.session].adopted
      BY <2>1, <3>2 DEF GateState
    <3> HIDE DEF entry
    <3>4. QED
      BY <1>1, <2>1, <2>2, <2>4, <3>1, <3>3
  <2>5. QED
    BY <2>3, <2>4
<1>5. CASE e.kind \notin {"SessionUpserted", "PhaseTransitioned"}
  <2>1. FoldGate(map, e) = map
    BY <1>5 DEF FoldGate
  <2>2. e \notin Upserts(s) /\ e \notin PhaseTellers(s)
    BY <1>5 DEF Upserts, PhaseTellers
  <2>3. QED
    BY <2>1, <2>2
<1>6. QED
  BY <1>3, <1>4, <1>5

\* What BusFleetView::apply does to a session's entry (adapters.rs).
LEMMA ViewFolds ==
  ASSUME NEW map \in [Sessions -> Session \cup {Absent}], NEW e \in Events, NEW s \in Sessions
  PROVE  /\ FoldView(map, e)[s] \in Session \cup {Absent}
         /\ e \in Upserts(s) => FoldView(map, e)[s] # Absent
         /\ e \notin Removals(s) /\ map[s] # Absent => FoldView(map, e)[s] # Absent
<1>1. Absent \notin Session
  BY AbsentAssumption
<1>2. CASE e.kind = "SessionUpserted"
  <2>1. e.session \in Sessions /\ e.row \in Session
    BY <1>2, FactCases DEF NoticeKinds
  <2>2. FoldView(map, e) = [map EXCEPT ![e.session] = e.row]
    BY <1>2 DEF FoldView
  <2>3. QED
    BY <1>1, <2>1, <2>2 DEF Upserts
<1>3. CASE e.kind = "SessionRemoved"
  <2>1. FoldView(map, e) = [map EXCEPT ![e.session] = Absent]
    BY <1>3 DEF FoldView
  <2>2. e \notin Upserts(s) /\ (e \in Removals(s) <=> e.session = s) /\ e.session \in Sessions
    BY <1>3, FactCases DEF Upserts, Removals
  <2>3. QED
    BY <2>1, <2>2
<1>4. CASE e.kind \notin {"SessionUpserted", "SessionRemoved"}
  BY <1>4 DEF FoldView, Upserts
<1>5. QED
  BY <1>2, <1>3, <1>4

\* What BusPolicyView::apply does to a session's entry (adapters.rs).
LEMMA PolicyFolds ==
  ASSUME NEW map \in [Sessions -> PolicyEntry \cup {Absent}], NEW e \in Events, NEW s \in Sessions
  PROVE  /\ FoldPolicy(map, e)[s] \in PolicyEntry \cup {Absent}
         /\ e \in Upserts(s) => /\ FoldPolicy(map, e)[s].phase = e.row.phase
                                /\ FoldPolicy(map, e)[s].trust_tier = e.row.trust_tier
         /\ e \notin Upserts(s) =>
              \/ FoldPolicy(map, e)[s] = Absent
              \/ /\ map[s] # Absent
                 /\ FoldPolicy(map, e)[s].trust_tier = map[s].trust_tier
                 /\ FoldPolicy(map, e)[s].phase =
                      IF e \in PhaseTellers(s) THEN PhaseTold(e) ELSE map[s].phase
<1>1. CASE e.kind = "SessionUpserted"
  <2> DEFINE entry == [phase |-> e.row.phase, trust_tier |-> e.row.trust_tier]
  <2>1. e.session \in Sessions /\ e.row \in Session
    BY <1>1, FactCases DEF NoticeKinds
  <2>2. FoldPolicy(map, e) = [map EXCEPT ![e.session] = entry]
    BY <1>1 DEF FoldPolicy
  <2>3. entry \in PolicyEntry /\ entry.phase = e.row.phase /\ entry.trust_tier = e.row.trust_tier
    BY <2>1, SessionFields DEF PolicyEntry
  <2>4. (e \in Upserts(s) <=> e.session = s) /\ (e \in PhaseTellers(s) <=> e.session = s)
    BY <1>1 DEF Upserts, PhaseTellers
  <2> HIDE DEF entry
  <2>5. CASE e.session = s
    BY <2>2, <2>3, <2>4, <2>5
  <2>6. CASE e.session # s
    BY <2>1, <2>2, <2>4, <2>6
  <2>7. QED
    BY <2>5, <2>6
<1>2. CASE e.kind = "PhaseTransitioned"
  <2>1. e.session \in Sessions /\ e.phase \in Phases /\ e \notin Upserts(s)
    BY <1>2, FactCases DEF Upserts, NoticeKinds
  <2>2. PhaseTold(e) = e.phase /\ (e \in PhaseTellers(s) <=> e.session = s)
    BY <1>2 DEF PhaseTold, PhaseTellers
  <2>3. CASE map[e.session] = Absent
    <3>1. FoldPolicy(map, e) = map
      BY <1>2, <2>3 DEF FoldPolicy
    <3>2. QED
      BY <2>1, <2>2, <2>3, <3>1
  <2>4. CASE map[e.session] # Absent
    <3> DEFINE entry == [map[e.session] EXCEPT !.phase = e.phase]
    <3>1. FoldPolicy(map, e) = [map EXCEPT ![e.session] = entry]
      BY <1>2, <2>4 DEF FoldPolicy
    <3>2. map[e.session] \in PolicyEntry
      BY <2>1, <2>4
    <3>3. /\ entry \in PolicyEntry /\ entry.phase = e.phase
          /\ entry.trust_tier = map[e.session].trust_tier
      BY <2>1, <3>2 DEF PolicyEntry
    <3> HIDE DEF entry
    <3>4. QED
      BY <2>1, <2>2, <2>4, <3>1, <3>3
  <2>5. QED
    BY <2>3, <2>4
<1>3. CASE e.kind \notin {"SessionUpserted", "PhaseTransitioned"}
  <2>1. FoldPolicy(map, e) = map
    BY <1>3 DEF FoldPolicy
  <2>2. e \notin Upserts(s) /\ e \notin PhaseTellers(s)
    BY <1>3 DEF Upserts, PhaseTellers
  <2>3. QED
    BY <2>1, <2>2
<1>4. QED
  BY <1>1, <1>2, <1>3

\* An event received is the head of the receiver's queue, and leaves the other as it is.
LEMMA ReceivedFrom ==
  ASSUME TypeOK, NEW r \in Receivers, Receive(r)
  PROVE  /\ ~bus[r].lagged /\ Queue(r) \in Seq(Events) /\ Queue(r) # <<>>
         /\ Received(r) = Head(Queue(r)) /\ Received(r) \in Events
         /\ Queue(r)' = Tail(Queue(r)) /\ bus'[r].lagged = bus[r].lagged
         /\ \A o \in Receivers \ {r} : bus'[o] = bus[o]
         /\ bus' \in [Receivers -> Channel(Events)]
<1>1. bus \in [Receivers -> Channel(Events)] /\ bus[r] \in Channel(Events)
  BY DEF TypeOK
<1>2. bus' = [bus EXCEPT ![r] = [bus[r] EXCEPT !.queue = Tail(bus[r].queue)]]
  BY DEF Receive
<1>3. bus[r].queue \in Seq(Events) /\ bus[r].lagged \in BOOLEAN
  BY <1>1 DEF Channel
<1>4. ~bus[r].lagged /\ bus[r].queue # <<>>
  BY DEF Receive, CanReceive
<1>5. Tail(bus[r].queue) \in Seq(Events) /\ Head(bus[r].queue) \in Events
  BY <1>3, <1>4, HeadTailProperties
<1>6. [bus[r] EXCEPT !.queue = Tail(bus[r].queue)] \in Channel(Events)
  BY <1>1, <1>5 DEF Channel
<1>7. bus'[r].queue = Tail(bus[r].queue) /\ bus'[r].lagged = bus[r].lagged
  BY <1>1, <1>2 DEF Channel
<1>8. bus' \in [Receivers -> Channel(Events)]
  BY <1>1, <1>2, <1>6
<1>9. QED
  BY <1>1, <1>2, <1>3, <1>4, <1>5, <1>7, <1>8 DEF Queue, Received

\* A fact that tells a phase or a grant right tells the one in the row or in the fact.
LEMMA RightTells ==
  ASSUME NEW s, NEW rec, NEW e
  PROVE  /\ e \in PhaseTellers(s) <=> e \in PhaseRight(s, rec) \/ e \in PhaseWrong(s, rec)
         /\ e \in PhaseRight(s, rec) => PhaseTold(e) = rec.phase
         /\ e \in Upserts(s) <=> e \in GrantRight(s, rec) \/ e \in GrantWrong(s, rec)
         /\ e \in GrantRight(s, rec) => Grants(e.row, rec)
         /\ e \in Upserts(s) => e \in PhaseTellers(s) /\ PhaseTold(e) = e.row.phase
BY DEF PhaseRight, PhaseWrong, GrantRight, GrantWrong, PhaseTellers, Upserts, PhaseTold

\* The task of the two views folds one event: they end where they would have.
LEMMA FoldEndsRight ==
  ASSUME DaemonTyped, FoldsEndRight, PolicyEndsRight, FoldReadModels
  PROVE  FoldsEndRight' /\ PolicyEndsRight'
<1> DEFINE q == Queue("readmodels")
           e == Received("readmodels")
<1>1. "readmodels" \in Receivers /\ "policy" \in Receivers \ {"readmodels"} /\ TypeOK
  BY DaemonAssumption DEF DaemonTyped
<1>2. /\ ~bus["readmodels"].lagged /\ q \in Seq(Events) /\ q # <<>> /\ e = Head(q)
      /\ e \in Events /\ Queue("readmodels")' = Tail(q) /\ bus'["policy"] = bus["policy"]
  BY <1>1, ReceivedFrom DEF FoldReadModels
<1>3. /\ gate' = FoldGate(gate, e) /\ view' = FoldView(view, e)
      /\ fleet' = fleet /\ commands' = commands /\ policy' = policy /\ policyFolds' = policyFolds
  BY DEF FoldReadModels
<1> HIDE DEF q, e
<1>4. ASSUME ~Resynchronising', NEW s \in Sessions, Known(s)'
      PROVE  WillList(s)' /\ WillPhase(s)' /\ WillGrant(s)'
  <2>1. Known(s) /\ ~Resynchronising /\ fleet'[s] = fleet[s]
    BY <1>3, <1>4 DEF Known, Resynchronising
  <2>2. WillList(s) /\ WillPhase(s) /\ WillGrant(s)
    BY <1>2, <2>1 DEF FoldsEndRight
  <2>3. /\ gate \in [Sessions -> GateState \cup {Absent}]
        /\ view \in [Sessions -> Session \cup {Absent}]
    BY DEF DaemonTyped
  <2>4. /\ e \in Upserts(s) => /\ gate'[s] # Absent /\ view'[s] # Absent
                               /\ gate'[s].phase = e.row.phase
                               /\ gate'[s].trust = e.row.trust_tier
                               /\ gate'[s].adopted = e.row.adopted
        /\ e \notin Upserts(s) =>
              /\ (gate'[s] = Absent) = (gate[s] = Absent)
              /\ gate'[s] # Absent =>
                   /\ gate'[s].trust = gate[s].trust /\ gate'[s].adopted = gate[s].adopted
                   /\ gate'[s].phase = IF e \in PhaseTellers(s) THEN PhaseTold(e)
                                       ELSE gate[s].phase
        /\ e \notin Removals(s) /\ view[s] # Absent => view'[s] # Absent
    BY <1>2, <1>3, <2>3, GateFolds, ViewFolds
  <2>5. WillList(s)'
    <3> DEFINE now  == gate[s] # Absent /\ view[s] # Absent
               then == gate'[s] # Absent /\ view'[s] # Absent
    <3>1. Ends(q, Upserts(s), Removals(s), now)
      BY <2>2 DEF WillList, q
    <3>2. /\ e \in Upserts(s) => then
          /\ e \notin Removals(s) /\ now => then
      BY <2>4
    <3> HIDE DEF now, then
    <3>3. Ends(Tail(q), Upserts(s), Removals(s), then)
      BY <1>2, <3>1, <3>2, EndsOfTail
    <3>4. QED
      BY <1>2, <3>3 DEF WillList, then
  <2>6. WillPhase(s)'
    <3> DEFINE now   == gate[s] # Absent => gate[s].phase = fleet[s].phase
               then  == gate'[s] # Absent => gate'[s].phase = fleet[s].phase
               right == PhaseRight(s, fleet[s])
               wrong == PhaseWrong(s, fleet[s])
    <3>1. Ends(q, right, wrong, now)
      BY <2>2 DEF WillPhase, q
    <3>2. e \in right => then
      <4> SUFFICES ASSUME e \in right PROVE then
        OBVIOUS
      <4>1. e \in PhaseTellers(s) /\ PhaseTold(e) = fleet[s].phase
        BY RightTells
      <4>2. CASE e \in Upserts(s)
        BY <2>4, <4>1, <4>2, RightTells
      <4>3. CASE e \notin Upserts(s)
        BY <2>4, <4>1, <4>3
      <4>4. QED
        BY <4>2, <4>3
    <3>3. e \notin wrong /\ now => then
      <4> SUFFICES ASSUME e \notin wrong, e \notin right, now PROVE then
        BY <3>2
      <4>1. e \notin PhaseTellers(s) /\ e \notin Upserts(s)
        BY RightTells
      <4>2. QED
        BY <2>4, <4>1
    <3> HIDE DEF now, then, right, wrong
    <3>4. Ends(Tail(q), right, wrong, then)
      BY <1>2, <3>1, <3>2, <3>3, EndsOfTail
    <3>5. QED
      BY <1>2, <2>1, <3>4 DEF WillPhase, then, right, wrong
  <2>7. WillGrant(s)'
    <3> DEFINE now   == gate[s] # Absent => /\ gate[s].trust = fleet[s].trust_tier
                                            /\ gate[s].adopted = fleet[s].adopted
               then  == gate'[s] # Absent => /\ gate'[s].trust = fleet[s].trust_tier
                                             /\ gate'[s].adopted = fleet[s].adopted
               right == GrantRight(s, fleet[s])
               wrong == GrantWrong(s, fleet[s])
    <3>1. Ends(q, right, wrong, now)
      BY <2>2 DEF WillGrant, q
    <3>2. e \in right => then
      BY <2>4, RightTells DEF Grants
    <3>3. e \notin wrong /\ now => then
      <4> SUFFICES ASSUME e \notin wrong, e \notin right, now PROVE then
        BY <3>2
      <4>1. e \notin Upserts(s)
        BY RightTells
      <4>2. QED
        BY <2>4, <4>1
    <3> HIDE DEF now, then, right, wrong
    <3>4. Ends(Tail(q), right, wrong, then)
      BY <1>2, <3>1, <3>2, <3>3, EndsOfTail
    <3>5. QED
      BY <1>2, <2>1, <3>4 DEF WillGrant, then, right, wrong
  <2>8. QED
    BY <2>5, <2>6, <2>7
<1>5. FoldsEndRight'
  BY <1>4 DEF FoldsEndRight
<1>6. PolicyEndsRight'
  BY <1>2, <1>3 DEF PolicyEndsRight, WillDecide, Queue, Known
<1>7. QED
  BY <1>5, <1>6

\* The policy task folds one event, and the other task's views are as they were.
LEMMA PolicyFoldEndsRight ==
  ASSUME DaemonTyped, FoldsEndRight, PolicyEndsRight, FoldPolicyView
  PROVE  FoldsEndRight' /\ PolicyEndsRight'
<1> DEFINE q == Queue("policy")
           e == Received("policy")
<1>1. "policy" \in Receivers /\ "readmodels" \in Receivers \ {"policy"} /\ TypeOK
  BY DaemonAssumption DEF DaemonTyped
<1>2. /\ ~bus["policy"].lagged /\ q \in Seq(Events) /\ q # <<>> /\ e = Head(q)
      /\ e \in Events /\ Queue("policy")' = Tail(q) /\ bus'["readmodels"] = bus["readmodels"]
  BY <1>1, ReceivedFrom DEF FoldPolicyView
<1>3. /\ policy' = FoldPolicy(policy, e) /\ policyFolds /\ policyFolds' = policyFolds
      /\ fleet' = fleet /\ commands' = commands /\ gate' = gate /\ view' = view
  BY DEF FoldPolicyView
<1> HIDE DEF q, e
<1>4. ASSUME NEW s \in Sessions, Known(s)' PROVE WillDecide(s)'
  <2> DEFINE nowPhase   == policy[s] # Absent => policy[s].phase = fleet[s].phase
             nowTier    == policy[s] # Absent => policy[s].trust_tier = fleet[s].trust_tier
             thenPhase  == policy'[s] # Absent => policy'[s].phase = fleet[s].phase
             thenTier   == policy'[s] # Absent => policy'[s].trust_tier = fleet[s].trust_tier
             rightPhase == PhaseRight(s, fleet[s])
             wrongPhase == PhaseWrong(s, fleet[s])
             rightTier  == GrantRight(s, fleet[s])
             wrongTier  == GrantWrong(s, fleet[s])
  <2>1. Known(s) /\ fleet'[s] = fleet[s]
    BY <1>3, <1>4 DEF Known
  <2>2. Ends(q, rightPhase, wrongPhase, nowPhase) /\ Ends(q, rightTier, wrongTier, nowTier)
    BY <1>2, <1>3, <2>1 DEF PolicyEndsRight, WillDecide, q
  <2>3. policy \in [Sessions -> PolicyEntry \cup {Absent}]
    BY DEF DaemonTyped
  <2>4. /\ e \in Upserts(s) => /\ policy'[s].phase = e.row.phase
                               /\ policy'[s].trust_tier = e.row.trust_tier
        /\ e \notin Upserts(s) =>
              \/ policy'[s] = Absent
              \/ /\ policy[s] # Absent /\ policy'[s].trust_tier = policy[s].trust_tier
                 /\ policy'[s].phase = IF e \in PhaseTellers(s) THEN PhaseTold(e)
                                       ELSE policy[s].phase
    BY <1>2, <1>3, <2>3, PolicyFolds
  <2>5. e \in rightPhase => thenPhase
    <3> SUFFICES ASSUME e \in rightPhase PROVE thenPhase
      OBVIOUS
    <3>1. e \in PhaseTellers(s) /\ PhaseTold(e) = fleet[s].phase
      BY RightTells
    <3>2. CASE e \in Upserts(s)
      BY <2>4, <3>1, <3>2, RightTells
    <3>3. CASE e \notin Upserts(s)
      BY <2>4, <3>1, <3>3
    <3>4. QED
      BY <3>2, <3>3
  <2>6. e \notin wrongPhase /\ nowPhase => thenPhase
    <3> SUFFICES ASSUME e \notin wrongPhase, e \notin rightPhase, nowPhase PROVE thenPhase
      BY <2>5
    <3>1. e \notin PhaseTellers(s) /\ e \notin Upserts(s)
      BY RightTells
    <3>2. QED
      BY <2>4, <3>1
  <2>7. e \in rightTier => thenTier
    BY <2>4, RightTells DEF Grants
  <2>8. e \notin wrongTier /\ nowTier => thenTier
    <3> SUFFICES ASSUME e \notin wrongTier, e \notin rightTier, nowTier PROVE thenTier
      BY <2>7
    <3>1. e \notin Upserts(s)
      BY RightTells
    <3>2. QED
      BY <2>4, <3>1
  <2> HIDE DEF nowPhase, nowTier, thenPhase, thenTier, rightPhase, wrongPhase, rightTier, wrongTier
  <2>9. Ends(Tail(q), rightPhase, wrongPhase, thenPhase)
    BY <1>2, <2>2, <2>5, <2>6, EndsOfTail
  <2>10. Ends(Tail(q), rightTier, wrongTier, thenTier)
    BY <1>2, <2>2, <2>7, <2>8, EndsOfTail
  <2>11. QED
    BY <1>2, <2>1, <2>9, <2>10
    DEF WillDecide, thenPhase, thenTier, rightPhase, wrongPhase, rightTier, wrongTier
<1>5. PolicyEndsRight'
  BY <1>4 DEF PolicyEndsRight
<1>6. FoldsEndRight'
  BY <1>2, <1>3
  DEF FoldsEndRight, WillList, WillPhase, WillGrant, Queue, Known, Resynchronising
<1>7. QED
  BY <1>5, <1>6

-----------------------------------------------------------------------------
(* Every step                                                              *)

\* A fold of a view is a view.
LEMMA FoldsTyped ==
  ASSUME NEW e \in Events
  PROVE  /\ \A map \in [Sessions -> GateState \cup {Absent}] :
              FoldGate(map, e) \in [Sessions -> GateState \cup {Absent}]
         /\ \A map \in [Sessions -> Session \cup {Absent}] :
              FoldView(map, e) \in [Sessions -> Session \cup {Absent}]
         /\ \A map \in [Sessions -> PolicyEntry \cup {Absent}] :
              FoldPolicy(map, e) \in [Sessions -> PolicyEntry \cup {Absent}]
<1>1. ASSUME NEW map \in [Sessions -> GateState \cup {Absent}]
      PROVE  FoldGate(map, e) \in [Sessions -> GateState \cup {Absent}]
  <2>1. FoldGate(map, e) = [s \in Sessions |-> FoldGate(map, e)[s]]
    BY DEF FoldGate
  <2>2. \A s \in Sessions : FoldGate(map, e)[s] \in GateState \cup {Absent}
    BY GateFolds
  <2>3. QED
    BY <2>1, <2>2
<1>2. ASSUME NEW map \in [Sessions -> Session \cup {Absent}]
      PROVE  FoldView(map, e) \in [Sessions -> Session \cup {Absent}]
  <2>1. FoldView(map, e) = [s \in Sessions |-> FoldView(map, e)[s]]
    BY DEF FoldView
  <2>2. \A s \in Sessions : FoldView(map, e)[s] \in Session \cup {Absent}
    BY ViewFolds
  <2>3. QED
    BY <2>1, <2>2
<1>3. ASSUME NEW map \in [Sessions -> PolicyEntry \cup {Absent}]
      PROVE  FoldPolicy(map, e) \in [Sessions -> PolicyEntry \cup {Absent}]
  <2>1. FoldPolicy(map, e) = [s \in Sessions |-> FoldPolicy(map, e)[s]]
    BY DEF FoldPolicy
  <2>2. \A s \in Sessions : FoldPolicy(map, e)[s] \in PolicyEntry \cup {Absent}
    BY PolicyFolds
  <2>3. QED
    BY <2>1, <2>2
<1>4. QED
  BY <1>1, <1>2, <1>3

\* A command of a session is the operator's handler of that session (main.rs
\* run_supervisor_loop, supervisor.rs handle_command).
LEMMA HandledIsOperator ==
  ASSUME NEW c \in SessionCommands, Handled(c)
  PROVE  c.session \in Sessions /\ Operator(c.session)
<1>1. c.session \in Sessions /\ c.op # "RepublishFleet"
  BY DEF SessionCommands
<1>2. /\ c.op = "SetAdopted" => c.adopted \in BOOLEAN
      /\ c.op = "SetTrust" => c.tier \in Tiers
      /\ c.op = "SetPhasePinned" => c.pinned \in BOOLEAN
      /\ c.op = "SetPhase" => c.phase \in Phases
  BY DEF SessionCommands
<1>3. QED
  BY <1>1, <1>2 DEF Handled, Operator

\* And keeps everything well formed.
LEMMA HandledTyped ==
  ASSUME TypeOK, NEW c \in SessionCommands, Handled(c)
  PROVE  TypeOK'
BY HandledIsOperator, OperatorTyped

\* A command put on the channel asks for a resynchronisation or leaves it as asked.
LEMMA SendKeeps ==
  ASSUME DaemonInv, NEW c \in Commands, commands' = Append(commands, c),
         UNCHANGED <<fleet, store, gate, view, policy, policyFolds>>, UNCHANGED bus
  PROVE  DaemonInv'
<1>1. commands \in Seq(Commands) /\ commands' \in Seq(Commands)
  BY DEF DaemonInv, DaemonTyped
<1>2. ~Resynchronising' => ~Resynchronising
  <2>1. /\ Len(commands') = Len(commands) + 1 /\ Len(commands) \in Nat
        /\ \A i \in 1..Len(commands) : commands'[i] = commands[i]
        /\ DOMAIN commands = 1..Len(commands) /\ DOMAIN commands' = 1..Len(commands')
    BY <1>1
  <2>2. QED
    BY <2>1 DEF Resynchronising
<1>3. QED
  BY <1>1, <1>2 DEF DaemonInv, DaemonTyped, TypeOK, FoldsEndRight, PolicyEndsRight, WillList,
     WillPhase, WillGrant, WillDecide, Queue, Known

\* Serving one command from the channel (main.rs run_supervisor_loop).
LEMMA ServeKeeps == ASSUME DaemonInv, ServeCommand PROVE DaemonInv'
<1> DEFINE c == Head(commands)
<1>1. /\ commands # <<>> /\ commands' = Tail(commands) /\ HandleCommand(c)
      /\ UNCHANGED <<gate, view, policy, policyFolds>>
  BY DEF ServeCommand, Serve, readModels
<1>2. c \in Commands /\ commands' \in Seq(Commands) /\ commands \in Seq(Commands)
  BY <1>1, HeadTailProperties DEF DaemonInv, DaemonTyped
<1>3. /\ Len(commands') = Len(commands) - 1 /\ Len(commands) \in Nat \ {0}
      /\ \A i \in 1..Len(commands') : commands'[i] = commands[i + 1]
      /\ DOMAIN commands = 1..Len(commands) /\ DOMAIN commands' = 1..Len(commands')
      /\ c = commands[1]
  BY <1>1, <1>2
<1>4. TypeOK /\ FoldsEndRight /\ PolicyEndsRight
  BY DEF DaemonInv, DaemonTyped
<1> HIDE DEF c
<1>5. CASE c = Republish
  <2>1. RepublishFleet
    BY <1>1, <1>5 DEF HandleCommand, Handled, Dropped, Republish
  <2>2. TypeOK' /\ FoldsEndRight' /\ PolicyEndsRight'
    BY <1>1, <1>4, <2>1, RepublishTyped, RepublishEndsRight
  <2>3. QED
    BY <1>1, <1>2, <2>2 DEF DaemonInv, DaemonTyped
<1>6. CASE c \in SessionCommands
  <2>1. ~Resynchronising' => ~Resynchronising
    <3>1. c.op # "RepublishFleet"
      BY <1>6 DEF SessionCommands
    <3>2. ASSUME NEW i \in 1..Len(commands), commands[i].op = "RepublishFleet"
          PROVE  i - 1 \in 1..Len(commands') /\ commands'[i - 1] = commands[i]
      <4>1. i # 1
        BY <1>3, <3>1, <3>2
      <4>2. i - 1 \in 1..Len(commands') /\ (i - 1) + 1 = i
        BY <1>3, <4>1
      <4>3. QED
        BY <1>3, <4>2
    <3>3. QED
      BY <1>3, <3>2 DEF Resynchronising
  <2>2. CASE Handled(c)
    <3>1. TypeOK'
      BY <1>4, <1>6, <2>2, HandledTyped
    <3>2. PICK facts \in Seq(Events) : Publish(facts) /\ Reports(facts)
      BY <1>4, <1>6, <2>2, HandledReported DEF Reported
    <3>3. FoldsEndRight' /\ PolicyEndsRight'
      BY <1>1, <1>4, <2>1, <3>2, ReportedKeeps
    <3>4. QED
      BY <1>1, <1>2, <3>1, <3>3 DEF DaemonInv, DaemonTyped
  <2>3. CASE UNCHANGED vars
    <3>1. UNCHANGED <<fleet, store, bus>>
      BY <2>3 DEF vars
    <3>2. QED
      BY <1>1, <1>2, <2>1, <3>1 DEF DaemonInv, DaemonTyped, TypeOK, FoldsEndRight,
         PolicyEndsRight, WillList, WillPhase, WillGrant, WillDecide, Queue, Known
  <2>4. QED
    BY <1>1, <2>2, <2>3 DEF HandleCommand
<1>7. QED
  BY <1>2, <1>5, <1>6 DEF Commands

\* Folding one event, in either task (main.rs).
LEMMA FoldKeeps ==
  ASSUME DaemonInv, FoldReadModels \/ FoldPolicyView
  PROVE  DaemonInv'
<1>1. /\ DaemonTyped /\ FoldsEndRight /\ PolicyEndsRight /\ TypeOK
      /\ "readmodels" \in Receivers /\ "policy" \in Receivers
  BY DaemonAssumption DEF DaemonInv, DaemonTyped
<1>2. CASE FoldReadModels
  <2>1. Received("readmodels") \in Events /\ bus' \in [Receivers -> Channel(Events)]
    BY <1>1, <1>2, ReceivedFrom DEF FoldReadModels
  <2>2. /\ gate' \in [Sessions -> GateState \cup {Absent}]
        /\ view' \in [Sessions -> Session \cup {Absent}]
    BY <1>1, <1>2, <2>1, FoldsTyped DEF FoldReadModels, DaemonTyped
  <2>3. DaemonTyped'
    BY <1>1, <1>2, <2>1, <2>2 DEF FoldReadModels, DaemonTyped, TypeOK
  <2>4. FoldsEndRight' /\ PolicyEndsRight'
    BY <1>1, <1>2, FoldEndsRight
  <2>5. QED
    BY <2>3, <2>4 DEF DaemonInv
<1>3. CASE FoldPolicyView
  <2>1. Received("policy") \in Events /\ bus' \in [Receivers -> Channel(Events)]
    BY <1>1, <1>3, ReceivedFrom DEF FoldPolicyView
  <2>2. policy' \in [Sessions -> PolicyEntry \cup {Absent}]
    BY <1>1, <1>3, <2>1, FoldsTyped DEF FoldPolicyView, DaemonTyped
  <2>3. DaemonTyped'
    BY <1>1, <1>3, <2>1, <2>2 DEF FoldPolicyView, DaemonTyped, TypeOK
  <2>4. FoldsEndRight' /\ PolicyEndsRight'
    BY <1>1, <1>3, PolicyFoldEndsRight
  <2>5. QED
    BY <2>3, <2>4 DEF DaemonInv
<1>4. QED
  BY <1>2, <1>3

\* A gap is reported: one task asks for a resynchronisation, the other ends (main.rs).
LEMMA LagKeeps ==
  ASSUME DaemonInv, ReadModelsLag \/ PolicyLags
  PROVE  DaemonInv'
<1>1. /\ bus \in [Receivers -> Channel(Events)] /\ commands \in Seq(Commands)
      /\ "readmodels" \in Receivers /\ "policy" \in Receivers
  BY DaemonAssumption DEF DaemonInv, DaemonTyped, TypeOK
<1>2. ASSUME NEW r \in Receivers, ReceiveLag(r)
      PROVE  /\ bus' \in [Receivers -> Channel(Events)]
             /\ \A o \in Receivers \ {r} : bus'[o] = bus[o]
  BY <1>1, <1>2 DEF ReceiveLag, Channel
<1>3. CASE ReadModelsLag
  <2>1. /\ bus' \in [Receivers -> Channel(Events)] /\ bus'["policy"] = bus["policy"]
        /\ commands' = Append(commands, Republish)
        /\ UNCHANGED <<fleet, store, gate, view, policy, policyFolds>>
    BY <1>1, <1>2, <1>3 DEF ReadModelsLag, readModels
  <2>2. commands' \in Seq(Commands) /\ Resynchronising'
    <3>1. Republish \in Commands
      BY DEF Commands
    <3>2. commands' \in Seq(Commands) /\ Len(commands) + 1 \in DOMAIN commands'
          /\ commands'[Len(commands) + 1] = Republish
      BY <1>1, <2>1, <3>1
    <3>3. QED
      BY <3>2 DEF Resynchronising, Republish
  <2>3. QED
    BY <2>1, <2>2 DEF DaemonInv, DaemonTyped, TypeOK, FoldsEndRight, PolicyEndsRight,
       WillDecide, Queue, Known
<1>4. CASE PolicyLags
  <2>1. /\ bus' \in [Receivers -> Channel(Events)] /\ bus'["readmodels"] = bus["readmodels"]
        /\ policyFolds' = FALSE /\ UNCHANGED <<fleet, store, commands, gate, view, policy>>
    BY <1>1, <1>2, <1>4 DEF PolicyLags
  <2>2. QED
    BY <2>1 DEF DaemonInv, DaemonTyped, TypeOK, FoldsEndRight, PolicyEndsRight,
       WillList, WillPhase, WillGrant, Queue, Known, Resynchronising
<1>5. QED
  BY <1>3, <1>4

\* What surrounds the daemon: clients, hooks, agents, transcripts, the notifier, the
\* desktop's launches, and the end of the process.
LEMMA EnvironmentKeeps ==
  ASSUME DaemonInv, Environment
  PROVE  DaemonInv'
<1>1. /\ DaemonTyped /\ FoldsEndRight /\ PolicyEndsRight /\ TypeOK
  BY DEF DaemonInv, DaemonTyped
<1>2. ASSUME NEW c \in Commands, Send(c) PROVE DaemonInv'
  BY <1>2, SendKeeps DEF Send, readModels
<1>3. ASSUME NEW c \in ApiCommands \cup CockpitCommands, Send(c) PROVE DaemonInv'
  BY <1>2, <1>3, CommandsAssumption DEF Commands
<1>4. ASSUME NEW s \in Launched, HookObserved(s) PROVE DaemonInv'
  <2>1. [op |-> "SetAdopted", session |-> s, adopted |-> TRUE] \in Commands
    BY DaemonAssumption DEF Commands, SessionCommands
  <2>2. QED
    BY <1>2, <1>4, <2>1 DEF HookObserved
<1>5. ASSUME NEW s \in Sessions, NEW target \in Targets, RequestPhase(s, target)
      PROVE  DaemonInv'
  <2>1. MoveOn(s, "agent") \in Commands
    BY DEF MoveOn, Commands, SessionCommands
  <2>2. target # "next" => MoveTo(s, target, "agent") \in Commands
    <3>1. target # "next" => target \in Phases
      BY <1>5, DaemonAssumption DEF RequestPhase, PhaseTargets, PhaseChangeNeedsOperator
    <3>2. QED
      BY <3>1 DEF MoveTo, Commands, SessionCommands
  <2>3. (IF target = "next" THEN MoveOn(s, "agent") ELSE MoveTo(s, target, "agent")) \in Commands
    BY <2>1, <2>2
  <2>4. QED
    BY <1>2, <1>5, <2>3 DEF RequestPhase
<1>6. ASSUME NEW s \in Sessions, Detects(s) PROVE DaemonInv'
  <2>1. Detection(s) /\ UNCHANGED <<commands, gate, view, policy, policyFolds>>
    BY <1>6 DEF Detects, readModels
  <2>2. TypeOK'
    BY <1>1, <2>1, DetectionTyped
  <2>3. PICK facts \in Seq(Events) : Publish(facts) /\ Reports(facts)
    BY <1>1, <2>1, DetectionReported DEF Reported
  <2>4. ~Resynchronising' => ~Resynchronising
    BY <2>1 DEF Resynchronising
  <2>5. FoldsEndRight' /\ PolicyEndsRight'
    BY <1>1, <2>1, <2>3, <2>4, ReportedKeeps
  <2>6. QED
    BY <1>1, <2>1, <2>2, <2>5 DEF DaemonInv, DaemonTyped
<1>7. ASSUME NEW s \in Sessions, Announces(s) PROVE DaemonInv'
  <2> DEFINE asked == Notice("ApprovalRequested", s)
             moved == Notice("SessionStateChanged", s)
             facts == <<asked, moved>>
  <2>1. Publish(facts) /\ UNCHANGED <<fleet, store, commands, gate, view, policy, policyFolds>>
    BY <1>7 DEF Announces, readModels
  <2>2. /\ asked \in Events /\ asked.kind \in NoticeKinds
        /\ moved \in Events /\ moved.kind \in NoticeKinds
    BY FactsTyped DEF Notice, NoticeKinds
  <2> HIDE DEF asked, moved
  <2>3. facts \in Seq(Events) /\ \A i \in 1..Len(facts) : facts[i].kind \in NoticeKinds
    BY <2>2
  <2> HIDE DEF facts
  <2>4. Reports(facts)
    BY <2>1, <2>3, NoticesReport DEF Known, Grants
  <2>5. bus' \in [Receivers -> Channel(Events)]
    BY <1>1, <2>1, <2>3, PublishKeepsChannels DEF TypeOK
  <2>6. ~Resynchronising' => ~Resynchronising
    BY <2>1 DEF Resynchronising
  <2>7. FoldsEndRight' /\ PolicyEndsRight'
    BY <1>1, <2>1, <2>3, <2>4, <2>6, ReportedKeeps
  <2>8. QED
    BY <1>1, <2>1, <2>5, <2>7 DEF DaemonInv, DaemonTyped, TypeOK
<1>8. ASSUME NEW s \in Sessions, Launches(s) PROVE DaemonInv'
  <2>1. PICK p \in {"Plan", "AutoImplement"}, tier \in Tiers, root \in Roots :
               RecordLaunch(s, p, tier, root)
    BY <1>8 DEF Launches
  <2>2. UNCHANGED <<fleet, bus, commands, gate, view, policy, policyFolds>>
    BY <1>8 DEF Launches, RecordLaunch, readModels
  <2>3. store' \in [Sessions -> ManagedSession \cup {Absent}]
    <3> DEFINE row == [phase |-> p, phase_pinned |-> FALSE, adopted |-> TRUE, paused |-> FALSE,
                       hidden |-> FALSE, trust_tier |-> tier, title |-> None, root |-> root]
    <3>1. row \in ManagedSession
      BY DEF ManagedSession, Phases
    <3>2. store' = [store EXCEPT ![s] = row]
      BY <2>1 DEF RecordLaunch
    <3> HIDE DEF row
    <3>3. QED
      BY <1>1, <3>1, <3>2 DEF TypeOK
  <2>4. QED
    BY <1>1, <2>2, <2>3 DEF DaemonInv, DaemonTyped, TypeOK, FoldsEndRight, PolicyEndsRight,
       WillList, WillPhase, WillGrant, WillDecide, Queue, Known, Resynchronising
<1>9. CASE Restart
  <2>1. /\ CrashRestart /\ policy' = [s \in Sessions |-> Absent]
        /\ gate' = [s \in Sessions |-> Absent] /\ view' = [s \in Sessions |-> Absent]
        /\ commands' = <<>> /\ policyFolds' = TRUE
    BY <1>9 DEF Restart
  <2>2. TypeOK' /\ FoldsEndRight' /\ PolicyEndsRight'
    BY <1>1, <2>1, CrashRestartTyped, RestartEndsRight
  <2>3. DaemonTyped'
    BY <2>1, <2>2 DEF DaemonTyped
  <2>4. QED
    BY <2>2, <2>3 DEF DaemonInv
<1>10. QED
  BY <1>3, <1>4, <1>5, <1>6, <1>7, <1>8, <1>9 DEF Environment, ApiSends, CockpitSends

\* At boot there is nobody in the fleet.
LEMMA DaemonStartsRight == DaemonInit => DaemonInv
<1> SUFFICES ASSUME DaemonInit PROVE DaemonInv
  OBVIOUS
<1>1. TypeOK
  <2>1. bus \in [Receivers -> Channel(Events)]
    BY EmptyIsChannel DEF DaemonInit, Init, BusInit
  <2>2. QED
    BY <2>1 DEF DaemonInit, Init, TypeOK
<1>2. DaemonTyped
  BY <1>1 DEF DaemonInit, DaemonTyped
<1>3. FoldsEndRight /\ PolicyEndsRight
  BY DEF DaemonInit, Init, FoldsEndRight, PolicyEndsRight, Known
<1>4. QED
  BY <1>2, <1>3 DEF DaemonInv

\* One step of the daemon, whichever it is.
LEMMA DaemonStepKeeps == DaemonInv /\ [DaemonNext]_daemonVars => DaemonInv'
<1> SUFFICES ASSUME DaemonInv, [DaemonNext]_daemonVars PROVE DaemonInv'
  OBVIOUS
<1>1. CASE UNCHANGED daemonVars
  BY <1>1 DEF daemonVars, DaemonInv, DaemonTyped, TypeOK, FoldsEndRight, PolicyEndsRight,
     WillList, WillPhase, WillGrant, WillDecide, Queue, Known, Resynchronising
<1>2. QED
  BY <1>1, ServeKeeps, FoldKeeps, LagKeeps, EnvironmentKeeps DEF DaemonNext

-----------------------------------------------------------------------------
(* The theorems                                                            *)

\* The inductive invariant: as long as nobody was told of a gap nor has a resynchronisation
\* to come, what the queue tells last of a session is what the fleet says of it
\* (main.rs, the fold tasks; supervisor.rs, every handler).
THEOREM FoldsAlwaysEndRight == DaemonSpec => []DaemonInv
BY DaemonStartsRight, DaemonStepKeeps, PTL DEF DaemonSpec

\* The fleet, the rows, the channel, the queues and the views stay well formed, whatever
\* is sent, observed, dropped or lost (main.rs).
THEOREM DaemonTypeCorrect == DaemonSpec => []DaemonTyped
<1>1. DaemonInv => DaemonTyped
  BY DEF DaemonInv
<1>2. QED
  BY <1>1, FoldsAlwaysEndRight, PTL

\* A gate view with nothing left to read or ask for agrees with the fleet on every
\* session, and nobody of the fleet is missing from what the control API lists, for any
\* capacity of the bus (main.rs: "a gate view missing a session allows everything that
\* session does").
THEOREM ReadModelsAlwaysCatchUp == DaemonSpec => []ReadModelsCatchUp
<1>1. DaemonInv => ReadModelsCatchUp
  <2> SUFFICES ASSUME DaemonInv, Settled, NEW s \in Sessions, Known(s)
               PROVE  GateAgrees(s) /\ view[s] # Absent
    BY DEF ReadModelsCatchUp, GateCatchesUp, FleetIsListed
  <2>1. ~bus["readmodels"].lagged /\ Len(Queue("readmodels")) = 0 /\ ~Resynchronising
    BY DEF Settled, Drained, Queue
  <2>2. WillList(s) /\ WillPhase(s) /\ WillGrant(s)
    BY <2>1 DEF DaemonInv, FoldsEndRight
  <2>3. gate[s] # Absent /\ view[s] # Absent
    BY <2>1, <2>2, EndsOfNone DEF WillList
  <2>4. gate[s] # Absent => gate[s].phase = fleet[s].phase
    BY <2>1, <2>2, EndsOfNone DEF WillPhase
  <2>5. gate[s] # Absent => gate[s].trust = fleet[s].trust_tier
                            /\ gate[s].adopted = fleet[s].adopted
    BY <2>1, <2>2, EndsOfNone DEF WillGrant
  <2>6. QED
    BY <2>3, <2>4, <2>5 DEF GateAgrees
<1>2. QED
  BY <1>1, FoldsAlwaysEndRight, PTL

\* As long as its fold lives, the policy view with nothing left to read decides on the
\* phase and the tier the fleet has, whatever it missed before it subscribed
\* (main.rs build_mcp_host, adapters.rs BusPolicyView).
THEOREM PolicyAlwaysCatchesUp == DaemonSpec => []PolicyCatchesUp
<1>1. DaemonInv => PolicyCatchesUp
  <2> SUFFICES ASSUME DaemonInv, policyFolds, Drained("policy"), NEW s \in Sessions,
                      Known(s), policy[s] # Absent
               PROVE  policy[s] = [phase |-> fleet[s].phase, trust_tier |-> fleet[s].trust_tier]
    BY DEF PolicyCatchesUp
  <2>1. ~bus["policy"].lagged /\ Len(Queue("policy")) = 0
    BY DEF Drained, Queue
  <2>2. WillDecide(s)
    BY <2>1 DEF DaemonInv, PolicyEndsRight
  <2>3. policy[s] # Absent => policy[s].phase = fleet[s].phase
    BY <2>1, <2>2, EndsOfNone DEF WillDecide
  <2>4. policy[s] # Absent => policy[s].trust_tier = fleet[s].trust_tier
    BY <2>1, <2>2, EndsOfNone DEF WillDecide
  <2>5. policy[s] \in PolicyEntry
    BY DEF DaemonInv, DaemonTyped
  <2>6. QED
    BY <2>3, <2>4, <2>5 DEF PolicyEntry
<1>2. QED
  BY <1>1, FoldsAlwaysEndRight, PTL

-----------------------------------------------------------------------------
(* The daemon runs the supervisor.  What the folds, the channel and the    *)
(* clients do beside it leaves the fleet and the rows alone, so that what  *)
(* the supervisor keeps is kept in the daemon too; and a command serves a  *)
(* client only from the head of the channel.                               *)

\* Serving a command is one of the supervisor's handlers, or nothing.
LEMMA ServingGoverns ==
  ASSUME DaemonTyped, ServeCommand
  PROVE  [Next]_governed
<1> DEFINE c == Head(commands)
<1>1. c \in Commands /\ HandleCommand(c)
  <2>1. commands # <<>> /\ HandleCommand(c)
    BY DEF ServeCommand, Serve
  <2>2. QED
    BY <2>1, HeadTailProperties DEF DaemonTyped
<1> HIDE DEF c
<1>2. CASE c \in SessionCommands /\ Handled(c)
  BY <1>2, HandledIsOperator DEF Next
<1>3. CASE c = Republish /\ Handled(c)
  <2>1. RepublishFleet
    BY <1>3 DEF Handled, Republish
  <2>2. QED
    BY <2>1 DEF Next
<1>4. CASE UNCHANGED vars
  BY <1>4 DEF vars, governed
<1>5. QED
  BY <1>1, <1>2, <1>3, <1>4 DEF HandleCommand, Commands

\* What the supervisor loop does not do: an observation, a launch, a restart, or nothing
\* to the fleet and the rows.
LEMMA BesideTheLoop ==
  ASSUME DaemonNext
  PROVE  \/ ServeCommand
         \/ \E s \in Sessions : Detection(s)
         \/ \E s \in Sessions, p \in Phases, tier \in Tiers, root \in Roots :
              RecordLaunch(s, p, tier, root)
         \/ CrashRestart
         \/ UNCHANGED governed
<1>1. CASE FoldReadModels \/ ReadModelsLag \/ FoldPolicyView \/ PolicyLags
  BY <1>1 DEF FoldReadModels, ReadModelsLag, FoldPolicyView, PolicyLags, governed
<1>2. ASSUME NEW c, Send(c) PROVE UNCHANGED governed
  BY <1>2 DEF Send, governed
<1>3. ASSUME NEW c, ApiSends(c) \/ CockpitSends(c) PROVE UNCHANGED governed
  BY <1>2, <1>3 DEF ApiSends, CockpitSends
<1>4. ASSUME NEW s, HookObserved(s) PROVE UNCHANGED governed
  BY <1>2, <1>4 DEF HookObserved
<1>5. ASSUME NEW s, NEW target, RequestPhase(s, target) PROVE UNCHANGED governed
  BY <1>2, <1>5 DEF RequestPhase
<1>6. ASSUME NEW s, Announces(s) PROVE UNCHANGED governed
  BY <1>6 DEF Announces, governed
<1>7. ASSUME NEW s \in Sessions, Launches(s)
      PROVE  \E p \in Phases, tier \in Tiers, root \in Roots : RecordLaunch(s, p, tier, root)
  <2>1. {"Plan", "AutoImplement"} \subseteq Phases
    BY DEF Phases
  <2>2. QED
    BY <1>7, <2>1 DEF Launches
<1>8. QED
  BY <1>1, <1>3, <1>4, <1>5, <1>6, <1>7 DEF DaemonNext, Environment, Detects, Restart

\* Every step of the daemon is a step of the supervisor, or leaves its own alone.
LEMMA DaemonGoverns ==
  ASSUME DaemonTyped, [DaemonNext]_daemonVars
  PROVE  [Next]_governed
<1>1. CASE UNCHANGED daemonVars
  BY <1>1 DEF daemonVars, governed
<1>2. CASE DaemonNext
  BY <1>2, ServingGoverns, BesideTheLoop DEF Next, Operator
<1>3. QED
  BY <1>1, <1>2

\* A command that sets what it is named for leaves the phase alone, and none reaches
\* another session than its own (supervisor.rs handle_command).
LEMMA HandledPhase ==
  ASSUME TypeOK, NEW c \in SessionCommands, Handled(c),
         NEW s \in Sessions, Known(s), fleet'[s] # Absent, fleet'[s].phase # fleet[s].phase
  PROVE  /\ c.session = s
         /\ c.op \in {"SetPhase", "AdvancePhase", "ApprovePlan"}
         /\ c.op = "ApprovePlan" => ~fleet[s].phase_pinned
<1>1. c.session \in Sessions /\ Operator(c.session)
  BY HandledIsOperator
<1>2. c.session = s
  BY <1>1, OperatorEffect
<1>3. fleet[s] \in Session /\ DOMAIN fleet = Sessions
  BY DEF Known, TypeOK
<1>4. /\ c.op \in {"SetAdopted", "ToggleAdoption", "SetTrust", "TogglePause", "SetPhasePinned",
                   "SetPhase", "AdvancePhase", "ApprovePlan", "ForgetSession"}
  BY DEF SessionCommands
<1>5. CASE c.op \in {"SetAdopted", "ToggleAdoption", "SetTrust", "TogglePause",
                     "SetPhasePinned"}
  <2>1. \/ fleet' = [fleet EXCEPT ![s] = [fleet[s] EXCEPT !.adopted = c.adopted]]
        \/ fleet' = [fleet EXCEPT ![s] = [fleet[s] EXCEPT !.adopted = ~@]]
        \/ fleet' = [fleet EXCEPT ![s] = [fleet[s] EXCEPT !.trust_tier = c.tier]]
        \/ fleet' = [fleet EXCEPT ![s] = [fleet[s] EXCEPT !.paused = ~@]]
        \/ fleet' = [fleet EXCEPT ![s] = [fleet[s] EXCEPT !.phase_pinned = c.pinned]]
    BY <1>2, <1>5 DEF Handled, SetAdopted, ToggleAdoption, SetTrust, TogglePause,
       SetPhasePinned, Amend
  <2>2. fleet'[s].phase = fleet[s].phase
    BY <1>3, <2>1 DEF Session
  <2>3. QED
    BY <2>2
<1>6. CASE c.op = "ForgetSession"
  <2>1. fleet' = [fleet EXCEPT ![s] = Absent]
    BY <1>2, <1>6 DEF Handled, ForgetSession
  <2>2. QED
    BY <1>3, <2>1
<1>7. CASE c.op = "ApprovePlan"
  <2>1. ApprovePlan(s)
    BY <1>2, <1>7 DEF Handled
  <2>2. fleet' # fleet
    OBVIOUS
  <2>3. QED
    BY <1>2, <1>7, <2>1, <2>2 DEF ApprovePlan
<1>8. QED
  BY <1>2, <1>4, <1>5, <1>6, <1>7

-----------------------------------------------------------------------------
(* The theorems on the supervisor in the daemon *)

\* The commands that move a phase.
PhaseOps == {"SetPhase", "AdvancePhase", "ApprovePlan"}

\* One of them is served for this session, from the head of the channel.  The plan
\* keystone is not one when the phase is pinned.
PhaseServed(s) ==
  \E c \in SessionCommands :
    /\ Serve(c) /\ c.session = s /\ c.op \in PhaseOps
    /\ c.op = "ApprovePlan" => ~fleet[s].phase_pinned

\* A live session whose phase is pinned, or that would gain project writes.
Guarded(s) ==
  /\ Known(s) /\ fleet'[s] # Absent /\ fleet'[s].phase # fleet[s].phase
  /\ \/ fleet[s].phase_pinned
     \/ ~AllowsWrites(fleet[s].phase) /\ AllowsWrites(fleet'[s].phase)

CommandedMove == \A s \in Sessions : Guarded(s) => PhaseServed(s)

\* Neither what is observed nor a restart moves a pinned phase or unlocks writes: someone
\* put that move on the channel, for that session, and it is being served.
PhaseIsCommanded == [][CommandedMove]_daemonVars

\* The step behind it: what the loop does not serve is observed, restored or launched.
LEMMA StepIsCommanded ==
  ASSUME DaemonTyped, Durable, [DaemonNext]_daemonVars
  PROVE  CommandedMove
<1> SUFFICES ASSUME NEW s \in Sessions, Guarded(s) PROVE PhaseServed(s)
  BY DEF CommandedMove
<1>1. /\ Known(s) /\ fleet'[s] # Absent /\ fleet'[s].phase # fleet[s].phase
      /\ fleet[s].phase_pinned \/ (~AllowsWrites(fleet[s].phase) /\ AllowsWrites(fleet'[s].phase))
  BY DEF Guarded
<1>2. fleet' # fleet /\ TypeOK
  BY <1>1 DEF DaemonTyped
<1>3. DaemonNext /\ ~UNCHANGED governed
  BY <1>2 DEF daemonVars, governed
<1>4. ~CrashRestart
  BY <1>1, <1>2, RestartKeepsPhase
<1>5. ~\E t \in Sessions : Detection(t)
  <2> SUFFICES ASSUME NEW t \in Sessions, Detection(t) PROVE FALSE
    OBVIOUS
  <2>1. ObservedEffect(s)
    BY <1>1, <1>2, DetectionEffect
  <2>2. QED
    BY <1>1, <2>1 DEF ObservedEffect, ObservedMove
<1>6. ~\E t \in Sessions, p \in Phases, tier \in Tiers, root \in Roots :
         RecordLaunch(t, p, tier, root)
  BY <1>2 DEF RecordLaunch
<1>7. ServeCommand
  BY <1>3, <1>4, <1>5, <1>6, BesideTheLoop
<1> DEFINE c == Head(commands)
<1>8. Serve(c) /\ c \in Commands
  <2>1. commands # <<>> /\ Serve(c)
    BY <1>7 DEF ServeCommand
  <2>2. QED
    BY <2>1, HeadTailProperties DEF DaemonTyped
<1> HIDE DEF c
<1>9. Handled(c)
  BY <1>2, <1>8 DEF Serve, HandleCommand, vars
<1>10. c # Republish
  BY <1>2, <1>9 DEF Handled, Republish, RepublishFleet
<1>11. c \in SessionCommands
  BY <1>8, <1>10 DEF Commands
<1>12. QED
  BY <1>1, <1>2, <1>8, <1>9, <1>11, HandledPhase DEF PhaseServed, PhaseOps

\* The daemon implements the supervisor: whatever clients send, agents ask, the bus drops
\* and the folds read, the fleet and the rows change only as one of its handlers would
\* change them (main.rs run_supervisor_loop).
THEOREM DaemonRunsTheSupervisor == DaemonSpec => Init /\ [][Next]_governed
<1>1. DaemonInit => Init
  BY DEF DaemonInit
<1>2. DaemonTyped /\ [DaemonNext]_daemonVars => [Next]_governed
  BY DaemonGoverns
<1>3. QED
  BY <1>1, <1>2, DaemonTypeCorrect, PTL DEF DaemonSpec

\* Durable holds in the daemon for a store that does not fail: commands wait in the channel,
\* a launch writes its row from another process, and a restart loses both queues.
THEOREM DaemonIsDurable == ASSUME ~StoreFaults PROVE DaemonSpec => []Durable
<1>1. DaemonInit => Durable
  BY StartsDurable DEF DaemonInit
<1>2. DaemonTyped /\ Durable /\ [DaemonNext]_daemonVars => Durable'
  BY DaemonGoverns, StepIsDurable DEF DaemonTyped
<1>3. QED
  BY <1>1, <1>2, DaemonTypeCorrect, PTL DEF DaemonSpec

\* So its rows say what governance there is, at every moment of the composed system
\* (supervisor.rs persist, hydrate_from_store).
THEOREM DaemonKeepsGovernance ==
  ASSUME ~StoreFaults PROVE DaemonSpec => []RowsKeepGovernance
<1>1. Durable => RowsKeepGovernance
  BY DEF Durable, RowsKeepGovernance
<1>2. QED
  BY <1>1, DaemonIsDurable, PTL

\* And a restart of the whole process, with its channels and read-models lost, gives every
\* adopted session back as it was (supervisor.rs hydrate_from_store).
THEOREM DaemonRestartGivesBack ==
  ASSUME ~StoreFaults PROVE DaemonSpec => RestartKeepsGovernance
<1>1. DaemonTyped /\ Durable => RestartRestores
  BY StepRestores DEF DaemonTyped
<1>2. QED
  BY <1>1, DaemonTypeCorrect, DaemonIsDurable, PTL DEF DaemonSpec, RestartKeepsGovernance

\* In the daemon too, nobody is governed whom nobody opted in: an adopting command, a row,
\* or an auto-adopt root (supervisor.rs maybe_auto_adopt, Discovered).
THEOREM DaemonOptsIn == DaemonSpec => OptIn
<1>1. DaemonTyped /\ [DaemonNext]_daemonVars => OptingIn
  BY DaemonGoverns, StepOptsIn DEF DaemonTyped
<1>2. QED
  BY <1>1, DaemonTypeCorrect, PTL DEF DaemonSpec, OptIn

\* And every move of a pinned phase, or into a phase that writes, was sent as a command for
\* that session (main.rs run_supervisor_loop; session.rs phase_pinned).
THEOREM PhasesAreCommanded == ASSUME ~StoreFaults PROVE DaemonSpec => PhaseIsCommanded
<1>1. DaemonTyped /\ Durable /\ [DaemonNext]_daemonVars => CommandedMove
  BY StepIsCommanded
<1>2. QED
  BY <1>1, DaemonTypeCorrect, DaemonIsDurable, PTL DEF DaemonSpec, PhaseIsCommanded
=============================================================================

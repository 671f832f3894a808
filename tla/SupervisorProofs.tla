-------------------------- MODULE SupervisorProofs ---------------------------
(***************************************************************************)
(* What the supervisor keeps.  Every handler leaves the fleet, the rows    *)
(* and the queued facts well formed, whether or not the store fails.  For  *)
(* a store that does not fail, governance is durable at every moment and a *)
(* restart gives it back; with or without failures, a pinned phase is the  *)
(* operator's.  The inductive invariant joins what the store says of a     *)
(* session in the fleet to what it says of one that is not, because        *)
(* Discovered restores less of a row than a restart does and the two must  *)
(* not be told apart by whoever is governed.                               *)
(***************************************************************************)
EXTENDS Supervisor, SequenceTheorems, FiniteSetTheorems, TLAPS

-----------------------------------------------------------------------------
(* The channel a receiver sees stays a channel of the facts published on   *)
(* it, and never holds more than Capacity of them.                         *)

\* A slice of a sequence within its bounds is a sequence of the same facts.
LEMMA SliceIsSeq ==
  ASSUME NEW S, NEW seq \in Seq(S), NEW m \in Nat, m >= 1
  PROVE  /\ SubSeq(seq, m, Len(seq)) \in Seq(S)
         /\ Len(SubSeq(seq, m, Len(seq))) = IF m <= Len(seq) THEN Len(seq) - m + 1 ELSE 0
<1>1. Len(seq) \in Nat /\ \A i \in 1..Len(seq) : seq[i] \in S
  OBVIOUS
<1>2. m \in Int /\ Len(seq) \in Int /\ \A i \in m..Len(seq) : seq[i] \in S
  BY <1>1
<1>3. QED
  BY <1>2, SubSeqProperties

\* What a slow receiver is left with is a channel of the published facts
\* (tokio::sync::broadcast, as bus.rs uses it), and no longer than Capacity.
THEOREM DeliverIsChannel ==
  ASSUME NEW S, NEW channel \in Channel(S), NEW events \in Seq(S)
  PROVE  /\ Deliver(channel, events) \in Channel(S)
         /\ Len(Deliver(channel, events).queue) <= Capacity
<1> DEFINE all  == channel.queue \o events
           over == Len(all) - Capacity
<1>1. channel.queue \in Seq(S) /\ channel.lagged \in BOOLEAN
  BY DEF Channel
<1>2. all \in Seq(S) /\ Len(all) \in Nat
  BY <1>1, ConcatProperties
<1>3. Capacity \in Nat /\ Capacity > 0
  BY BusAssumption
<1>4. CASE Len(all) > Capacity
  <2> DEFINE kept == SubSeq(all, over + 1, Len(all))
  <2>1. over + 1 \in Nat /\ over + 1 >= 1 /\ over + 1 <= Len(all)
        /\ Len(all) - (over + 1) + 1 = Capacity
    BY <1>2, <1>3, <1>4
  <2>2. kept \in Seq(S) /\ Len(kept) = Capacity
    <3> HIDE DEF all, over
    <3> QED BY <1>2, <2>1, SliceIsSeq
  <2>3. Deliver(channel, events) = [queue |-> kept, lagged |-> TRUE]
    BY <1>4 DEF Deliver
  <2> HIDE DEF kept
  <2>4. QED
    BY <1>3, <2>2, <2>3 DEF Channel
<1>5. CASE ~(Len(all) > Capacity)
  <2>1. Deliver(channel, events) = [queue |-> all, lagged |-> channel.lagged]
    BY <1>5 DEF Deliver
  <2> HIDE DEF all
  <2>2. QED
    BY <1>1, <1>2, <1>3, <1>5, <2>1 DEF Channel
<1>6. QED
  BY <1>4, <1>5

\* A channel nothing was sent on is a channel.
LEMMA EmptyIsChannel == ASSUME NEW S PROVE EmptyChannel \in Channel(S)
BY DEF EmptyChannel, Channel

\* publish() keeps every channel a channel of facts (bus.rs publish).
THEOREM PublishKeepsChannels ==
  ASSUME NEW S, NEW events \in Seq(S), bus \in [Receivers -> Channel(S)], Publish(events)
  PROVE  bus' \in [Receivers -> Channel(S)]
<1>1. \A r \in Receivers : bus[r] \in Channel(S)
  OBVIOUS
<1>2. \A r \in Receivers : Deliver(bus[r], events) \in Channel(S)
  BY <1>1, DeliverIsChannel
<1>3. QED
  BY <1>2 DEF Publish

\* So do the channels of a process that starts, whatever its late receivers miss.
THEOREM PublishAfreshMakesChannels ==
  ASSUME NEW S, NEW events \in Seq(S), PublishAfresh(events)
  PROVE  bus' \in [Receivers -> Channel(S)]
<1>1. PICK missed \in [Receivers -> 0..Len(events)] :
        bus' = [r \in Receivers |->
                  Deliver(EmptyChannel, SubSeq(events, missed[r] + 1, Len(events)))]
  BY DEF PublishAfresh
<1>2. ASSUME NEW r \in Receivers
      PROVE  SubSeq(events, missed[r] + 1, Len(events)) \in Seq(S)
  <2>1. missed[r] + 1 \in Nat /\ missed[r] + 1 >= 1
    OBVIOUS
  <2>2. QED
    BY <2>1, SliceIsSeq
<1>3. \A r \in Receivers :
        Deliver(EmptyChannel, SubSeq(events, missed[r] + 1, Len(events))) \in Channel(S)
  BY <1>2, EmptyIsChannel, DeliverIsChannel
<1>4. QED
  BY <1>1, <1>3

-----------------------------------------------------------------------------
(* Facts about the operators the handlers are made of *)

\* The fields of a record of each set, for the provers.
LEMMA SessionFields ==
  ASSUME NEW rec \in Session
  PROVE  /\ rec.phase \in Phases /\ rec.phase_pinned \in BOOLEAN /\ rec.adopted \in BOOLEAN
         /\ rec.paused \in BOOLEAN /\ rec.hidden \in BOOLEAN /\ rec.trust_tier \in Tiers
         /\ rec.title \in Titles \cup {None} /\ rec.root \in Roots \cup {None}
         /\ rec.status \in Statuses
BY DEF Session

\* next() stays among the phases (phase.rs next).
LEMMA NextPhaseTyped == \A p \in Phases : NextPhase(p) \in Phases
BY DEF NextPhase, Phases

\* What an entry becomes when one of its fields is assigned is an entry.
LEMMA AmendedIsSession ==
  ASSUME NEW rec \in Session
  PROVE  /\ \A b \in BOOLEAN : /\ [rec EXCEPT !.adopted = b] \in Session
                               /\ [rec EXCEPT !.paused = b] \in Session
                               /\ [rec EXCEPT !.hidden = b] \in Session
                               /\ [rec EXCEPT !.phase_pinned = b] \in Session
         /\ \A tier \in Tiers : [rec EXCEPT !.trust_tier = tier] \in Session
         /\ \A title \in Titles : [rec EXCEPT !.title = title] \in Session
         /\ \A root \in Roots : [rec EXCEPT !.root = root] \in Session
         /\ \A status \in Statuses : [rec EXCEPT !.status = status] \in Session
         /\ \A p \in Phases : [rec EXCEPT !.phase = p] \in Session
         /\ \A p \in Phases, pin \in BOOLEAN : InPhase(rec, p, pin) \in Session
BY DEF Session, InPhase

\* A session is stored as a row, and a row restored as a session, at rest
\* (store.rs from_session, to_session).
LEMMA Conversions ==
  /\ \A rec \in Session : FromSession(rec) \in ManagedSession
  /\ \A row \in ManagedSession : ToSession(row) \in Session
<1>1. "Idle" \in Statuses
  BY SupervisorAssumption
<1>2. QED
  BY <1>1 DEF FromSession, ToSession, Session, ManagedSession

\* persist() leaves a row or none (supervisor.rs persist).
LEMMA PersistedRowTyped ==
  ASSUME NEW rec \in Session, NEW row \in ManagedSession \cup {Absent}
  PROVE  PersistedRow(rec, row) \in ManagedSession \cup {Absent}
<1>1. FromSession(rec) \in ManagedSession
  BY Conversions
<1>2. CASE row = Absent
  BY <1>1, <1>2 DEF PersistedRow
<1>3. CASE row # Absent
  <2>1. row \in ManagedSession
    BY <1>3
  <2>2. [FromSession(rec) EXCEPT !.root = row.root] \in ManagedSession
    BY <1>1, <2>1 DEF ManagedSession
  <2>3. QED
    BY <1>3, <2>2 DEF PersistedRow
<1>4. QED
  BY <1>2, <1>3

\* The facts the handlers publish.
LEMMA FactsTyped ==
  ASSUME NEW s \in Sessions
  PROVE  /\ \A rec \in Session : Upserted(s, rec) \in Events
         /\ \A p \in Phases : PhaseTransitioned(s, p) \in Events
         /\ Removed(s) \in Events
         /\ \A kind \in NoticeKinds : Notice(kind, s) \in Events
BY DEF Upserted, PhaseTransitioned, Removed, Notice, Events

\* apply_phase publishes a sequence of facts.
LEMMA PhaseFactsTyped ==
  ASSUME NEW s \in Sessions, NEW rec \in Session, NEW p \in Phases, NEW pin \in BOOLEAN
  PROVE  PhaseFacts(s, rec, p, pin) \in Seq(Events)
<1>1. Upserted(s, InPhase(rec, p, pin)) \in Events
  BY AmendedIsSession, FactsTyped
<1>2. Notice("AuditAppended", s) \in Events /\ Notice("ReviewReady", s) \in Events
  BY FactsTyped DEF NoticeKinds
<1>3. /\ <<Upserted(s, InPhase(rec, p, pin))>> \in Seq(Events)
      /\ (IF p = "Plan" /\ rec.phase # "Plan" THEN <<Notice("AuditAppended", s)>> ELSE <<>>)
           \in Seq(Events)
      /\ (IF p = "Review" THEN <<Notice("ReviewReady", s)>> ELSE <<>>) \in Seq(Events)
  BY <1>1, <1>2
<1>4. QED
  BY <1>3, ConcatProperties DEF PhaseFacts

\* A republish of any sessions of a fleet is a sequence of facts, one per session.
LEMMA UpsertAllTyped ==
  ASSUME NEW S \in SUBSET Sessions, NEW order \in Orderings(S), NEW live,
         \A s \in S : live[s] \in Session
  PROVE  UpsertAll(order, live) \in Seq(Events)
<1>1. Cardinality(S) \in Nat
  BY SupervisorAssumption, FS_Subset, FS_CardinalityType
<1>2. order \in [1..Cardinality(S) -> S]
  BY DEF Orderings
<1>3. \A i \in 1..Cardinality(S) : Upserted(order[i], live[order[i]]) \in Events
  BY <1>2, FactsTyped
<1>4. UpsertAll(order, live) = [i \in 1..Cardinality(S) |-> Upserted(order[i], live[order[i]])]
  BY <1>2 DEF UpsertAll
<1>5. QED
  BY <1>1, <1>3, <1>4

\* A fleet with the missing rows restored is a fleet (supervisor.rs hydrate_from_store).
LEMMA HydratedTyped ==
  ASSUME TypeOK, NEW live \in [Sessions -> Session \cup {Absent}]
  PROVE  /\ Hydrated(live) \in [Sessions -> Session \cup {Absent}]
         /\ \A s \in Missing(live) : Hydrated(live)[s] \in Session
<1>1. \A s \in Sessions : Managed(s) => ToSession(store[s]) \in Session
  BY Conversions DEF TypeOK, Managed
<1>2. QED
  BY <1>1 DEF Hydrated, Missing

-----------------------------------------------------------------------------
(* The handlers, by what they do to the state *)

\* Persisting an entry keeps the rows well formed, and so does failing to.
LEMMA PersistTyped ==
  ASSUME TypeOK, NEW s \in Sessions, NEW rec \in Session, Persist(s, rec)
  PROVE  store' \in [Sessions -> ManagedSession \cup {Absent}]
<1>1. PersistedRow(rec, store[s]) \in ManagedSession \cup {Absent}
  BY PersistedRowTyped DEF TypeOK
<1>2. QED
  BY <1>1 DEF Persist, TypeOK

\* A handler that assigns one entry, persists it or not, and publishes facts.
LEMMA HandlerTyped ==
  ASSUME TypeOK, NEW s \in Sessions, NEW rec \in Session \cup {Absent},
         NEW facts \in Seq(Events), fleet' = [fleet EXCEPT ![s] = rec],
         store' \in [Sessions -> ManagedSession \cup {Absent}], Publish(facts)
  PROVE  TypeOK'
<1>1. bus' \in [Receivers -> Channel(Events)]
  BY PublishKeepsChannels DEF TypeOK
<1>2. fleet' \in [Sessions -> Session \cup {Absent}]
  BY DEF TypeOK
<1>3. QED
  BY <1>1, <1>2 DEF TypeOK

\* A handler that only publishes one fact.
LEMMA NoticeTyped ==
  ASSUME TypeOK, NEW e \in Events, Publish(<<e>>), UNCHANGED <<fleet, store>>
  PROVE  TypeOK'
<1>1. <<e>> \in Seq(Events)
  OBVIOUS
<1>2. bus' \in [Receivers -> Channel(Events)]
  BY <1>1, PublishKeepsChannels DEF TypeOK
<1>3. QED
  BY <1>2 DEF TypeOK

\* A handler that assigns, persists and republishes one row.
LEMMA AmendTyped ==
  ASSUME TypeOK, NEW s \in Sessions, NEW rec \in Session, Amend(s, rec)
  PROVE  TypeOK'
<1>1. <<Upserted(s, rec)>> \in Seq(Events)
  BY FactsTyped
<1>2. QED
  BY <1>1, PersistTyped, HandlerTyped DEF Amend

\* The one handler that moves a phase (supervisor.rs apply_phase).
LEMMA ApplyPhaseTyped ==
  ASSUME TypeOK, NEW s \in Sessions, NEW p \in Phases, NEW pin \in BOOLEAN,
         ApplyPhase(s, p, pin)
  PROVE  TypeOK'
<1>1. fleet[s] \in Session
  BY DEF ApplyPhase, Known, TypeOK
<1>2. InPhase(fleet[s], p, pin) \in Session /\ PhaseFacts(s, fleet[s], p, pin) \in Seq(Events)
  BY <1>1, AmendedIsSession, PhaseFactsTyped
<1>3. fleet' = [fleet EXCEPT ![s] = InPhase(fleet[s], p, pin)]
  BY DEF ApplyPhase
<1>4. QED
  BY <1>2, <1>3, PersistTyped, HandlerTyped DEF ApplyPhase

-----------------------------------------------------------------------------
(* Operator commands *)

\* Every command's handler keeps the state well formed (supervisor.rs handle_command).
LEMMA OperatorTyped ==
  ASSUME TypeOK, NEW s \in Sessions, Operator(s)
  PROVE  TypeOK'
<1>0. Known(s) => fleet[s] \in Session
  BY DEF Known, TypeOK
<1>1. CASE ToggleAdoption(s)
  <2>1. [fleet[s] EXCEPT !.adopted = ~@] \in Session
    BY <1>0, <1>1, AmendedIsSession, SessionFields DEF ToggleAdoption
  <2>2. QED
    BY <1>1, <2>1, AmendTyped DEF ToggleAdoption
<1>2. ASSUME NEW adopted \in BOOLEAN, SetAdopted(s, adopted) PROVE TypeOK'
  BY <1>0, <1>2, AmendedIsSession, AmendTyped DEF SetAdopted
<1>3. ASSUME NEW tier \in Tiers, SetTrust(s, tier) PROVE TypeOK'
  BY <1>0, <1>3, AmendedIsSession, AmendTyped DEF SetTrust
<1>4. CASE TogglePause(s)
  <2>1. [fleet[s] EXCEPT !.paused = ~@] \in Session
    BY <1>0, <1>4, AmendedIsSession, SessionFields DEF TogglePause
  <2>2. QED
    BY <1>4, <2>1, AmendTyped DEF TogglePause
<1>5. ASSUME NEW hidden \in BOOLEAN, SetHidden(s, hidden) PROVE TypeOK'
  BY <1>0, <1>5, AmendedIsSession, AmendTyped DEF SetHidden
<1>6. ASSUME NEW pinned \in BOOLEAN, SetPhasePinned(s, pinned) PROVE TypeOK'
  BY <1>0, <1>6, AmendedIsSession, AmendTyped DEF SetPhasePinned
<1>7. ASSUME NEW p \in Phases, SetPhase(s, p) PROVE TypeOK'
  BY <1>7, ApplyPhaseTyped DEF SetPhase
<1>8. CASE AdvancePhase(s)
  <2>1. NextPhase(fleet[s].phase) \in Phases
    BY <1>0, <1>8, SessionFields, NextPhaseTyped DEF AdvancePhase
  <2>2. QED
    BY <1>8, <2>1, ApplyPhaseTyped DEF AdvancePhase
<1>9. CASE ApprovePlan(s)
  <2>1. NextPhase("Plan") \in Phases /\ Notice("PhaseAdvanceRequested", s) \in Events
    BY NextPhaseTyped, FactsTyped DEF Phases, NoticeKinds
  <2>2. QED
    BY <1>9, <2>1, ApplyPhaseTyped, NoticeTyped DEF ApprovePlan
<1>10. CASE ApproveAction(s)
  <2>1. /\ <<Notice("SessionStateChanged", s)>> \in Seq(Events)
        /\ Notice("AuditAppended", s) \in Events
    BY FactsTyped DEF NoticeKinds
  <2>2. ASSUME fleet' = [fleet EXCEPT ![s] = IF Known(s) THEN [@ EXCEPT !.status = "Running"]
                                                        ELSE @],
               Publish(<<Notice("SessionStateChanged", s)>>), UNCHANGED store
        PROVE  TypeOK'
    <3>1. (IF Known(s) THEN [fleet[s] EXCEPT !.status = "Running"] ELSE fleet[s])
            \in Session \cup {Absent}
      BY <1>0, AmendedIsSession, SupervisorAssumption DEF Known
    <3>2. fleet' = [fleet EXCEPT ![s] =
                      IF Known(s) THEN [fleet[s] EXCEPT !.status = "Running"] ELSE fleet[s]]
      BY <2>2
    <3>3. store' \in [Sessions -> ManagedSession \cup {Absent}]
      BY <2>2 DEF TypeOK
    <3>4. QED
      BY <2>1, <2>2, <3>1, <3>2, <3>3, HandlerTyped
  <2>3. QED
    BY <1>10, <2>1, <2>2, NoticeTyped DEF ApproveAction
<1>11. CASE InjectFeedback(s) \/ FlagSession(s)
  BY <1>11, FactsTyped, NoticeTyped DEF InjectFeedback, FlagSession, NoticeKinds
<1>12. CASE ForgetSession(s)
  <2>1. <<Removed(s)>> \in Seq(Events)
    BY FactsTyped
  <2>2. store' \in [Sessions -> ManagedSession \cup {Absent}]
    BY <1>12 DEF ForgetSession, TypeOK
  <2>3. QED
    BY <1>12, <2>1, <2>2, HandlerTyped DEF ForgetSession
<1>13. ASSUME NEW root \in Roots \cup {None}, SpawnSession(s, root) PROVE TypeOK'
  <2> DEFINE rec == [phase |-> "Plan", phase_pinned |-> FALSE, adopted |-> FALSE,
                     paused |-> FALSE, hidden |-> FALSE, trust_tier |-> "Observed",
                     title |-> None, root |-> root, status |-> "Running"]
  <2>1. rec \in Session
    BY SupervisorAssumption DEF Session, Phases
  <2>2. /\ fleet' = [fleet EXCEPT ![s] = rec] /\ Publish(<<Upserted(s, rec)>>)
        /\ store' = store
    BY <1>13 DEF SpawnSession
  <2> HIDE DEF rec
  <2>3. <<Upserted(s, rec)>> \in Seq(Events)
    BY <2>1, FactsTyped
  <2>4. QED
    BY <2>1, <2>2, <2>3, HandlerTyped DEF TypeOK
<1>14. ASSUME NEW p \in Phases, NEW tier \in Tiers, NEW root \in Roots,
              RecordLaunch(s, p, tier, root)
       PROVE  TypeOK'
  <2>1. [phase |-> p, phase_pinned |-> FALSE, adopted |-> TRUE, paused |-> FALSE,
         hidden |-> FALSE, trust_tier |-> tier, title |-> None, root |-> root]
          \in ManagedSession
    BY DEF ManagedSession
  <2>2. QED
    BY <1>14, <2>1 DEF RecordLaunch, TypeOK
<1>15. QED
  BY <1>1, <1>2, <1>3, <1>4, <1>5, <1>6, <1>7, <1>8, <1>9, <1>10, <1>11, <1>12, <1>13, <1>14
     DEF Operator

-----------------------------------------------------------------------------
(* Detection *)

\* A status, with the phase a done checkpoint moves (supervisor.rs apply_status).
LEMMA StatusChangedTyped ==
  ASSUME TypeOK, NEW s \in Sessions, NEW status \in Statuses, StatusChanged(s, status)
  PROVE  TypeOK'
<1> DEFINE rec  == [fleet[s] EXCEPT !.status = status]
           told == Notice("SessionStateChanged", s)
           next == InPhase(rec, NextPhase(rec.phase), FALSE)
           facts == PhaseFacts(s, rec, NextPhase(rec.phase), FALSE)
<1>1. fleet[s] \in Session
  BY DEF StatusChanged, Known, TypeOK
<1>2. rec \in Session
  BY <1>1, AmendedIsSession
<1>3. NextPhase(rec.phase) \in Phases
  BY <1>2, SessionFields, NextPhaseTyped
<1>4. next \in Session /\ facts \in Seq(Events)
  <2> HIDE DEF rec
  <2> QED BY <1>2, <1>3, AmendedIsSession, PhaseFactsTyped
<1>5. told \in Events /\ Notice("PhaseAdvanceRequested", s) \in Events
  BY FactsTyped DEF NoticeKinds
<1>6. <<told>> \in Seq(Events) /\ <<told, Notice("PhaseAdvanceRequested", s)>> \in Seq(Events)
  <2> HIDE DEF told
  <2> QED BY <1>5
<1>7. <<told>> \o facts \in Seq(Events)
  BY <1>4, <1>6, ConcatProperties
<1>8. PersistedRow(rec, store[s]) \in ManagedSession \cup {Absent}
  BY <1>2, PersistedRowTyped DEF TypeOK
<1>9. \/ /\ fleet' = [fleet EXCEPT ![s] = rec] /\ Persist(s, rec)
         /\ \/ Publish(<<told>>)
            \/ Publish(<<told, Notice("PhaseAdvanceRequested", s)>>)
      \/ /\ fleet' = [fleet EXCEPT ![s] = next]
         /\ \/ Persist(s, next)
            \/ store' = [store EXCEPT ![s] = PersistedRow(rec, store[s])]
         /\ Publish(<<told>> \o facts)
  BY DEF StatusChanged
<1>10. [store EXCEPT ![s] = PersistedRow(rec, store[s])]
         \in [Sessions -> ManagedSession \cup {Absent}]
  BY <1>8 DEF TypeOK
<1> HIDE DEF rec, told, next, facts
<1>11. CASE fleet' = [fleet EXCEPT ![s] = rec] /\ Persist(s, rec)
  BY <1>2, <1>4, <1>6, <1>7, <1>9, <1>11, PersistTyped, HandlerTyped
<1>12. CASE fleet' = [fleet EXCEPT ![s] = next] /\ Persist(s, next)
  BY <1>4, <1>6, <1>7, <1>9, <1>12, PersistTyped, HandlerTyped
<1>13. CASE /\ fleet' = [fleet EXCEPT ![s] = next]
            /\ store' = [store EXCEPT ![s] = PersistedRow(rec, store[s])]
            /\ Publish(<<told>> \o facts)
  BY <1>4, <1>7, <1>10, <1>13, HandlerTyped
<1>14. QED
  BY <1>9, <1>11, <1>12, <1>13

\* The working directory, and the adoption its root may call for
\* (supervisor.rs on_detection, maybe_auto_adopt).
LEMMA WorkspaceObservedTyped ==
  ASSUME TypeOK, NEW s \in Sessions, NEW root \in Roots, WorkspaceObserved(s, root)
  PROVE  TypeOK'
<1> DEFINE moved   == [fleet[s] EXCEPT !.root = root]
           adopted == [moved EXCEPT !.adopted = TRUE]
           facts   == IF moved # fleet[s] THEN <<Upserted(s, moved)>> ELSE <<>>
<1>1. moved \in Session
  BY AmendedIsSession DEF WorkspaceObserved, Known, TypeOK
<1>2. adopted \in Session
  <2> HIDE DEF moved
  <2> QED BY <1>1, AmendedIsSession
<1>3. /\ Upserted(s, moved) \in Events /\ <<Upserted(s, adopted)>> \in Seq(Events)
  <2> HIDE DEF moved, adopted
  <2> QED BY <1>1, <1>2, FactsTyped
<1>4. facts \in Seq(Events)
  BY <1>3
<1>5. facts \o <<Upserted(s, adopted)>> \in Seq(Events)
  BY <1>3, <1>4, ConcatProperties
<1>6. \/ /\ fleet' = [fleet EXCEPT ![s] = adopted] /\ Persist(s, adopted)
         /\ Publish(facts \o <<Upserted(s, adopted)>>)
      \/ /\ fleet' = [fleet EXCEPT ![s] = moved] /\ store' = store /\ Publish(facts)
  BY DEF WorkspaceObserved
<1> HIDE DEF moved, adopted, facts
<1>7. CASE store' = store
  BY <1>1, <1>2, <1>4, <1>5, <1>6, <1>7, HandlerTyped DEF TypeOK
<1>8. CASE Persist(s, adopted)
  BY <1>1, <1>2, <1>4, <1>5, <1>6, <1>8, PersistTyped, HandlerTyped
<1>9. QED
  BY <1>6, <1>7, <1>8

\* A discovered session starts from the defaults, or from what its row seeds
\* (supervisor.rs discovered_session, on_detection).
LEMMA SeededTyped ==
  /\ DiscoveredSession \in Session
  /\ \A row \in ManagedSession : Seeded(row) \in Session
<1>1. DiscoveredSession \in Session
  BY SupervisorAssumption DEF DiscoveredSession, Session, Phases
<1>2. ASSUME NEW row \in ManagedSession PROVE Seeded(row) \in Session
  <2>1. row.adopted \in BOOLEAN /\ row.phase \in Phases /\ row.trust_tier \in Tiers
    BY DEF ManagedSession
  <2>2. QED
    BY <1>1, <2>1 DEF Seeded, Session
<1>3. QED
  BY <1>1, <1>2

\* Every observation keeps the state well formed (supervisor.rs on_detection).
LEMMA DetectionTyped ==
  ASSUME TypeOK, NEW s \in Sessions, Detection(s)
  PROVE  TypeOK'
<1>0. /\ Known(s) => fleet[s] \in Session
      /\ Managed(s) => store[s] \in ManagedSession
  BY DEF Known, Managed, TypeOK
<1>1. ASSUME NEW status \in Statuses, StatusChanged(s, status) PROVE TypeOK'
  BY <1>1, StatusChangedTyped
<1>2. CASE PhaseObserved(s)
  <2>1. [fleet[s] EXCEPT !.phase = "Plan"] \in Session
    BY <1>0, <1>2, AmendedIsSession DEF PhaseObserved, Phases
  <2>2. <<PhaseTransitioned(s, "Plan")>> \in Seq(Events)
    BY FactsTyped DEF Phases
  <2>3. QED
    BY <1>2, <2>1, <2>2, PersistTyped, HandlerTyped DEF PhaseObserved
<1>3. ASSUME NEW title \in Titles, TitleObserved(s, title) PROVE TypeOK'
  BY <1>0, <1>3, AmendedIsSession, AmendTyped DEF TitleObserved
<1>4. ASSUME NEW root \in Roots, WorkspaceObserved(s, root) PROVE TypeOK'
  BY <1>4, WorkspaceObservedTyped
<1>5. CASE Discovered(s)
  <2>1. PICK rec \in Session : /\ fleet' = [fleet EXCEPT ![s] = rec]
                               /\ Publish(<<Upserted(s, rec)>>)
                               /\ store' = store
    BY <1>0, <1>5, SeededTyped DEF Discovered
  <2>2. <<Upserted(s, rec)>> \in Seq(Events)
    BY FactsTyped
  <2>3. QED
    BY <2>1, <2>2, HandlerTyped DEF TypeOK
<1>6. CASE Ended(s)
  <2>1. [fleet[s] EXCEPT !.status = "Idle"] \in Session
    BY <1>0, <1>6, AmendedIsSession, SupervisorAssumption DEF Ended
  <2>2. <<Upserted(s, [fleet[s] EXCEPT !.status = "Idle"])>> \in Seq(Events)
    BY <2>1, FactsTyped
  <2>3. <<Notice("SessionStateChanged", s)>> \in Seq(Events)
    BY FactsTyped DEF NoticeKinds
  <2>4. store' \in [Sessions -> ManagedSession \cup {Absent}]
    BY <1>6 DEF Ended, TypeOK
  <2>5. QED
    BY <1>6, <2>1, <2>2, <2>3, <2>4, HandlerTyped DEF Ended
<1>7. ASSUME NEW kind \in {"PlanProposed", "SummaryObserved"}, PassedOn(s, kind)
      PROVE  TypeOK'
  BY <1>7, FactsTyped, NoticeTyped DEF PassedOn, NoticeKinds
<1>8. QED
  BY <1>1, <1>2, <1>3, <1>4, <1>5, <1>6, <1>7 DEF Detection

-----------------------------------------------------------------------------
(* Boot, resynchronisation, and the theorem *)

\* Restoring the missing rows of a running fleet.
LEMMA RehydrateTyped == ASSUME TypeOK, RehydrateFleet PROVE TypeOK'
<1>1. PICK order \in Orderings(Missing(fleet)) : Publish(UpsertAll(order, Hydrated(fleet)))
  BY DEF RehydrateFleet, Hydrate
<1>2. /\ Hydrated(fleet) \in [Sessions -> Session \cup {Absent}]
      /\ \A s \in Missing(fleet) : Hydrated(fleet)[s] \in Session
  BY HydratedTyped DEF TypeOK
<1>3. UpsertAll(order, Hydrated(fleet)) \in Seq(Events)
  BY <1>2, UpsertAllTyped DEF Missing
<1>4. bus' \in [Receivers -> Channel(Events)]
  BY <1>1, <1>3, PublishKeepsChannels DEF TypeOK
<1>5. QED
  BY <1>2, <1>4 DEF RehydrateFleet, Hydrate, TypeOK

\* Publishing every row again.
LEMMA RepublishTyped == ASSUME TypeOK, RepublishFleet PROVE TypeOK'
<1> DEFINE known == {s \in Sessions : Known(s)}
<1>1. PICK order \in Orderings(known) : Publish(UpsertAll(order, fleet))
  BY DEF RepublishFleet
<1>2. \A s \in known : fleet[s] \in Session
  BY DEF Known, TypeOK
<1>3. UpsertAll(order, fleet) \in Seq(Events)
  BY <1>2, UpsertAllTyped
<1>4. bus' \in [Receivers -> Channel(Events)]
  BY <1>1, <1>3, PublishKeepsChannels DEF TypeOK
<1>5. QED
  BY <1>4 DEF RepublishFleet, TypeOK

\* A crash, and the boot that follows it.
LEMMA CrashRestartTyped == ASSUME TypeOK, CrashRestart PROVE TypeOK'
<1> DEFINE empty == [s \in Sessions |-> Absent]
<1>1. /\ Hydrated(empty) \in [Sessions -> Session \cup {Absent}]
      /\ \A s \in Missing(empty) : Hydrated(empty)[s] \in Session
  <2>1. empty \in [Sessions -> Session \cup {Absent}]
    OBVIOUS
  <2> HIDE DEF empty
  <2>2. QED
    BY <2>1, HydratedTyped
<1>2. \A order \in Orderings(Missing(empty)) : UpsertAll(order, Hydrated(empty)) \in Seq(Events)
  <2>1. Missing(empty) \in SUBSET Sessions
    BY DEF Missing
  <2> HIDE DEF empty
  <2>2. QED
    BY <1>1, <2>1, UpsertAllTyped
<1>3. \/ /\ fleet' = Hydrated(empty)
         /\ \E order \in Orderings(Missing(empty)) :
              PublishAfresh(UpsertAll(order, Hydrated(empty)))
      \/ fleet' = empty /\ PublishAfresh(<<>>)
  BY DEF CrashRestart
<1>4. bus' \in [Receivers -> Channel(Events)]
  <2>1. <<>> \in Seq(Events)
    OBVIOUS
  <2> HIDE DEF empty
  <2>2. QED
    BY <1>2, <1>3, <2>1, PublishAfreshMakesChannels
<1>5. fleet' \in [Sessions -> Session \cup {Absent}]
  BY <1>1, <1>3
<1>6. QED
  BY <1>4, <1>5 DEF CrashRestart, TypeOK

\* One step, whichever it is.
LEMMA StepTyped == ASSUME TypeOK, [Next]_vars PROVE TypeOK'
<1>1. ASSUME NEW s \in Sessions, Operator(s) PROVE TypeOK'
  BY <1>1, OperatorTyped
<1>2. ASSUME NEW s \in Sessions, Detection(s) PROVE TypeOK'
  BY <1>2, DetectionTyped
<1>3. CASE UNCHANGED vars
  BY <1>3 DEF vars, TypeOK
<1>4. QED
  BY <1>1, <1>2, <1>3, RehydrateTyped, RepublishTyped, CrashRestartTyped DEF Next

\* The fleet, the rows and every queued fact stay well formed, whatever the store does
\* and whenever the process dies (supervisor.rs, every handler).
THEOREM TypeCorrect == Spec => []TypeOK
<1>1. Init => TypeOK
  <2> SUFFICES ASSUME Init PROVE TypeOK
    OBVIOUS
  <2>1. bus \in [Receivers -> Channel(Events)]
    BY EmptyIsChannel DEF Init, BusInit
  <2>2. QED
    BY <2>1 DEF Init, TypeOK
<1>2. TypeOK /\ [Next]_vars => TypeOK'
  BY StepTyped
<1>3. QED
  BY <1>1, <1>2, PTL DEF Spec

-----------------------------------------------------------------------------
(* Durability                                                              *)

Durable == AdoptedIsDurable /\ ReleasedIsDurable /\ UndiscoveredRowIsFresh

\* What the supervisor owns.  Whoever else publishes, or reads what was published, takes
\* steps that leave these alone.
governed == <<fleet, store>>

\* A step of the supervisor is one of its handlers, or leaves them alone.
LEMMA StepGoverns == ASSUME [Next]_vars PROVE [Next]_governed
BY DEF vars, governed

\* At boot there is nothing to keep.
LEMMA StartsDurable == Init => Durable
BY DEF Init, Durable, AdoptedIsDurable, ReleasedIsDurable, UndiscoveredRowIsFresh, Adopted,
       Known, Managed

-----------------------------------------------------------------------------
(* How a step can break Durable: through the one session it touches *)

\* What Durable says of one session.
DurableOf(s) ==
  /\ Adopted(s) => Managed(s) /\ Agrees(store[s], fleet[s])
  /\ Known(s) /\ ~fleet[s].adopted /\ Managed(s) =>
       /\ ~store[s].adopted /\ store[s].phase = fleet[s].phase
       /\ store[s].trust_tier = fleet[s].trust_tier
  /\ ~Known(s) /\ Managed(s) /\ store[s].adopted =>
       /\ ~store[s].phase_pinned /\ ~store[s].paused /\ ~store[s].hidden
       /\ store[s].title = None

\* Durable is a property of each session by itself.
LEMMA DurableBySession == Durable <=> \A s \in Sessions : DurableOf(s)
BY DEF Durable, DurableOf, AdoptedIsDurable, ReleasedIsDurable, UndiscoveredRowIsFresh

\* So a step that touches one session is judged on that session alone.
LEMMA OneSessionStep ==
  ASSUME Durable, NEW s \in Sessions, DurableOf(s)',
         \A t \in Sessions \ {s} : fleet'[t] = fleet[t] /\ store'[t] = store[t]
  PROVE  Durable'
<1>1. \A t \in Sessions \ {s} : DurableOf(t)
  BY DurableBySession
<1>2. \A t \in Sessions \ {s} : DurableOf(t)'
  BY <1>1 DEF DurableOf, Adopted, Known, Managed, Agrees, FromSession
<1>3. \A t \in Sessions : DurableOf(t)'
  BY <1>2
<1>4. QED
  BY <1>3 DEF Durable, DurableOf, AdoptedIsDurable, ReleasedIsDurable, UndiscoveredRowIsFresh

\* An entry and a row that agree field by field agree.
LEMMA AgreesByField ==
  ASSUME NEW row \in ManagedSession, NEW rec \in Session,
         row.phase = rec.phase, row.phase_pinned = rec.phase_pinned,
         row.adopted = rec.adopted, row.paused = rec.paused, row.hidden = rec.hidden,
         row.trust_tier = rec.trust_tier, row.title = rec.title
  PROVE  Agrees(row, rec)
BY DEF Agrees, FromSession, ManagedSession, Session

\* And one that agrees agrees field by field.
LEMMA AgreesFields ==
  ASSUME NEW row, NEW rec, Agrees(row, rec)
  PROVE  /\ row.phase = rec.phase /\ row.phase_pinned = rec.phase_pinned
         /\ row.adopted = rec.adopted /\ row.paused = rec.paused /\ row.hidden = rec.hidden
         /\ row.trust_tier = rec.trust_tier /\ row.title = rec.title
<1>1. row = [FromSession(rec) EXCEPT !.root = row.root]
  BY DEF Agrees
<1>2. /\ [FromSession(rec) EXCEPT !.root = row.root].phase = rec.phase
      /\ [FromSession(rec) EXCEPT !.root = row.root].phase_pinned = rec.phase_pinned
      /\ [FromSession(rec) EXCEPT !.root = row.root].adopted = rec.adopted
      /\ [FromSession(rec) EXCEPT !.root = row.root].paused = rec.paused
      /\ [FromSession(rec) EXCEPT !.root = row.root].hidden = rec.hidden
      /\ [FromSession(rec) EXCEPT !.root = row.root].trust_tier = rec.trust_tier
      /\ [FromSession(rec) EXCEPT !.root = row.root].title = rec.title
  BY DEF FromSession
<1>3. QED
  BY <1>1, <1>2

\* The heart of it: a handler that persists the entry it leaves in the fleet keeps the
\* store honest, whatever it did to the entry (supervisor.rs persist: UPDATE, and insert
\* for an adopted session).
LEMMA PersistingIsDurable ==
  ASSUME TypeOK, Durable, ~StoreFaults, NEW s \in Sessions, NEW rec \in Session,
         fleet' = [fleet EXCEPT ![s] = rec], Persist(s, rec)
  PROVE  Durable'
<1>1. store' = [store EXCEPT ![s] = PersistedRow(rec, store[s])]
  BY DEF Persist
<1>2. fleet'[s] = rec /\ store'[s] = PersistedRow(rec, store[s])
  BY <1>1 DEF TypeOK
<1>3. rec # Absent /\ (store[s] # Absent => store[s] \in ManagedSession)
  BY AbsentAssumption DEF TypeOK
<1>4. CASE store[s] = Absent /\ ~rec.adopted
  BY <1>1, <1>2, <1>3, <1>4, OneSessionStep
     DEF DurableOf, Adopted, Known, Managed, PersistedRow, TypeOK
<1>5. CASE store[s] # Absent \/ rec.adopted
  <2>1. store'[s] \in ManagedSession
    <3>1. FromSession(rec) \in ManagedSession
      BY Conversions
    <3>2. store[s] # Absent => [FromSession(rec) EXCEPT !.root = store[s].root] \in ManagedSession
      BY <1>3, <3>1 DEF ManagedSession
    <3>3. QED
      BY <1>2, <1>5, <3>1, <3>2 DEF PersistedRow
  <2>2. store'[s] # Absent
    BY <2>1, AbsentAssumption
  <2>3. /\ store'[s].phase = rec.phase /\ store'[s].phase_pinned = rec.phase_pinned
        /\ store'[s].adopted = rec.adopted /\ store'[s].paused = rec.paused
        /\ store'[s].hidden = rec.hidden /\ store'[s].trust_tier = rec.trust_tier
        /\ store'[s].title = rec.title
    BY <1>2, <1>5 DEF PersistedRow, FromSession
  <2>4. Agrees(store'[s], rec)
    BY <2>1, <2>3, AgreesByField
  <2>5. DurableOf(s)'
    BY <1>2, <1>3, <2>2, <2>3, <2>4 DEF DurableOf, Adopted, Known, Managed, Agrees, FromSession
  <2>6. QED
    BY <1>1, <2>5, OneSessionStep DEF TypeOK
<1>6. QED
  BY <1>4, <1>5

\* A handler that changes only what no row keeps, the status or the working directory,
\* need not persist.
LEMMA LiveFieldsAreFree ==
  ASSUME TypeOK, Durable, NEW s \in Sessions, NEW rec \in Session, Known(s),
         FromSession(rec) = [FromSession(fleet[s]) EXCEPT !.root = rec.root],
         fleet' = [fleet EXCEPT ![s] = rec], store' = store
  PROVE  Durable'
<1>1. fleet[s] \in Session /\ rec # Absent
  BY AbsentAssumption DEF Known, TypeOK
<1>2. /\ FromSession(rec).phase = fleet[s].phase
      /\ FromSession(rec).phase_pinned = fleet[s].phase_pinned
      /\ FromSession(rec).adopted = fleet[s].adopted
      /\ FromSession(rec).paused = fleet[s].paused
      /\ FromSession(rec).hidden = fleet[s].hidden
      /\ FromSession(rec).trust_tier = fleet[s].trust_tier
      /\ FromSession(rec).title = fleet[s].title
  BY DEF FromSession
<1>3. /\ rec.phase = fleet[s].phase /\ rec.phase_pinned = fleet[s].phase_pinned
      /\ rec.adopted = fleet[s].adopted /\ rec.paused = fleet[s].paused
      /\ rec.hidden = fleet[s].hidden /\ rec.trust_tier = fleet[s].trust_tier
      /\ rec.title = fleet[s].title
  BY <1>2 DEF FromSession
<1>4. fleet'[s] = rec /\ store'[s] = store[s]
  BY DEF TypeOK
<1>5. Managed(s) => store[s] \in ManagedSession
  BY DEF Managed, TypeOK
<1>6. DurableOf(s)
  BY DurableBySession
<1>7. CASE rec.adopted
  <2>1. Managed(s) /\ Agrees(store[s], fleet[s])
    BY <1>1, <1>3, <1>6, <1>7 DEF DurableOf, Adopted, Known
  <2>2. Agrees(store[s], rec)
    BY <1>3, <1>5, <2>1, AgreesFields, AgreesByField
  <2>3. DurableOf(s)'
    BY <1>1, <1>4, <1>7, <2>1, <2>2 DEF DurableOf, Adopted, Known, Managed, Agrees, FromSession
  <2>4. QED
    BY <2>3, OneSessionStep DEF TypeOK
<1>8. CASE ~rec.adopted
  <2>1. DurableOf(s)'
    BY <1>1, <1>3, <1>4, <1>6, <1>8 DEF DurableOf, Adopted, Known, Managed
  <2>2. QED
    BY <2>1, OneSessionStep DEF TypeOK
<1>9. QED
  BY <1>7, <1>8

-----------------------------------------------------------------------------
(* The steps *)

\* A command keeps Durable (supervisor.rs handle_command).
LEMMA OperatorIsDurable ==
  ASSUME TypeOK, Durable, ~StoreFaults, NEW s \in Sessions, Operator(s)
  PROVE  Durable'
<1>0. Known(s) => fleet[s] \in Session
  BY DEF Known, TypeOK
<1>1. ASSUME NEW rec \in Session, Amend(s, rec) PROVE Durable'
  BY <1>1, PersistingIsDurable DEF Amend
<1>2. ASSUME NEW p \in Phases, NEW pin \in BOOLEAN, ApplyPhase(s, p, pin) PROVE Durable'
  <2>1. InPhase(fleet[s], p, pin) \in Session
    BY <1>0, <1>2, AmendedIsSession DEF ApplyPhase
  <2>2. fleet' = [fleet EXCEPT ![s] = InPhase(fleet[s], p, pin)]
    BY <1>2 DEF ApplyPhase
  <2>3. QED
    BY <1>2, <2>1, <2>2, PersistingIsDurable DEF ApplyPhase
<1>3. ASSUME UNCHANGED <<fleet, store>> PROVE Durable'
  BY <1>3 DEF Durable, AdoptedIsDurable, ReleasedIsDurable, UndiscoveredRowIsFresh, Adopted,
              Known, Managed, Agrees, FromSession
<1>4. CASE ToggleAdoption(s)
  <2>1. [fleet[s] EXCEPT !.adopted = ~@] \in Session
    BY <1>0, <1>4, AmendedIsSession, SessionFields DEF ToggleAdoption
  <2>2. QED
    BY <1>1, <1>4, <2>1 DEF ToggleAdoption
<1>5. CASE TogglePause(s)
  <2>1. [fleet[s] EXCEPT !.paused = ~@] \in Session
    BY <1>0, <1>5, AmendedIsSession, SessionFields DEF TogglePause
  <2>2. QED
    BY <1>1, <1>5, <2>1 DEF TogglePause
<1>6. ASSUME NEW b \in BOOLEAN, SetAdopted(s, b) \/ SetHidden(s, b) \/ SetPhasePinned(s, b)
      PROVE  Durable'
  <2>1. CASE SetAdopted(s, b)
    BY <1>0, <1>1, <2>1, AmendedIsSession DEF SetAdopted
  <2>2. CASE SetHidden(s, b)
    BY <1>0, <1>1, <2>2, AmendedIsSession DEF SetHidden
  <2>3. CASE SetPhasePinned(s, b)
    BY <1>0, <1>1, <2>3, AmendedIsSession DEF SetPhasePinned
  <2>4. QED
    BY <1>6, <2>1, <2>2, <2>3
<1>7. ASSUME NEW tier \in Tiers, SetTrust(s, tier) PROVE Durable'
  BY <1>0, <1>1, <1>7, AmendedIsSession DEF SetTrust
<1>8. ASSUME NEW p \in Phases, SetPhase(s, p) PROVE Durable'
  BY <1>2, <1>8 DEF SetPhase
<1>9. CASE AdvancePhase(s)
  <2>1. NextPhase(fleet[s].phase) \in Phases
    BY <1>0, <1>9, SessionFields, NextPhaseTyped DEF AdvancePhase
  <2>2. QED
    BY <1>2, <1>9, <2>1 DEF AdvancePhase
<1>10. CASE ApprovePlan(s)
  <2>1. NextPhase("Plan") \in Phases
    BY NextPhaseTyped DEF Phases
  <2>2. QED
    BY <1>2, <1>3, <1>10, <2>1 DEF ApprovePlan
<1>11. CASE ApproveAction(s)
  <2>1. CASE Known(s) /\ fleet' # fleet
    <3>1. [fleet[s] EXCEPT !.status = "Running"] \in Session
      BY <1>0, <2>1, AmendedIsSession, SupervisorAssumption
    <3>2. /\ fleet' = [fleet EXCEPT ![s] = [fleet[s] EXCEPT !.status = "Running"]]
          /\ store' = store
      BY <1>11, <2>1 DEF ApproveAction
    <3>3. FromSession([fleet[s] EXCEPT !.status = "Running"])
            = [FromSession(fleet[s]) EXCEPT !.root = [fleet[s] EXCEPT !.status = "Running"].root]
      BY <1>0, <2>1 DEF FromSession, Session
    <3>4. QED
      BY <2>1, <3>1, <3>2, <3>3, LiveFieldsAreFree
  <2>2. CASE ~(Known(s) /\ fleet' # fleet)
    <3>1. fleet' = fleet /\ store' = store
      BY <1>11, <2>2 DEF ApproveAction, TypeOK
    <3>2. QED
      BY <1>3, <3>1
  <2>3. QED
    BY <2>1, <2>2
<1>12. CASE InjectFeedback(s) \/ FlagSession(s)
  BY <1>3, <1>12 DEF InjectFeedback, FlagSession
<1>13. CASE ForgetSession(s)
  <2>1. fleet' = [fleet EXCEPT ![s] = Absent] /\ store' = [store EXCEPT ![s] = Absent]
    BY <1>13 DEF ForgetSession
  <2>2. DurableOf(s)'
    BY <2>1 DEF DurableOf, Adopted, Known, Managed, TypeOK
  <2>3. QED
    BY <2>1, <2>2, OneSessionStep DEF TypeOK
<1>14. ASSUME NEW root \in Roots \cup {None}, SpawnSession(s, root) PROVE Durable'
  <2>1. /\ store' = store /\ store[s] = Absent
        /\ \E rec : ~rec.adopted /\ fleet' = [fleet EXCEPT ![s] = rec]
    BY <1>14 DEF SpawnSession, Managed
  <2>2. ~Managed(s)' /\ ~Adopted(s)'
    BY <2>1 DEF Adopted, Known, Managed, TypeOK
  <2>3. DurableOf(s)'
    BY <2>2 DEF DurableOf
  <2>4. QED
    BY <2>1, <2>3, OneSessionStep DEF TypeOK
<1>15. ASSUME NEW p \in Phases, NEW tier \in Tiers, NEW root \in Roots,
              RecordLaunch(s, p, tier, root)
       PROVE  Durable'
  <2>1. /\ fleet' = fleet /\ ~Known(s)
        /\ \E row : /\ ~row.phase_pinned /\ ~row.paused /\ ~row.hidden /\ row.title = None
                    /\ store' = [store EXCEPT ![s] = row]
    BY <1>15 DEF RecordLaunch
  <2>2. DurableOf(s)'
    BY <2>1 DEF DurableOf, Adopted, Known, Managed, TypeOK
  <2>3. QED
    BY <2>1, <2>2, OneSessionStep DEF TypeOK
<1>16. QED
  BY <1>4, <1>5, <1>6, <1>7, <1>8, <1>9, <1>10, <1>11, <1>12, <1>13, <1>14, <1>15 DEF Operator

\* An observation keeps Durable (supervisor.rs on_detection).
LEMMA DetectionIsDurable ==
  ASSUME TypeOK, Durable, ~StoreFaults, NEW s \in Sessions, Detection(s)
  PROVE  Durable'
<1>0. Known(s) => fleet[s] \in Session
  BY DEF Known, TypeOK
<1>1. ASSUME NEW status \in Statuses, StatusChanged(s, status) PROVE Durable'
  <2> DEFINE rec  == [fleet[s] EXCEPT !.status = status]
             next == InPhase(rec, NextPhase(rec.phase), FALSE)
  <2>1. rec \in Session
    BY <1>0, <1>1, AmendedIsSession DEF StatusChanged
  <2>2. next \in Session
    <3>1. NextPhase(rec.phase) \in Phases
      BY <2>1, SessionFields, NextPhaseTyped
    <3> HIDE DEF rec
    <3>2. QED
      BY <2>1, <3>1, AmendedIsSession
  <2>3. \/ fleet' = [fleet EXCEPT ![s] = rec] /\ Persist(s, rec)
        \/ fleet' = [fleet EXCEPT ![s] = next] /\ Persist(s, next)
    BY <1>1 DEF StatusChanged
  <2> HIDE DEF rec, next
  <2>4. QED
    BY <2>1, <2>2, <2>3, PersistingIsDurable
<1>2. CASE PhaseObserved(s)
  <2>1. [fleet[s] EXCEPT !.phase = "Plan"] \in Session
    BY <1>0, <1>2, AmendedIsSession DEF PhaseObserved, Phases
  <2>2. QED
    BY <1>2, <2>1, PersistingIsDurable DEF PhaseObserved
<1>3. ASSUME NEW title \in Titles, TitleObserved(s, title) PROVE Durable'
  <2>1. [fleet[s] EXCEPT !.title = title] \in Session
    BY <1>0, <1>3, AmendedIsSession DEF TitleObserved
  <2>2. QED
    BY <1>3, <2>1, PersistingIsDurable DEF TitleObserved, Amend
<1>4. ASSUME NEW root \in Roots, WorkspaceObserved(s, root) PROVE Durable'
  <2> DEFINE moved   == [fleet[s] EXCEPT !.root = root]
             adopted == [moved EXCEPT !.adopted = TRUE]
  <2>1. moved \in Session /\ Known(s)
    BY <1>0, <1>4, AmendedIsSession DEF WorkspaceObserved
  <2>2. adopted \in Session
    <3> HIDE DEF moved
    <3> QED BY <2>1, AmendedIsSession
  <2>3. FromSession(moved) = [FromSession(fleet[s]) EXCEPT !.root = moved.root]
    BY <1>0, <2>1 DEF FromSession, Session
  <2>4. \/ fleet' = [fleet EXCEPT ![s] = adopted] /\ Persist(s, adopted)
        \/ fleet' = [fleet EXCEPT ![s] = moved] /\ store' = store
    BY <1>4 DEF WorkspaceObserved
  <2> HIDE DEF moved, adopted
  <2>5. QED
    BY <2>1, <2>2, <2>3, <2>4, PersistingIsDurable, LiveFieldsAreFree
<1>5. CASE Discovered(s)
  <2>1. PICK rec \in (IF Managed(s) THEN {Seeded(store[s])} ELSE {DiscoveredSession}) :
          fleet' = [fleet EXCEPT ![s] = rec]
    BY <1>5 DEF Discovered
  <2>2. store' = store /\ ~Known(s)
    BY <1>5 DEF Discovered
  <2>3. fleet'[s] = rec /\ store'[s] = store[s]
    BY <2>1, <2>2 DEF TypeOK
  <2>4. CASE ~Managed(s)
    <3>1. rec = DiscoveredSession /\ ~rec.adopted
      BY <2>1, <2>4 DEF DiscoveredSession
    <3>2. DurableOf(s)'
      BY <2>3, <2>4, <3>1 DEF DurableOf, Adopted, Known, Managed
    <3>3. QED
      BY <2>1, <2>2, <3>2, OneSessionStep DEF TypeOK
  <2>5. CASE Managed(s)
    <3>1. store[s] \in ManagedSession /\ rec = Seeded(store[s])
      BY <2>1, <2>5 DEF Managed, TypeOK
    <3>2. rec \in Session /\ rec # Absent
      BY <3>1, SeededTyped, AbsentAssumption
    <3>3. /\ rec.adopted = store[s].adopted /\ rec.phase = store[s].phase
          /\ rec.trust_tier = store[s].trust_tier
          /\ rec.phase_pinned = FALSE /\ rec.paused = FALSE /\ rec.hidden = FALSE
          /\ rec.title = None
      BY <3>1 DEF Seeded, DiscoveredSession
    <3>4. store[s].adopted =>
            /\ store[s].phase_pinned = FALSE /\ store[s].paused = FALSE
            /\ store[s].hidden = FALSE /\ store[s].title = None
      BY <2>2, <2>5, <3>1, DurableBySession DEF DurableOf, ManagedSession
    <3>5. store[s].adopted => Agrees(store[s], rec)
      BY <3>1, <3>2, <3>3, <3>4, AgreesByField
    <3>6. DurableOf(s)'
      BY <2>3, <2>5, <3>2, <3>3, <3>5
         DEF DurableOf, Adopted, Known, Managed, Agrees, FromSession
    <3>7. QED
      BY <2>1, <2>2, <3>6, OneSessionStep DEF TypeOK
  <2>6. QED
    BY <2>4, <2>5
<1>6. CASE Ended(s)
  <2>1. store' = store /\ Known(s)
    BY <1>6 DEF Ended
  <2>2. CASE fleet[s].adopted
    <3>1. [fleet[s] EXCEPT !.status = "Idle"] \in Session
      BY <1>0, <2>1, AmendedIsSession, SupervisorAssumption
    <3>2. fleet' = [fleet EXCEPT ![s] = [fleet[s] EXCEPT !.status = "Idle"]]
      BY <1>6, <2>2 DEF Ended
    <3>3. FromSession([fleet[s] EXCEPT !.status = "Idle"])
            = [FromSession(fleet[s]) EXCEPT !.root = [fleet[s] EXCEPT !.status = "Idle"].root]
      BY <1>0, <2>1 DEF FromSession, Session
    <3>4. QED
      BY <2>1, <3>1, <3>2, <3>3, LiveFieldsAreFree
  <2>3. CASE ~fleet[s].adopted
    <3>1. fleet' = [fleet EXCEPT ![s] = Absent]
      BY <1>6, <2>3 DEF Ended
    <3>2. Managed(s) => ~store[s].adopted
      BY <2>1, <2>3, DurableBySession DEF DurableOf
    <3>3. DurableOf(s)'
      BY <2>1, <3>1, <3>2 DEF DurableOf, Adopted, Known, Managed, TypeOK
    <3>4. QED
      BY <2>1, <3>1, <3>3, OneSessionStep DEF TypeOK
  <2>4. QED
    BY <2>2, <2>3
<1>7. ASSUME NEW kind \in {"PlanProposed", "SummaryObserved"}, PassedOn(s, kind)
      PROVE  Durable'
  BY <1>7 DEF PassedOn, Durable, AdoptedIsDurable, ReleasedIsDurable, UndiscoveredRowIsFresh,
              Adopted, Known, Managed, Agrees, FromSession
<1>8. QED
  BY <1>1, <1>2, <1>3, <1>4, <1>5, <1>6, <1>7 DEF Detection

\* A session restored from its row agrees with it (store.rs to_session).
LEMMA RestoredAgrees ==
  ASSUME NEW row \in ManagedSession
  PROVE  /\ Agrees(row, ToSession(row))
         /\ ToSession(row).adopted = row.adopted /\ ToSession(row).phase = row.phase
         /\ ToSession(row).trust_tier = row.trust_tier
<1>1. ToSession(row) \in Session
  BY Conversions
<1>2. /\ ToSession(row).phase = row.phase /\ ToSession(row).phase_pinned = row.phase_pinned
      /\ ToSession(row).adopted = row.adopted /\ ToSession(row).paused = row.paused
      /\ ToSession(row).hidden = row.hidden /\ ToSession(row).trust_tier = row.trust_tier
      /\ ToSession(row).title = row.title
  BY DEF ToSession
<1>3. QED
  BY <1>1, <1>2, AgreesByField

\* Restoring rows into a fleet, empty or not, keeps Durable, for what was not in the fleet
\* comes whole from its row.
LEMMA HydratingIsDurable ==
  ASSUME TypeOK, Durable, store' = store, NEW live,
         \A s \in Sessions : live[s] = fleet[s] \/ live[s] = Absent,
         fleet' = Hydrated(live)
  PROVE  Durable'
<1>1. ASSUME NEW s \in Sessions PROVE DurableOf(s)'
  <2>1. DurableOf(s)
    BY DurableBySession
  <2>2. CASE live[s] # Absent \/ ~Managed(s)
    <3>1. fleet'[s] = live[s] /\ store'[s] = store[s]
      BY <2>2 DEF Hydrated, Managed
    <3>2. QED
      BY <2>1, <2>2, <3>1 DEF DurableOf, Adopted, Known, Managed, Agrees, FromSession
  <2>3. CASE live[s] = Absent /\ Managed(s)
    <3>1. fleet'[s] = ToSession(store[s]) /\ store'[s] = store[s]
      BY <2>3 DEF Hydrated, Managed
    <3>2. store[s] \in ManagedSession
      BY <2>3 DEF Managed, TypeOK
    <3>3. ToSession(store[s]) # Absent
      BY <3>2, Conversions, AbsentAssumption
    <3>4. QED
      BY <2>3, <3>1, <3>2, <3>3, RestoredAgrees
         DEF DurableOf, Adopted, Known, Managed, Agrees, FromSession
  <2>4. QED
    BY <2>2, <2>3
<1>2. QED
  BY <1>1 DEF Durable, DurableOf, AdoptedIsDurable, ReleasedIsDurable, UndiscoveredRowIsFresh

\* Every step keeps Durable, as long as the store does what it is asked.
LEMMA StepIsDurable ==
  ASSUME TypeOK, Durable, ~StoreFaults, [Next]_governed
  PROVE  Durable'
<1>1. ASSUME NEW s \in Sessions, Operator(s) PROVE Durable'
  BY <1>1, OperatorIsDurable
<1>2. ASSUME NEW s \in Sessions, Detection(s) PROVE Durable'
  BY <1>2, DetectionIsDurable
<1>3. CASE RehydrateFleet
  <2>1. fleet' = Hydrated(fleet) /\ store' = store
    BY <1>3 DEF RehydrateFleet, Hydrate
  <2>2. QED
    BY <2>1, HydratingIsDurable
<1>4. CASE CrashRestart
  <2> DEFINE empty == [s \in Sessions |-> Absent]
  <2>1. fleet' = Hydrated(empty) /\ store' = store
    BY <1>4 DEF CrashRestart
  <2>2. \A s \in Sessions : empty[s] = Absent
    OBVIOUS
  <2> HIDE DEF empty
  <2>3. QED
    BY <2>1, <2>2, HydratingIsDurable
<1>5. CASE RepublishFleet \/ UNCHANGED governed
  <2>1. fleet' = fleet /\ store' = store
    BY <1>5 DEF RepublishFleet, governed
  <2>2. QED
    BY <2>1 DEF Durable, AdoptedIsDurable, ReleasedIsDurable, UndiscoveredRowIsFresh, Adopted,
                Known, Managed, Agrees, FromSession
<1>6. QED
  BY <1>1, <1>2, <1>3, <1>4, <1>5 DEF Next

-----------------------------------------------------------------------------
(* The theorems *)

\* With a store that does not fail, the invariant holds at every moment.
THEOREM AlwaysDurable == ASSUME ~StoreFaults PROVE Spec => []Durable
<1>1. TypeOK /\ Durable /\ [Next]_vars => Durable'
  BY StepIsDurable, StepGoverns
<1>2. QED
  BY <1>1, StartsDurable, TypeCorrect, PTL DEF Spec

\* A crash at any moment loses nothing of an adopted session's governance
\* (supervisor.rs persist).
THEOREM AdoptionIsDurable == ASSUME ~StoreFaults PROVE Spec => []AdoptedIsDurable
<1>1. Durable => AdoptedIsDurable
  BY DEF Durable
<1>2. QED
  BY <1>1, AlwaysDurable, PTL

\* What the operator released stays released (supervisor.rs persist, Discovered).
THEOREM ReleaseIsDurable == ASSUME ~StoreFaults PROVE Spec => []ReleasedIsDurable
<1>1. Durable => ReleasedIsDurable
  BY DEF Durable
<1>2. QED
  BY <1>1, AlwaysDurable, PTL

\* Both: the rows say at every moment what governance there is (supervisor.rs persist,
\* hydrate_from_store).
THEOREM GovernanceIsDurable == ASSUME ~StoreFaults PROVE Spec => []RowsKeepGovernance
<1>1. Durable => RowsKeepGovernance
  BY DEF Durable, RowsKeepGovernance
<1>2. QED
  BY <1>1, AlwaysDurable, PTL

-----------------------------------------------------------------------------
(* What a step may do to the phase and the adoption of a session in the fleet *)

\* An observation leaves the phase alone, or moves one that is not pinned without
\* unlocking writes.
ObservedMove(s) ==
  \/ fleet'[s].phase = fleet[s].phase
  \/ ~fleet[s].phase_pinned /\ ~AllowsWrites(fleet'[s].phase)
  \/ ~fleet[s].phase_pinned /\ AllowsWrites(fleet[s].phase)

\* A step moves it no further, or is one of the operator's moves.
PhaseMove(s) ==
  \/ ObservedMove(s)
  \/ AdvancePhase(s) \/ (ApprovePlan(s) /\ ~fleet[s].phase_pinned)
  \/ \E p \in Phases : SetPhase(s, p)

\* A step leaves the adoption alone, or opts in.
AdoptionMove(s) ==
  \/ fleet'[s].adopted = fleet[s].adopted
  \/ ToggleAdoption(s) \/ SetAdopted(s, TRUE) \/ ~fleet'[s].adopted
  \/ fleet'[s].root \in AutoAdoptRoots

\* What becomes of the entry of a session under a handler of its own.
Effect(s) ==
  \/ fleet'[s] = fleet[s]
  \/ fleet'[s] = Absent
  \/ ~Known(s) /\ (fleet'[s].adopted => Managed(s) /\ store[s].adopted)
  \/ Known(s) /\ PhaseMove(s) /\ AdoptionMove(s)

\* What becomes of it when something is observed of it.
ObservedEffect(s) ==
  \/ fleet'[s] = fleet[s]
  \/ fleet'[s] = Absent
  \/ ~Known(s) /\ (fleet'[s].adopted => Managed(s) /\ store[s].adopted)
  \/ Known(s) /\ ObservedMove(s) /\ AdoptionMove(s)

\* Every command of one session is one of those (supervisor.rs handle_command).
LEMMA OperatorEffect ==
  ASSUME TypeOK, NEW s \in Sessions, Operator(s)
  PROVE  /\ Effect(s)
         /\ \A t \in Sessions \ {s} : fleet'[t] = fleet[t]
<1> DEFINE Only == \A t \in Sessions \ {s} : fleet'[t] = fleet[t]
<1>0. (Known(s) => fleet[s] \in Session) /\ DOMAIN fleet = Sessions
  BY DEF Known, TypeOK
<1>1. CASE fleet' = fleet
  BY <1>1 DEF Effect
<1>2. CASE ToggleAdoption(s)
  <2>1. Known(s) /\ fleet' = [fleet EXCEPT ![s] = [fleet[s] EXCEPT !.adopted = ~@]]
    BY <1>2 DEF ToggleAdoption, Amend
  <2>2. fleet'[s].phase = fleet[s].phase
    BY <1>0, <2>1 DEF Session
  <2>3. QED
    BY <1>0, <1>2, <2>1, <2>2 DEF Effect, PhaseMove, ObservedMove, AdoptionMove
<1>3. ASSUME NEW b \in BOOLEAN, SetAdopted(s, b) PROVE Effect(s) /\ Only
  <2>1. Known(s) /\ fleet' = [fleet EXCEPT ![s] = [fleet[s] EXCEPT !.adopted = b]]
    BY <1>3 DEF SetAdopted, Amend
  <2>2. fleet'[s].phase = fleet[s].phase /\ fleet'[s].adopted = b
    BY <1>0, <2>1 DEF Session
  <2>3. b = TRUE \/ b = FALSE
    OBVIOUS
  <2>4. QED
    BY <1>0, <1>3, <2>1, <2>2, <2>3 DEF Effect, PhaseMove, ObservedMove, AdoptionMove
<1>4. ASSUME NEW b \in BOOLEAN,
             SetHidden(s, b) \/ SetPhasePinned(s, b) \/ TogglePause(s)
      PROVE  Effect(s) /\ Only
  <2>1. /\ Known(s)
        /\ \/ fleet' = [fleet EXCEPT ![s] = [fleet[s] EXCEPT !.hidden = b]]
           \/ fleet' = [fleet EXCEPT ![s] = [fleet[s] EXCEPT !.phase_pinned = b]]
           \/ fleet' = [fleet EXCEPT ![s] = [fleet[s] EXCEPT !.paused = ~@]]
    BY <1>4 DEF SetHidden, SetPhasePinned, TogglePause, Amend
  <2>2. fleet'[s].phase = fleet[s].phase /\ fleet'[s].adopted = fleet[s].adopted
    BY <1>0, <2>1 DEF Session
  <2>3. QED
    BY <1>0, <2>1, <2>2 DEF Effect, PhaseMove, ObservedMove, AdoptionMove
<1>5. ASSUME NEW tier \in Tiers, SetTrust(s, tier) PROVE Effect(s) /\ Only
  <2>1. Known(s) /\ fleet' = [fleet EXCEPT ![s] = [fleet[s] EXCEPT !.trust_tier = tier]]
    BY <1>5 DEF SetTrust, Amend
  <2>2. fleet'[s].phase = fleet[s].phase /\ fleet'[s].adopted = fleet[s].adopted
    BY <1>0, <2>1 DEF Session
  <2>3. QED
    BY <1>0, <2>1, <2>2 DEF Effect, PhaseMove, ObservedMove, AdoptionMove
<1>6. ASSUME NEW p \in Phases, NEW pin \in BOOLEAN, ApplyPhase(s, p, pin)
      PROVE  Only /\ Known(s) /\ fleet'[s].adopted = fleet[s].adopted
  <2>1. Known(s) /\ fleet' = [fleet EXCEPT ![s] = InPhase(fleet[s], p, pin)]
    BY <1>6 DEF ApplyPhase
  <2>2. QED
    BY <1>0, <2>1 DEF InPhase, Session
<1>7. ASSUME NEW p \in Phases, SetPhase(s, p) PROVE Effect(s) /\ Only
  BY <1>6, <1>7 DEF SetPhase, Effect, PhaseMove, AdoptionMove
<1>8. CASE AdvancePhase(s)
  <2>1. NextPhase(fleet[s].phase) \in Phases
    BY <1>0, <1>8, SessionFields, NextPhaseTyped DEF AdvancePhase
  <2>2. QED
    BY <1>6, <1>8, <2>1 DEF AdvancePhase, Effect, PhaseMove, AdoptionMove
<1>9. CASE ApprovePlan(s) /\ fleet' # fleet
  <2>1. NextPhase("Plan") \in Phases
    BY NextPhaseTyped DEF Phases
  <2>2. ApplyPhase(s, NextPhase("Plan"), FALSE) /\ ~fleet[s].phase_pinned
    BY <1>9 DEF ApprovePlan
  <2>3. QED
    BY <1>6, <1>9, <2>1, <2>2 DEF Effect, PhaseMove, ObservedMove, AdoptionMove
<1>10. CASE ApproveAction(s) /\ fleet' # fleet
  <2>1. Known(s) /\ fleet' = [fleet EXCEPT ![s] = [fleet[s] EXCEPT !.status = "Running"]]
    <3>1. fleet' = [fleet EXCEPT ![s] = IF Known(s) THEN [@ EXCEPT !.status = "Running"] ELSE @]
      BY <1>10 DEF ApproveAction
    <3>2. Known(s)
      BY <1>0, <1>10, <3>1 DEF TypeOK
    <3>3. QED
      BY <3>1, <3>2
  <2>2. fleet'[s].phase = fleet[s].phase /\ fleet'[s].adopted = fleet[s].adopted
    BY <1>0, <2>1 DEF Session
  <2>3. QED
    BY <1>0, <2>1, <2>2 DEF Effect, PhaseMove, ObservedMove, AdoptionMove
<1>11. CASE ForgetSession(s)
  BY <1>0, <1>11 DEF ForgetSession, Effect
<1>12. ASSUME NEW root \in Roots \cup {None}, SpawnSession(s, root)
       PROVE  Effect(s) /\ Only
  <2>1. ~Known(s) /\ \E rec : ~rec.adopted /\ fleet' = [fleet EXCEPT ![s] = rec]
    BY <1>12 DEF SpawnSession
  <2>2. QED
    BY <1>0, <2>1 DEF Effect
<1>13. ASSUME NEW p \in Phases, NEW tier \in Tiers, NEW root \in Roots,
              RecordLaunch(s, p, tier, root)
       PROVE  fleet' = fleet
  BY <1>13 DEF RecordLaunch
<1>14. CASE InjectFeedback(s) \/ FlagSession(s)
  BY <1>1, <1>14 DEF InjectFeedback, FlagSession
<1>15. QED
  BY <1>1, <1>2, <1>3, <1>4, <1>5, <1>7, <1>8, <1>9, <1>10, <1>11, <1>12, <1>13, <1>14
     DEF Operator

\* Every observation is one of those (supervisor.rs on_detection).
LEMMA DetectionEffect ==
  ASSUME TypeOK, NEW s \in Sessions, Detection(s)
  PROVE  /\ ObservedEffect(s)
         /\ \A t \in Sessions \ {s} : fleet'[t] = fleet[t]
<1> DEFINE Only == \A t \in Sessions \ {s} : fleet'[t] = fleet[t]
<1>0. (Known(s) => fleet[s] \in Session) /\ DOMAIN fleet = Sessions
  BY DEF Known, TypeOK
<1>1. ASSUME NEW status \in Statuses, StatusChanged(s, status) PROVE ObservedEffect(s) /\ Only
  <2> DEFINE rec  == [fleet[s] EXCEPT !.status = status]
             next == InPhase(rec, NextPhase(rec.phase), FALSE)
  <2>1. /\ Known(s)
        /\ \/ fleet' = [fleet EXCEPT ![s] = rec]
           \/ /\ AutoAdvancesOnDone(rec.phase) /\ ~rec.phase_pinned
              /\ fleet' = [fleet EXCEPT ![s] = next]
    BY <1>1 DEF StatusChanged
  <2>2. rec.phase = fleet[s].phase /\ rec.adopted = fleet[s].adopted
        /\ rec.phase_pinned = fleet[s].phase_pinned
    BY <1>0, <2>1 DEF Session
  <2>3. CASE fleet' = [fleet EXCEPT ![s] = rec]
    BY <1>0, <2>1, <2>2, <2>3 DEF ObservedEffect, ObservedMove, AdoptionMove
  <2>4. CASE /\ AutoAdvancesOnDone(rec.phase) /\ ~rec.phase_pinned
             /\ fleet' = [fleet EXCEPT ![s] = next]
    <3>1. next.adopted = fleet[s].adopted
      BY <1>0, <2>1 DEF InPhase, Session
    <3>2. AllowsWrites(fleet[s].phase) /\ ~fleet[s].phase_pinned
      BY <2>2, <2>4 DEF AutoAdvancesOnDone, AllowsWrites
    <3> HIDE DEF next
    <3>3. QED
      BY <1>0, <2>1, <2>4, <3>1, <3>2 DEF ObservedEffect, ObservedMove, AdoptionMove
  <2>5. QED
    BY <2>1, <2>3, <2>4
<1>2. CASE PhaseObserved(s)
  <2>1. /\ Known(s) /\ ~fleet[s].phase_pinned
        /\ fleet' = [fleet EXCEPT ![s] = [fleet[s] EXCEPT !.phase = "Plan"]]
    BY <1>2 DEF PhaseObserved
  <2>2. fleet'[s].phase = "Plan" /\ fleet'[s].adopted = fleet[s].adopted
    BY <1>0, <2>1 DEF Session
  <2>3. QED
    BY <1>0, <2>1, <2>2 DEF ObservedEffect, ObservedMove, AdoptionMove, AllowsWrites
<1>3. ASSUME NEW title \in Titles, TitleObserved(s, title) PROVE ObservedEffect(s) /\ Only
  <2>1. Known(s) /\ fleet' = [fleet EXCEPT ![s] = [fleet[s] EXCEPT !.title = title]]
    BY <1>3 DEF TitleObserved, Amend
  <2>2. fleet'[s].phase = fleet[s].phase /\ fleet'[s].adopted = fleet[s].adopted
    BY <1>0, <2>1 DEF Session
  <2>3. QED
    BY <1>0, <2>1, <2>2 DEF ObservedEffect, ObservedMove, AdoptionMove
<1>4. ASSUME NEW root \in Roots, WorkspaceObserved(s, root) PROVE ObservedEffect(s) /\ Only
  <2> DEFINE moved   == [fleet[s] EXCEPT !.root = root]
             adopted == [moved EXCEPT !.adopted = TRUE]
  <2>1. /\ Known(s)
        /\ \/ root \in AutoAdoptRoots /\ fleet' = [fleet EXCEPT ![s] = adopted]
           \/ fleet' = [fleet EXCEPT ![s] = moved]
    BY <1>4 DEF WorkspaceObserved
  <2>2. /\ moved.phase = fleet[s].phase /\ moved.adopted = fleet[s].adopted
        /\ adopted.phase = fleet[s].phase /\ adopted.root = root
    BY <1>0, <2>1 DEF Session
  <2> HIDE DEF moved, adopted
  <2>3. QED
    BY <1>0, <2>1, <2>2 DEF ObservedEffect, ObservedMove, AdoptionMove
<1>5. CASE Discovered(s)
  <2>1. /\ ~Known(s)
        /\ \E rec \in (IF Managed(s) THEN {Seeded(store[s])} ELSE {DiscoveredSession})
                         \cup {DiscoveredSession} :
              fleet' = [fleet EXCEPT ![s] = rec]
    BY <1>5 DEF Discovered
  <2>2. /\ ~DiscoveredSession.adopted
        /\ Seeded(store[s]).adopted = store[s].adopted
    BY DEF Seeded, DiscoveredSession
  <2>3. QED
    BY <1>0, <2>1, <2>2 DEF ObservedEffect
<1>6. CASE Ended(s)
  <2>1. /\ Known(s)
        /\ \/ fleet' = [fleet EXCEPT ![s] = [fleet[s] EXCEPT !.status = "Idle"]]
           \/ fleet' = [fleet EXCEPT ![s] = Absent]
    BY <1>6 DEF Ended
  <2>2. \/ fleet'[s].phase = fleet[s].phase /\ fleet'[s].adopted = fleet[s].adopted
        \/ fleet'[s] = Absent
    BY <1>0, <2>1 DEF Session
  <2>3. QED
    BY <1>0, <2>1, <2>2 DEF ObservedEffect, ObservedMove, AdoptionMove
<1>7. ASSUME NEW kind \in {"PlanProposed", "SummaryObserved"}, PassedOn(s, kind)
      PROVE  ObservedEffect(s) /\ Only
  BY <1>7 DEF PassedOn, ObservedEffect
<1>8. QED
  BY <1>1, <1>2, <1>3, <1>4, <1>5, <1>6, <1>7 DEF Detection

\* And a step outside them leaves the fleet, restores into it, or starts afresh.
LEMMA StepEffect ==
  ASSUME TypeOK, [Next]_governed
  PROVE  \/ \A s \in Sessions : Effect(s)
         \/ RehydrateFleet
         \/ CrashRestart
<1>1. ASSUME NEW t \in Sessions, Operator(t) \/ Detection(t)
      PROVE  \A s \in Sessions : Effect(s)
  BY <1>1, OperatorEffect, DetectionEffect DEF Effect, ObservedEffect, PhaseMove
<1>2. CASE RepublishFleet \/ UNCHANGED governed
  BY <1>2 DEF RepublishFleet, governed, Effect
<1>3. QED
  BY <1>1, <1>2 DEF Next

\* What is in the fleet is not restored over.
LEMMA RehydratedKeeps ==
  ASSUME TypeOK, RehydrateFleet, NEW s \in Sessions
  PROVE  \/ fleet'[s] = fleet[s]
         \/ ~Known(s) /\ Managed(s) /\ fleet'[s] = ToSession(store[s])
BY DEF RehydrateFleet, Hydrate, Hydrated, Known

\* What a restart restores comes from its row, or nothing is restored at all.
LEMMA RestartedFrom ==
  ASSUME CrashRestart, NEW s \in Sessions
  PROVE  \/ fleet'[s] = Absent
         \/ Managed(s) /\ fleet'[s] = ToSession(store[s])
BY DEF CrashRestart, Hydrated

\* What is restored to a session that was in the fleet is the phase it had there.
LEMMA RestartKeepsPhase ==
  ASSUME TypeOK, Durable, CrashRestart, NEW s \in Sessions, Known(s), fleet'[s] # Absent
  PROVE  fleet'[s].phase = fleet[s].phase
<1>1. Managed(s) /\ fleet'[s] = ToSession(store[s])
  BY RestartedFrom
<1>2. fleet'[s].phase = store[s].phase
  BY <1>1 DEF ToSession
<1>3. DurableOf(s)
  BY DurableBySession
<1>4. store[s].phase = fleet[s].phase
  <2>1. CASE fleet[s].adopted
    BY <1>3, <2>1, AgreesFields DEF DurableOf, Adopted
  <2>2. CASE ~fleet[s].adopted
    BY <1>1, <1>3, <2>2 DEF DurableOf
  <2>3. QED
    BY <2>1, <2>2
<1>5. QED
  BY <1>2, <1>4

\* A session at rest in another working directory, field by field.
LEMMA RestingFields ==
  ASSUME NEW rec \in Session, NEW root
  PROVE  [AtRest(rec) EXCEPT !.root = root]
           = [phase |-> rec.phase, phase_pinned |-> rec.phase_pinned,
              adopted |-> rec.adopted, paused |-> rec.paused, hidden |-> rec.hidden,
              trust_tier |-> rec.trust_tier, title |-> rec.title, root |-> root,
              status |-> "Idle"]
<1>1. AtRest(rec)
        = [phase |-> rec.phase, phase_pinned |-> rec.phase_pinned,
           adopted |-> rec.adopted, paused |-> rec.paused, hidden |-> rec.hidden,
           trust_tier |-> rec.trust_tier, title |-> rec.title, root |-> rec.root,
           status |-> "Idle"]
  BY DEF Session, AtRest
<1>2. QED
  BY <1>1

-----------------------------------------------------------------------------
(* What a step does, for whoever takes it: alone, or in the daemon *)

\* No step but the operator's moves a pinned phase.
LEMMA StepKeepsPins == ASSUME TypeOK, [Next]_governed PROVE PinnedMove
<1> SUFFICES ASSUME ~CrashRestart, NEW s \in Sessions, Known(s), fleet[s].phase_pinned,
                    fleet'[s] # Absent, fleet'[s].phase # fleet[s].phase
             PROVE  AdvancePhase(s) \/ \E p \in Phases : SetPhase(s, p)
  BY DEF PinnedMove
<1>1. ~RehydrateFleet
  BY RehydratedKeeps
<1>2. QED
  BY <1>1, StepEffect DEF Effect, PhaseMove, ObservedMove

\* Nobody is governed by a step that nobody opted into.
LEMMA StepOptsIn == ASSUME TypeOK, [Next]_governed PROVE OptingIn
<1> SUFFICES ASSUME NEW s \in Sessions, ~Adopted(s), Adopted(s)'
             PROVE  \/ ToggleAdoption(s) \/ SetAdopted(s, TRUE)
                    \/ Managed(s) /\ store[s].adopted
                    \/ fleet'[s].root \in AutoAdoptRoots
  BY DEF OptingIn
<1>1. fleet'[s] # Absent /\ fleet'[s].adopted
  BY DEF Adopted, Known
<1>2. Managed(s) => ToSession(store[s]).adopted = store[s].adopted
  BY DEF ToSession
<1>3. CASE RehydrateFleet \/ CrashRestart
  BY <1>1, <1>2, <1>3, RehydratedKeeps, RestartedFrom DEF Adopted, Known
<1>4. CASE Effect(s)
  <2>1. Known(s) => ~fleet[s].adopted
    BY DEF Adopted
  <2>2. fleet'[s] # fleet[s]
    BY <1>1, <2>1 DEF Known
  <2>3. QED
    BY <1>1, <1>4, <2>1, <2>2 DEF Effect, AdoptionMove
<1>5. QED
  BY <1>3, <1>4, StepEffect

\* No step but the operator's unlocks writes; a restart restores what was there.
LEMMA StepUnlocks == ASSUME TypeOK, Durable, [Next]_governed PROVE Unlocking
<1> SUFFICES ASSUME NEW s \in Sessions, Known(s), ~AllowsWrites(fleet[s].phase),
                    fleet'[s] # Absent, AllowsWrites(fleet'[s].phase)
             PROVE  \/ AdvancePhase(s) \/ ApprovePlan(s)
                    \/ \E p \in Phases : SetPhase(s, p)
  BY DEF Unlocking
<1>1. fleet'[s].phase # fleet[s].phase
  OBVIOUS
<1>2. ~RehydrateFleet /\ ~CrashRestart
  BY <1>1, RehydratedKeeps, RestartKeepsPhase
<1>3. Effect(s)
  BY <1>2, StepEffect
<1>4. QED
  BY <1>1, <1>3 DEF Effect, PhaseMove, ObservedMove

\* A restart gives an adopted session back whole, from a row that says what it was.
LEMMA StepRestores == ASSUME TypeOK, Durable, ~StoreFaults PROVE RestartRestores
<1> SUFFICES ASSUME CrashRestart, NEW s \in Sessions, Adopted(s)
             PROVE  fleet'[s] = [AtRest(fleet[s]) EXCEPT !.root = store[s].root]
  BY DEF RestartRestores
<1>1. DurableOf(s) /\ fleet[s] \in Session
  BY DurableBySession DEF Adopted, Known, TypeOK
<1>2. Managed(s) /\ Agrees(store[s], fleet[s]) /\ store[s] \in ManagedSession
  BY <1>1 DEF DurableOf, Managed, TypeOK
<1>3. fleet'[s] = ToSession(store[s])
  <2>1. fleet' = Hydrated([t \in Sessions |-> Absent])
    BY DEF CrashRestart
  <2>2. QED
    BY <1>2, <2>1 DEF Hydrated
<1>4. /\ store[s].phase = fleet[s].phase /\ store[s].phase_pinned = fleet[s].phase_pinned
      /\ store[s].adopted = fleet[s].adopted /\ store[s].paused = fleet[s].paused
      /\ store[s].hidden = fleet[s].hidden /\ store[s].title = fleet[s].title
      /\ store[s].trust_tier = fleet[s].trust_tier
  BY <1>2, AgreesFields
<1>5. [AtRest(fleet[s]) EXCEPT !.root = store[s].root]
        = [phase |-> fleet[s].phase, phase_pinned |-> fleet[s].phase_pinned,
           adopted |-> fleet[s].adopted, paused |-> fleet[s].paused,
           hidden |-> fleet[s].hidden, trust_tier |-> fleet[s].trust_tier,
           title |-> fleet[s].title, root |-> store[s].root, status |-> "Idle"]
  BY <1>1, RestingFields
<1>6. ToSession(store[s])
        = [phase |-> fleet[s].phase, phase_pinned |-> fleet[s].phase_pinned,
           adopted |-> fleet[s].adopted, paused |-> fleet[s].paused,
           hidden |-> fleet[s].hidden, trust_tier |-> fleet[s].trust_tier,
           title |-> fleet[s].title, root |-> store[s].root, status |-> "Idle"]
  BY <1>4 DEF ToSession
<1>7. QED
  BY <1>3, <1>5, <1>6

-----------------------------------------------------------------------------
(* The theorems on steps *)

\* The phase of a pinned session is the operator's, whether or not the store fails
\* (supervisor.rs StatusChanged, PhaseObserved).
THEOREM PinnedIsTheOperators == Spec => PinnedPhaseHolds
<1>1. TypeOK /\ [Next]_vars => PinnedMove
  BY StepGoverns, StepKeepsPins
<1>2. QED
  BY <1>1, TypeCorrect, PTL DEF Spec, PinnedPhaseHolds

\* Governance is opted into, whether or not the store fails (supervisor.rs
\* maybe_auto_adopt, Discovered).
THEOREM GovernanceIsOptedInto == Spec => OptIn
<1>1. TypeOK /\ [Next]_vars => OptingIn
  BY StepGoverns, StepOptsIn
<1>2. QED
  BY <1>1, TypeCorrect, PTL DEF Spec, OptIn

\* Writes are the operator's to unlock: a restart cannot, because what it restores is
\* what was there (supervisor.rs hydrate_from_store).
THEOREM WritesAreTheOperators == ASSUME ~StoreFaults PROVE Spec => OnlyOperatorUnlocksWrites
<1>1. TypeOK /\ Durable /\ [Next]_vars => Unlocking
  BY StepGoverns, StepUnlocks
<1>2. QED
  BY <1>1, TypeCorrect, AlwaysDurable, PTL DEF Spec, OnlyOperatorUnlocksWrites

\* A restart gives every adopted session back whole, at rest (supervisor.rs
\* hydrate_from_store, store.rs to_session).
THEOREM RestartGivesBack == ASSUME ~StoreFaults PROVE Spec => RestartKeepsGovernance
<1>1. TypeOK /\ Durable => RestartRestores
  BY StepRestores
<1>2. QED
  BY <1>1, TypeCorrect, AlwaysDurable, PTL DEF Spec, RestartKeepsGovernance

\* A row that would be adopted, of a session that the fleet has not discovered, is an
\* untouched launch (supervisor.rs adopt_launch, apply_discovered).
THEOREM UndiscoveredIsFresh == ASSUME ~StoreFaults PROVE Spec => []UndiscoveredRowIsFresh
<1>1. Durable => UndiscoveredRowIsFresh
  BY DEF Durable
<1>2. QED
  BY <1>1, AlwaysDurable, PTL
=============================================================================

----------------------------- MODULE Supervisor -----------------------------
(***************************************************************************)
(* The session supervisor (crates/engine/src/supervisor.rs): the in-memory *)
(* fleet, the managed-session store it persists to, and the facts it       *)
(* publishes.  One task owns the fleet and runs one handler at a time, so  *)
(* every handler is one action.                                            *)
(***************************************************************************)
EXTENDS Workflow, EventBus, FiniteSets

CONSTANTS
  Sessions,        \* session ids
  Tiers,           \* the trust tiers the operator picks from
  Statuses,        \* the statuses detection reports
  Titles,          \* the titles detection reports
  Roots,           \* working directories detection reports
  AutoAdoptRoots,  \* those under a configured auto-adopt root
  StoreFaults,     \* whether a store call may fail (logged, never fatal)
  Absent,          \* no fleet entry, no managed row
  None             \* Option::None

ASSUME SupervisorAssumption ==
  /\ IsFiniteSet(Sessions)
  /\ Tiers \subseteq TrustTiers /\ "Observed" \in Tiers
  /\ Statuses \subseteq {"Running", "WaitingInput", "Done", "Errored", "Idle", "Paused"}
  /\ {"Running", "Idle"} \subseteq Statuses
  /\ AutoAdoptRoots \subseteq Roots
  /\ None \notin Roots /\ None \notin Titles
  /\ StoreFaults \in BOOLEAN

\* What the store keeps of a session, and what the fleet keeps: the managed fields
\* and the live status.  `mode` is always Auto and timestamps order nothing here.
ManagedSession ==
  [phase : Phases, phase_pinned : BOOLEAN, adopted : BOOLEAN, paused : BOOLEAN,
   hidden : BOOLEAN, trust_tier : Tiers, title : Titles \cup {None},
   root : Roots \cup {None}]

Session ==
  [phase : Phases, phase_pinned : BOOLEAN, adopted : BOOLEAN, paused : BOOLEAN,
   hidden : BOOLEAN, trust_tier : Tiers, title : Titles \cup {None},
   root : Roots \cup {None}, status : Statuses]

ASSUME AbsentAssumption == Absent \notin Session /\ Absent \notin ManagedSession

VARIABLES
  fleet,           \* session -> Session, or Absent
  store            \* session -> ManagedSession, or Absent: survives a restart

vars == <<fleet, store, bus>>

Known(s)   == fleet[s] # Absent
Managed(s) == store[s] # Absent

-----------------------------------------------------------------------------
(* Facts *)

Upserted(s, rec)        == [kind |-> "SessionUpserted", session |-> s, row |-> rec]
PhaseTransitioned(s, p) == [kind |-> "PhaseTransitioned", session |-> s, phase |-> p]
Removed(s)              == [kind |-> "SessionRemoved", session |-> s]
\* A fact no read-model folds: it only takes a place in the queues.
Notice(kind, s)         == [kind |-> kind, session |-> s]

NoticeKinds == {"SessionStateChanged", "SessionAlert", "AuditAppended", "ReviewReady",
                "PhaseAdvanceRequested", "PlanProposed", "SummaryObserved",
                "ApprovalRequested"}

Events ==
  [kind : {"SessionUpserted"}, session : Sessions, row : Session]
    \cup [kind : {"PhaseTransitioned"}, session : Sessions, phase : Phases]
    \cup [kind : {"SessionRemoved"} \cup NoticeKinds, session : Sessions]

-----------------------------------------------------------------------------
(* The store *)

\* ManagedSession::from_session and ManagedSession::to_session: restored at rest.
FromSession(rec) ==
  [phase |-> rec.phase, phase_pinned |-> rec.phase_pinned, adopted |-> rec.adopted,
   paused |-> rec.paused, hidden |-> rec.hidden, trust_tier |-> rec.trust_tier,
   title |-> rec.title, root |-> rec.root]

\* Mutant: the live status is left to detection and the entry comes back without one.
ToSessionNoStatus(row) == row

\* Mutant: the pause is taken for live state and restored as resumed.
ToSessionResumed(row) ==
  [phase |-> row.phase, phase_pinned |-> row.phase_pinned, adopted |-> row.adopted,
   paused |-> FALSE, hidden |-> row.hidden, trust_tier |-> row.trust_tier,
   title |-> row.title, root |-> row.root, status |-> "Idle"]

ToSession(row) ==
  [phase |-> row.phase, phase_pinned |-> row.phase_pinned, adopted |-> row.adopted,
   paused |-> row.paused, hidden |-> row.hidden, trust_tier |-> row.trust_tier,
   title |-> row.title, root |-> row.root, status |-> "Idle"]

\* The row after persisting `rec`: an UPDATE keeps the root it was inserted with,
\* and only an adopted session gains a row.
\* Mutant: persist only updates, so the first adoption writes nothing.
PersistedRowUpdateOnly(rec, row) ==
  IF row # Absent THEN [FromSession(rec) EXCEPT !.root = row.root] ELSE Absent

PersistedRow(rec, row) ==
  IF row # Absent THEN [FromSession(rec) EXCEPT !.root = row.root]
  ELSE IF rec.adopted THEN FromSession(rec) ELSE Absent

Persist(s, rec) ==
  \/ store' = [store EXCEPT ![s] = PersistedRow(rec, store[s])]
  \/ StoreFaults /\ UNCHANGED store

\* hydrate_from_store: the sessions it adds to `live`, and the facts it publishes,
\* one per session in the order of `rows`.
Hydrated(live) ==
  [s \in Sessions |-> IF live[s] = Absent /\ Managed(s) THEN ToSession(store[s]) ELSE live[s]]

Missing(live) == {s \in Sessions : live[s] = Absent /\ Managed(s)}

Orderings(S) == {f \in [1..Cardinality(S) -> S] : \A i, j \in DOMAIN f : f[i] = f[j] => i = j}

UpsertAll(order, live) == [i \in DOMAIN order |-> Upserted(order[i], live[order[i]])]

Hydrate ==
  LET live == Hydrated(fleet) IN
  /\ fleet' = live
  /\ UNCHANGED store
  /\ \E order \in Orderings(Missing(fleet)) : Publish(UpsertAll(order, live))

-----------------------------------------------------------------------------
(* Operator commands.  Each one is the handler after its early return for a *)
(* session that is not in the fleet; Ignored says when a command does       *)
(* nothing at all.                                                          *)

\* Mutate a row, persist it, republish it whole.
Amend(s, rec) ==
  /\ fleet' = [fleet EXCEPT ![s] = rec]
  /\ Persist(s, rec)
  /\ Publish(<<Upserted(s, rec)>>)

ToggleAdoption(s) ==
  Known(s) /\ Amend(s, [fleet[s] EXCEPT !.adopted = ~@])

SetAdopted(s, adopted) ==
  /\ Known(s) /\ fleet[s].adopted # adopted
  /\ Amend(s, [fleet[s] EXCEPT !.adopted = adopted])

SetTrust(s, tier) ==
  /\ Known(s) /\ fleet[s].trust_tier # tier
  /\ Amend(s, [fleet[s] EXCEPT !.trust_tier = tier])

TogglePause(s) ==
  Known(s) /\ Amend(s, [fleet[s] EXCEPT !.paused = ~@])

SetHidden(s, hidden) ==
  Known(s) /\ Amend(s, [fleet[s] EXCEPT !.hidden = hidden])

SetPhasePinned(s, pinned) ==
  /\ Known(s) /\ fleet[s].phase_pinned # pinned
  /\ Amend(s, [fleet[s] EXCEPT !.phase_pinned = pinned])

\* apply_phase: the row it leaves, and the facts it publishes after the others of
\* the same handler.  Entering Plan injects the aim; its outcome is one audit fact.
InPhase(rec, p, pin) == [rec EXCEPT !.phase = p, !.phase_pinned = pin]

PhaseFacts(s, rec, p, pin) ==
  <<Upserted(s, InPhase(rec, p, pin))>>
    \o (IF p = "Plan" /\ rec.phase # "Plan" THEN <<Notice("AuditAppended", s)>> ELSE <<>>)
    \o (IF p = "Review" THEN <<Notice("ReviewReady", s)>> ELSE <<>>)

ApplyPhase(s, p, pin) ==
  /\ Known(s)
  /\ fleet' = [fleet EXCEPT ![s] = InPhase(@, p, pin)]
  /\ Persist(s, InPhase(fleet[s], p, pin))
  /\ Publish(PhaseFacts(s, fleet[s], p, pin))

SetPhase(s, p) == ApplyPhase(s, p, TRUE)

AdvancePhase(s) == Known(s) /\ ApplyPhase(s, NextPhase(fleet[s].phase), FALSE)

\* The plan keystone: a pinned Plan asks, an unpinned one moves.
ApprovePlan(s) ==
  /\ Known(s) /\ fleet[s].phase = "Plan"
  /\ \/ /\ fleet[s].phase_pinned
        /\ Publish(<<Notice("PhaseAdvanceRequested", s)>>)
        /\ UNCHANGED <<fleet, store>>
     \/ /\ ~fleet[s].phase_pinned
        /\ ApplyPhase(s, NextPhase("Plan"), FALSE)

\* control.resume() answers Ok, or an error that becomes an audit fact.
ApproveAction(s) ==
  /\ UNCHANGED store
  /\ \/ /\ fleet' = [fleet EXCEPT ![s] = IF Known(s) THEN [@ EXCEPT !.status = "Running"] ELSE @]
        /\ Publish(<<Notice("SessionStateChanged", s)>>)
     \/ /\ Publish(<<Notice("AuditAppended", s)>>)
        /\ UNCHANGED fleet

\* RejectHunk, DenyAction, Steer, SubmitReview: whether or not the control port
\* delivers, one audit fact and no state but the activity stamp.
InjectFeedback(s) ==
  /\ Publish(<<Notice("AuditAppended", s)>>)
  /\ UNCHANGED <<fleet, store>>

FlagSession(s) ==
  /\ Publish(<<Notice("SessionAlert", s)>>)
  /\ UNCHANGED <<fleet, store>>

ForgetSession(s) ==
  /\ fleet' = [fleet EXCEPT ![s] = Absent]
  /\ \/ store' = [store EXCEPT ![s] = Absent]
     \/ StoreFaults /\ UNCHANGED store
  /\ Publish(<<Removed(s)>>)

\* control.spawn() mints an id nobody has used; a failed spawn does nothing.
SpawnSession(s, root) ==
  /\ ~Known(s) /\ ~Managed(s)
  /\ LET rec == [phase |-> "Plan", phase_pinned |-> FALSE, adopted |-> FALSE,
                 paused |-> FALSE, hidden |-> FALSE, trust_tier |-> "Observed",
                 title |-> None, root |-> root, status |-> "Running"]
     IN /\ fleet' = [fleet EXCEPT ![s] = rec]
        /\ Publish(<<Upserted(s, rec)>>)
  /\ UNCHANGED store

RehydrateFleet == Missing(fleet) # {} /\ Hydrate

RepublishFleet ==
  /\ \E order \in Orderings({s \in Sessions : Known(s)}) : Publish(UpsertAll(order, fleet))
  /\ UNCHANGED <<fleet, store>>

\* The desktop launches an agent: it writes the adopted row itself, before the agent
\* runs and so before detection can discover the fresh id.
RecordLaunch(s, p, tier, root) ==
  /\ ~Known(s) /\ ~Managed(s)
  /\ store' = [store EXCEPT ![s] =
       [phase |-> p, phase_pinned |-> FALSE, adopted |-> TRUE, paused |-> FALSE,
        hidden |-> FALSE, trust_tier |-> tier, title |-> None, root |-> root]]
  /\ UNCHANGED <<fleet, bus>>

-----------------------------------------------------------------------------
(* Detection: what the transcripts show *)

\* The status lands first; a done checkpoint then moves the one phase that moves by
\* itself, or asks when it is pinned.  Both halves persist.
StatusChanged(s, status) ==
  LET rec  == [fleet[s] EXCEPT !.status = status]
      told == Notice("SessionStateChanged", s)
      next == InPhase(rec, NextPhase(rec.phase), FALSE)
      done == status = "Done" /\ AutoAdvancesOnDone(rec.phase)
  IN /\ Known(s)
     /\ \/ /\ ~done
           /\ fleet' = [fleet EXCEPT ![s] = rec]
           /\ Persist(s, rec)
           /\ Publish(<<told>>)
        \/ /\ done /\ rec.phase_pinned
           /\ fleet' = [fleet EXCEPT ![s] = rec]
           /\ Persist(s, rec)
           /\ Publish(<<told, Notice("PhaseAdvanceRequested", s)>>)
        \/ /\ done /\ ~rec.phase_pinned
           /\ fleet' = [fleet EXCEPT ![s] = next]
           /\ \/ Persist(s, next)
              \/ /\ StoreFaults
                 /\ store' = [store EXCEPT ![s] = PersistedRow(rec, @)]
           /\ Publish(<<told>> \o PhaseFacts(s, rec, NextPhase(rec.phase), FALSE))

\* Mutant: plan mode moves a pinned session too.
PhaseObservedAnyway(s) ==
  /\ Known(s)
  /\ fleet' = [fleet EXCEPT ![s].phase = "Plan"]
  /\ Persist(s, [fleet[s] EXCEPT !.phase = "Plan"])
  /\ Publish(<<PhaseTransitioned(s, "Plan")>>)

\* Only native plan mode says anything about the phase, and not to a pinned one.  The
\* fact published is the thin one.
PhaseObserved(s) ==
  LET rec == [fleet[s] EXCEPT !.phase = "Plan"] IN
  /\ Known(s) /\ ~fleet[s].phase_pinned
  /\ fleet' = [fleet EXCEPT ![s] = rec]
  /\ Persist(s, rec)
  /\ Publish(<<PhaseTransitioned(s, "Plan")>>)

TitleObserved(s, title) ==
  Known(s) /\ Amend(s, [fleet[s] EXCEPT !.title = title])

\* The working directory is kept in memory only; maybe_auto_adopt then runs whether
\* or not it changed.
WorkspaceObserved(s, root) ==
  LET moved   == [fleet[s] EXCEPT !.root = root]
      adopted == [moved EXCEPT !.adopted = TRUE]
      facts   == IF moved # fleet[s] THEN <<Upserted(s, moved)>> ELSE <<>>
  IN /\ Known(s)
     /\ \/ /\ ~moved.adopted /\ root \in AutoAdoptRoots
           /\ fleet' = [fleet EXCEPT ![s] = adopted]
           /\ Persist(s, adopted)
           /\ Publish(facts \o <<Upserted(s, adopted)>>)
        \/ /\ moved.adopted \/ root \notin AutoAdoptRoots
           /\ moved # fleet[s]
           /\ fleet' = [fleet EXCEPT ![s] = moved]
           /\ UNCHANGED store
           /\ Publish(facts)

DiscoveredSession ==
  [phase |-> "Plan", phase_pinned |-> FALSE, adopted |-> FALSE, paused |-> FALSE,
   hidden |-> FALSE, trust_tier |-> "Observed", title |-> None, root |-> None,
   status |-> "Idle"]

\* A row seeds adoption, phase and trust, and nothing else of what it holds.
\* Mutant: a session with a row is taken for a governed one.
SeededAdopted(row) ==
  [DiscoveredSession EXCEPT !.adopted = TRUE, !.phase = row.phase,
                            !.trust_tier = row.trust_tier]

Seeded(row) ==
  [DiscoveredSession EXCEPT !.adopted = row.adopted, !.phase = row.phase,
                            !.trust_tier = row.trust_tier]

Discovered(s) ==
  /\ ~Known(s)
  /\ \E rec \in (IF Managed(s) THEN {Seeded(store[s])} ELSE {DiscoveredSession})
                  \cup (IF StoreFaults THEN {DiscoveredSession} ELSE {}) :
       /\ fleet' = [fleet EXCEPT ![s] = rec]
       /\ Publish(<<Upserted(s, rec)>>)
  /\ UNCHANGED store

\* Quiet for too long: an adopted session rests, another one leaves the fleet.
Ended(s) ==
  /\ Known(s)
  /\ UNCHANGED store
  /\ \/ /\ fleet[s].adopted
        /\ fleet' = [fleet EXCEPT ![s].status = "Idle"]
        /\ Publish(<<Upserted(s, [fleet[s] EXCEPT !.status = "Idle"])>>)
     \/ /\ ~fleet[s].adopted
        /\ fleet' = [fleet EXCEPT ![s] = Absent]
        /\ Publish(<<Notice("SessionStateChanged", s)>>)

\* PlanProposed and SummaryObserved are passed on for a session of the fleet.
PassedOn(s, kind) ==
  /\ Known(s)
  /\ Publish(<<Notice(kind, s)>>)
  /\ UNCHANGED <<fleet, store>>

-----------------------------------------------------------------------------
(* The process dies and starts again: memory and channels are lost, and boot  *)
(* hydrates from the rows unless they cannot be read.                         *)

CrashRestart ==
  LET empty == [s \in Sessions |-> Absent] IN
  /\ UNCHANGED store
  /\ \/ /\ fleet' = Hydrated(empty)
        /\ \E order \in Orderings(Missing(empty)) :
             PublishAfresh(UpsertAll(order, Hydrated(empty)))
     \/ /\ StoreFaults
        /\ fleet' = empty
        /\ PublishAfresh(<<>>)

-----------------------------------------------------------------------------
(* The specification *)

Init ==
  /\ fleet = [s \in Sessions |-> Absent]
  /\ store = [s \in Sessions |-> Absent]
  /\ BusInit

Operator(s) ==
  \/ ToggleAdoption(s)
  \/ \E adopted \in BOOLEAN : SetAdopted(s, adopted)
  \/ \E tier \in Tiers : SetTrust(s, tier)
  \/ TogglePause(s)
  \/ \E hidden \in BOOLEAN : SetHidden(s, hidden)
  \/ \E pinned \in BOOLEAN : SetPhasePinned(s, pinned)
  \/ \E p \in Phases : SetPhase(s, p)
  \/ AdvancePhase(s)
  \/ ApprovePlan(s)
  \/ ApproveAction(s)
  \/ InjectFeedback(s)
  \/ FlagSession(s)
  \/ ForgetSession(s)
  \/ \E root \in Roots \cup {None} : SpawnSession(s, root)
  \/ \E p \in Phases, tier \in Tiers, root \in Roots : RecordLaunch(s, p, tier, root)

Detection(s) ==
  \/ \E status \in Statuses : StatusChanged(s, status)
  \/ PhaseObserved(s)
  \/ \E title \in Titles : TitleObserved(s, title)
  \/ \E root \in Roots : WorkspaceObserved(s, root)
  \/ Discovered(s)
  \/ Ended(s)
  \/ \E kind \in {"PlanProposed", "SummaryObserved"} : PassedOn(s, kind)

Next ==
  \/ \E s \in Sessions : Operator(s)
  \/ \E s \in Sessions : Detection(s)
  \/ RehydrateFleet
  \/ RepublishFleet
  \/ CrashRestart

Spec == Init /\ [][Next]_vars
-----------------------------------------------------------------------------
(* Properties *)

\* Every row, every fleet entry and every queued fact is well formed; an entry is
\* restored, discovered and amended whole.
TypeOK ==
  /\ fleet \in [Sessions -> Session \cup {Absent}]
  /\ store \in [Sessions -> ManagedSession \cup {Absent}]
  /\ bus \in [Receivers -> Channel(Events)]

Adopted(s) == Known(s) /\ fleet[s].adopted

\* A row says what `rec` says, up to the working directory, which an UPDATE keeps.
Agrees(row, rec) == row = [FromSession(rec) EXCEPT !.root = row.root]

\* An adopted session has a row that says what memory says of it: a crash at any
\* moment loses nothing of its governance (supervisor.rs persist: "losing the adoption
\* on restart" is what the insert is for).  Detection drops part of the row when it
\* discovers a session, so this rests on which rows can be discovered.
AdoptedIsDurable ==
  \A s \in Sessions : Adopted(s) => Managed(s) /\ Agrees(store[s], fleet[s])

\* A session the operator released stays released: no row would adopt it again, and
\* its row keeps the phase and the tier memory has.
ReleasedIsDurable ==
  \A s \in Sessions :
    Known(s) /\ ~fleet[s].adopted /\ Managed(s) =>
      /\ ~store[s].adopted
      /\ store[s].phase = fleet[s].phase
      /\ store[s].trust_tier = fleet[s].trust_tier

\* Whatever a session's governance is, its row says so before anything can crash.
RowsKeepGovernance == AdoptedIsDurable /\ ReleasedIsDurable

\* A row that would be adopted and whose session is not in the fleet is a launch nobody
\* has touched: it holds nothing of what Discovered does not seed from it, the pin, the
\* pause, the mark that hides it and the title.
UndiscoveredRowIsFresh ==
  \A s \in Sessions :
    ~Known(s) /\ Managed(s) /\ store[s].adopted =>
      /\ ~store[s].phase_pinned /\ ~store[s].paused /\ ~store[s].hidden
      /\ store[s].title = None

AtRest(rec) == [rec EXCEPT !.status = "Idle"]

RestartRestores ==
  \A s \in Sessions :
    Adopted(s) /\ CrashRestart =>
      fleet'[s] = [AtRest(fleet[s]) EXCEPT !.root = store[s].root]

\* A restart gives every adopted session back as it was, at rest: phase, pin, pause,
\* trust and all (ManagedSession::to_session, "come straight from the record").
RestartKeepsGovernance == [][RestartRestores]_vars

PinnedMove ==
  \A s \in Sessions :
    /\ Known(s) /\ fleet[s].phase_pinned
    /\ fleet'[s] # Absent /\ fleet'[s].phase # fleet[s].phase
    => \/ AdvancePhase(s) \/ CrashRestart
       \/ \E p \in Phases : SetPhase(s, p)

\* The phase of a pinned live session moves only by an operator's pick or advance,
\* whatever detection reports (session.rs phase_pinned: "never auto-advances and is
\* never clobbered by detection").
PinnedPhaseHolds == [][PinnedMove]_vars

Unlocking ==
  \A s \in Sessions :
    /\ Known(s) /\ ~AllowsWrites(fleet[s].phase)
    /\ fleet'[s] # Absent /\ AllowsWrites(fleet'[s].phase)
    => \/ AdvancePhase(s) \/ ApprovePlan(s)
       \/ \E p \in Phases : SetPhase(s, p)

\* No observation, however late, and no restart takes a live session out of a frozen
\* phase into one that writes the project: that is the operator's to do.
OnlyOperatorUnlocksWrites == [][Unlocking]_vars

OptingIn ==
  \A s \in Sessions :
    ~Adopted(s) /\ Adopted(s)' =>
      \/ ToggleAdoption(s) \/ SetAdopted(s, TRUE)
      \/ Managed(s) /\ store[s].adopted
      \/ fleet'[s].root \in AutoAdoptRoots

\* Governance is opted into: by the operator, now or in the row of a session governed
\* before, or by a configured auto-adopt root (session.rs adopted: "nothing is denied
\* until the operator opts in").
OptIn == [][OptingIn]_vars
=============================================================================

----------------------------- MODULE GateProofs ------------------------------
(***************************************************************************)
(* The hook gate: what its verdict protects, for every state the gate can  *)
(* be in, and what its registration in the settings file keeps, for any    *)
(* number of processes, builds, events and hooks of the operator.  What    *)
(* makes OneOfOurs inductive is that the copies the processes hold are as  *)
(* sound as the file: a copy of any age, repaired, becomes a file of one   *)
(* registration.                                                           *)
(***************************************************************************)
EXTENDS GateVerdict, HookRegistration, TLAPS

-----------------------------------------------------------------------------
(* The verdict                                                             *)

\* The five phases are closed under next(), so a phase the gate holds is always one the
\* policy decision point has an answer for (phase.rs next).
LEMMA NextPhaseIsPhase == \A p \in Phases : NextPhase(p) \in Phases
BY DEF NextPhase, Phases

\* The gate's state and the call stay well formed under every move of the session.
THEOREM GateTypeCorrect == GateSpec => []GateTypeOK
<1>1. GateInit => GateTypeOK
  BY DEF GateInit, GateTypeOK
<1>2. GateTypeOK /\ [GateNext]_gateVars => GateTypeOK'
  <2> SUFFICES ASSUME GateTypeOK, [GateNext]_gateVars PROVE GateTypeOK'
    OBVIOUS
  <2> USE DEF GateTypeOK, GateState
  <2>1. CASE MovesOn
    BY <2>1, NextPhaseIsPhase DEF MovesOn
  <2>2. ASSUME NEW p \in Phases, Picks(p) PROVE GateTypeOK'
    BY <2>2 DEF Picks
  <2>3. ASSUME NEW tier \in TrustTiers, Entrusts(tier) PROVE GateTypeOK'
    BY <2>3 DEF Entrusts
  <2>4. CASE Pauses
    BY <2>4 DEF Pauses
  <2>5. CASE Adopts
    BY <2>5 DEF Adopts
  <2>6. CASE UNCHANGED gateVars
    BY <2>6 DEF gateVars
  <2>7. QED
    BY <2>1, <2>2, <2>3, <2>4, <2>5, <2>6 DEF GateNext
<1>3. QED
  BY <1>1, <1>2, PTL DEF GateSpec

\* The decision on a write that a frozen phase does not permit: refused, or put to the
\* operator for an external MCP tool, and never allowed (DefaultPdp::decide).
LEMMA FrozenWriteIsStopped ==
  ASSUME NEW req \in PermissionRequest,
         req.danger = "Risky", EffectiveScope(req) = "Project", ~AllowsWrites(req.phase)
  PROVE  \/ Decide(req) = "Deny"
         \/ Decide(req) = "Prompt" /\ (req.prompt_on_project_freeze \/ IsPhaseControl(req.verb))
<1>1. IsWrite(req) /\ ~WritePermitted(req)
  BY DEF IsWrite, WritePermitted
<1>2. QED
  BY <1>1 DEF Decide, PermissionRequest

\* In a frozen phase no project file is written by an adopted session on its own
\* (phase.rs allows_writes, trust lib.rs decide, gate.rs evaluate).
THEOREM FrozenProtects == GateSpec => []FrozenProtectsProject
<1>1. GateTypeOK => FrozenProtectsProject
  <2> SUFFICES ASSUME GateTypeOK, gate.adopted, ~AllowsWrites(gate.phase), ~call.is_plan,
                      call.danger = "Risky", call.write_scope \in {"Project", "NoScope"}
               PROVE  Verdict = "Deny" \/ (Verdict = "HoldMcpAuthorize" /\ call.external_mcp)
    BY DEF FrozenProtectsProject
  <2> DEFINE req == GateRequest(gate, call)
  <2>1. req \in PermissionRequest
    BY DEF GateTypeOK, GateState, ToolCall, GateRequest, PermissionRequest
  <2>2. /\ req.danger = "Risky" /\ EffectiveScope(req) = "Project"
        /\ ~AllowsWrites(req.phase)
        /\ req.prompt_on_project_freeze = call.external_mcp /\ ~IsPhaseControl(req.verb)
    BY DEF GateRequest, EffectiveScope, IsPhaseControl, NoVerb
  <2>3. Decide(req) = "Deny" \/ (Decide(req) = "Prompt" /\ call.external_mcp)
    <3> HIDE DEF req
    <3> QED BY <2>1, <2>2, FrozenWriteIsStopped
  <2>4. QED
    BY <2>3 DEF Verdict, Evaluate
<1>2. QED
  BY <1>1, GateTypeCorrect, PTL

\* No phase, tier or scope makes a danger-zone call of an adopted session autonomous
\* (trust lib.rs decide, its first test).
THEOREM DangerAsks == GateSpec => []DangerIsNeverAutonomous
<1>1. DangerIsNeverAutonomous
  <2> SUFFICES ASSUME gate.adopted, call.danger = "DangerZone" PROVE Verdict # "Allow"
    BY DEF DangerIsNeverAutonomous
  <2>1. Decide(GateRequest(gate, call)) = "Prompt"
    BY DEF Decide, GateRequest
  <2>2. QED
    BY <2>1 DEF Verdict, Evaluate
<1>2. QED
  BY <1>1, PTL

\* A frozen phase freezes writes only (trust lib.rs decide: reads pass at every tier).
THEOREM ReadsPass == GateSpec => []ReadsAlwaysPass
<1>1. ReadsAlwaysPass
  <2> SUFFICES ASSUME gate.adopted, ~gate.paused, ~call.is_plan, call.danger = "Safe"
               PROVE  Verdict = "Allow"
    BY DEF ReadsAlwaysPass
  <2> DEFINE req == GateRequest(gate, call)
  <2>1. req.danger = "Safe" /\ req.verb = NoVerb
    BY DEF GateRequest
  <2>2. Decide(req) = "Allow"
    BY <2>1 DEF Decide, IsWrite, IsPhaseControl, NoVerb
  <2>3. QED
    BY <2>2 DEF Verdict, Evaluate
<1>2. QED
  BY <1>1, PTL

\* The freeze, danger and reads together: no order of decide's early returns lets a tier or
\* a scope override them (trust lib.rs decide).
THEOREM BoundsAreKept == GateSpec => []VerdictKeepsItsBounds
BY FrozenProtects, DangerAsks, ReadsPass, PTL DEF VerdictKeepsItsBounds

\* The widest a scope gets in a frozen phase is at most what it gets in one that writes,
\* so unlocking takes no permission away (phase.rs allows_writes and
\* allows_ai_workspace_writes).
LEMMA UnlockPermitsMore ==
  ASSUME NEW p \in Phases, NEW q \in Phases, AllowsWrites(q)
  PROVE  AllowsAiWorkspaceWrites(p) => AllowsAiWorkspaceWrites(q)
BY DEF AllowsWrites, AllowsAiWorkspaceWrites

\* Leaving a frozen phase for one that writes never takes away what the session was
\* allowed (trust lib.rs decide over the two freezes of phase.rs).
THEOREM UnlockWidens == GateSpec => UnlockOnlyWidens
<1>1. ASSUME GateTypeOK, GateTypeOK', [GateNext]_gateVars,
             ~AllowsWrites(gate.phase), AllowsWrites(gate'.phase), Verdict = "Allow"
      PROVE  Verdict' = "Allow"
  <2>1. UNCHANGED call
    BY <1>1 DEF GateNext, gateVars, MovesOn, Picks, Entrusts, Pauses, Adopts
  <2>2. gate'.paused = gate.paused /\ gate'.adopted = gate.adopted
    BY <1>1 DEF GateNext, gateVars, MovesOn, Picks, Entrusts, Pauses, Adopts, GateTypeOK,
                GateState
  <2>3. CASE ~gate.adopted
    BY <2>2, <2>3 DEF Verdict, Evaluate
  <2>4. CASE gate.adopted
    <3> DEFINE req == GateRequest(gate, call)
               req2 == GateRequest(gate', call')
    <3>1. ~gate.paused /\ ~call.is_plan /\ Decide(req) = "Allow"
      BY <1>1, <2>4 DEF Verdict, Evaluate
    <3>2. /\ req2.danger = req.danger /\ req2.verb = req.verb
          /\ req2.write_scope = req.write_scope /\ req.verb = NoVerb
      BY <2>1 DEF GateRequest
    <3>3. req.phase = gate.phase /\ req2.phase = gate'.phase
      BY DEF GateRequest
    <3>4. WritePermitted(req) => WritePermitted(req2)
      <4>1. gate.phase \in Phases /\ gate'.phase \in Phases
        BY <1>1 DEF GateTypeOK, GateState
      <4>2. EffectiveScope(req) \in {"Ephemeral", "AiWorkspace", "Project"}
        BY <1>1 DEF EffectiveScope, GateRequest, GateTypeOK, ToolCall, WriteScopes
      <4>3. EffectiveScope(req2) = EffectiveScope(req)
        BY <3>2 DEF EffectiveScope
      <4> HIDE DEF req, req2
      <4>4. QED
        BY <1>1, <3>3, <4>1, <4>2, <4>3, UnlockPermitsMore DEF WritePermitted
    <3>5. IsWrite(req2) <=> IsWrite(req)
      BY <3>2 DEF IsWrite
    <3>6. Decide(req2) = "Allow"
      BY <3>1, <3>2, <3>4, <3>5 DEF Decide, IsPhaseControl, NoVerb
    <3>7. QED
      BY <2>1, <2>2, <2>4, <3>1, <3>6 DEF Verdict, Evaluate
  <2>5. QED
    BY <2>3, <2>4
<1>2. GateTypeOK /\ GateTypeOK' /\ [GateNext]_gateVars
      => [(/\ ~AllowsWrites(gate.phase) /\ AllowsWrites(gate'.phase)
           /\ Verdict = "Allow") => Verdict' = "Allow"]_gateVars
  BY <1>1
<1>3. QED
  BY <1>2, GateTypeCorrect, PTL DEF GateSpec, UnlockOnlyWidens

-----------------------------------------------------------------------------
(* The registration                                                        *)

\* An event's entries: one registration of ours at most, and room for it.
Single(es) ==
  \A i, j \in Slots : es[i].ours # NoBuild /\ es[j].ours # NoBuild => i = j
Room(es) == \E i \in Slots : es[i].ours # NoBuild \/ es[i] = Vacant
Sound(es) == es \in [Slots -> Entry] /\ Single(es) /\ Room(es)

SoundFile(file) == \A e \in Events : file[e] # Odd => Sound(file[e])

HookInv ==
  /\ HookTypeOK
  /\ settings # Unreadable => SoundFile(settings)
  /\ \A p \in Writers : SoundFile(proc[p].seen)

TheirsOf(es) == UNION {es[i].theirs : i \in Slots}

-----------------------------------------------------------------------------
(* What the jobs do to one event *)

\* An event of the operator's alone is sound when it has room.
LEMMA EmptyIsSound ==
  Empty \in SettingsFiles /\ SoundFile(Empty)
BY HookAssumption DEF Empty, SettingsFiles, SoundFile, Sound, Single, Room, Entry, Vacant

\* The place of ours is a place of ours (is_ours).
LEMMA PlaceIsOurs ==
  ASSUME NEW b, NEW es, HasOurs(b, es)
  PROVE  PlaceOfOurs(b, es) \in Slots /\ es[PlaceOfOurs(b, es)].ours # NoBuild
BY DEF HasOurs, PlaceOfOurs, IsOurs

\* Where we have nothing and there is room, a place is free.
LEMMA PlaceIsFree ==
  ASSUME NEW b, NEW es, Room(es), ~HasOurs(b, es)
  PROVE  FreePlace(es) \in Slots /\ es[FreePlace(es)] = Vacant
BY DEF Room, HasOurs, FreePlace, IsOurs

\* Repairing in place keeps the event sound and the operator's hooks (repair_settings).
LEMMA RefreshedIsSound ==
  ASSUME NEW b \in Builds, NEW es, Sound(es), HasOurs(b, es)
  PROVE  Sound(Refreshed(b, es)) /\ TheirsOf(Refreshed(b, es)) = TheirsOf(es)
<1> DEFINE k == PlaceOfOurs(b, es)
           r == Refreshed(b, es)
<1>1. k \in Slots /\ es[k].ours # NoBuild
  BY PlaceIsOurs
<1> HIDE DEF k
<1>2. r = [es EXCEPT ![k] = [es[k] EXCEPT !.ours = b]]
  BY DEF Refreshed, k
<1>3. es \in [Slots -> Entry] /\ Single(es)
  BY DEF Sound
<1>4. r \in [Slots -> Entry]
  BY <1>1, <1>2, <1>3 DEF Entry
<1>5. \A i \in Slots : r[i].theirs = es[i].theirs /\ (i # k => r[i] = es[i])
  BY <1>1, <1>2, <1>3 DEF Entry
<1>6. r[k].ours # NoBuild
  BY <1>1, <1>2, <1>3, HookAssumption DEF Entry
<1> HIDE DEF r
<1>7. Single(r)
  BY <1>1, <1>3, <1>5 DEF Single
<1>8. Room(r)
  BY <1>1, <1>6 DEF Room
<1>9. TheirsOf(r) = TheirsOf(es)
  BY <1>5 DEF TheirsOf
<1> QED
  BY <1>4, <1>7, <1>8, <1>9 DEF Sound, r

\* A registration is added where nothing was (repair_settings, install).
LEMMA AddedIsSound ==
  ASSUME NEW b \in Builds, NEW es, Sound(es), ~HasOurs(b, es)
  PROVE  Sound(Added(b, es)) /\ TheirsOf(Added(b, es)) = TheirsOf(es)
<1> DEFINE k == FreePlace(es)
           r == Added(b, es)
<1>1. k \in Slots /\ es[k] = Vacant
  BY PlaceIsFree DEF Sound
<1> HIDE DEF k
<1>2. r = [es EXCEPT ![k] = [Vacant EXCEPT !.ours = b]]
  BY DEF Added, k
<1>3. es \in [Slots -> Entry]
  BY DEF Sound
<1>4. r \in [Slots -> Entry]
  BY <1>1, <1>2, <1>3 DEF Entry, Vacant
<1>5. \A i \in Slots : r[i].theirs = es[i].theirs /\ (i # k => r[i] = es[i])
  BY <1>1, <1>2, <1>3 DEF Entry, Vacant
<1>6. r[k].ours # NoBuild
  BY <1>1, <1>2, <1>3, HookAssumption DEF Entry, Vacant
<1>7. \A i \in Slots : es[i].ours = NoBuild
  BY DEF HasOurs, IsOurs
<1> HIDE DEF r
<1>8. Single(r)
  BY <1>5, <1>7 DEF Single
<1>9. Room(r)
  BY <1>1, <1>6 DEF Room
<1>10. TheirsOf(r) = TheirsOf(es)
  BY <1>5 DEF TheirsOf
<1> QED
  BY <1>4, <1>8, <1>9, <1>10 DEF Sound, r

\* Removing ours leaves none of ours, and room (uninstall).
LEMMA RemovedIsSound ==
  ASSUME NEW b, NEW es, Sound(es), HasOurs(b, es)
  PROVE  Sound(Removed(b, es))
<1> DEFINE r == Removed(b, es)
<1>1. es \in [Slots -> Entry]
  BY DEF Sound
<1>2. r \in [Slots -> Entry] /\ \A i \in Slots : r[i].ours = NoBuild
  BY <1>1, HookAssumption DEF Removed, IsOurs, Entry, Vacant
<1>3. Single(r)
  BY <1>2 DEF Single
<1>4. PICK i \in Slots : es[i].ours # NoBuild
  BY DEF HasOurs, IsOurs
<1>5. r[i] = Vacant
  BY <1>4 DEF Removed, IsOurs
<1>6. Room(r)
  BY <1>5 DEF Room
<1> QED
  BY <1>2, <1>3, <1>6 DEF Sound, r

\* What a process makes of a sound copy is a sound file; only an uninstall takes hooks of
\* the operator away.
LEMMA EditedIsSound ==
  ASSUME NEW job, NEW b \in Builds, NEW file \in SettingsFiles, SoundFile(file)
  PROVE  /\ Edited(job, b, file) \in SettingsFiles /\ SoundFile(Edited(job, b, file))
         /\ job \in {"daemon", "install"} =>
              \A e \in Events :
                IF file[e] = Odd THEN Edited(job, b, file)[e] = Odd
                ELSE /\ Edited(job, b, file)[e] # Odd
                     /\ TheirsOf(Edited(job, b, file)[e]) = TheirsOf(file[e])
<1>0. \A e \in Events : file[e] # Odd => Sound(file[e])
  BY DEF SoundFile
<1>a. \A es : Sound(es) => es \in [Slots -> Entry] /\ es # Odd
  BY HookAssumption DEF Sound
<1>1. /\ Repaired(b, file) \in SettingsFiles /\ SoundFile(Repaired(b, file))
      /\ \A e \in Events : IF file[e] = Odd THEN Repaired(b, file)[e] = Odd
                           ELSE /\ Repaired(b, file)[e] # Odd
                                /\ TheirsOf(Repaired(b, file)[e]) = TheirsOf(file[e])
  <2>1. ASSUME NEW e \in Events
        PROVE  \/ file[e] = Odd /\ Repaired(b, file)[e] = Odd
               \/ /\ file[e] # Odd /\ Sound(Repaired(b, file)[e])
                  /\ TheirsOf(Repaired(b, file)[e]) = TheirsOf(file[e])
    <3>1. CASE file[e] = Odd
      BY <3>1 DEF Repaired, Readable
    <3>2. CASE file[e] # Odd /\ HasOurs(b, file[e])
      <4>1. Repaired(b, file)[e] = Refreshed(b, file[e])
        BY <3>2 DEF Repaired, Readable
      <4> QED
        BY <3>2, <4>1, <1>0, RefreshedIsSound
    <3>3. CASE file[e] # Odd /\ ~HasOurs(b, file[e])
      <4>1. Repaired(b, file)[e] = Added(b, file[e])
        BY <3>3 DEF Repaired, Readable
      <4> QED
        BY <3>3, <4>1, <1>0, AddedIsSound
    <3> QED
      BY <3>1, <3>2, <3>3
  <2>2. Repaired(b, file) = [e \in Events |-> Repaired(b, file)[e]]
    BY DEF Repaired
  <2> QED
    BY <2>1, <2>2, <1>a DEF SettingsFiles, SoundFile
<1>2. /\ Installed(b, file) \in SettingsFiles /\ SoundFile(Installed(b, file))
      /\ \A e \in Events : IF file[e] = Odd THEN Installed(b, file)[e] = Odd
                           ELSE /\ Installed(b, file)[e] # Odd
                                /\ TheirsOf(Installed(b, file)[e]) = TheirsOf(file[e])
  <2>1. ASSUME NEW e \in Events
        PROVE  \/ file[e] = Odd /\ Installed(b, file)[e] = Odd
               \/ /\ file[e] # Odd /\ Sound(Installed(b, file)[e])
                  /\ TheirsOf(Installed(b, file)[e]) = TheirsOf(file[e])
    <3>1. CASE e \notin Lacking(b, file)
      <4>1. Installed(b, file)[e] = file[e]
        BY <3>1 DEF Installed
      <4> QED
        BY <4>1, <1>0
    <3>2. CASE e \in Lacking(b, file)
      <4>1. Installed(b, file)[e] = Added(b, file[e]) /\ file[e] # Odd
            /\ ~HasOurs(b, file[e])
        BY <3>2 DEF Installed, Lacking, Readable
      <4> QED
        BY <4>1, <1>0, AddedIsSound
    <3> QED
      BY <3>1, <3>2
  <2>2. Installed(b, file) = [e \in Events |-> Installed(b, file)[e]]
    BY DEF Installed
  <2> QED
    BY <2>1, <2>2, <1>a DEF SettingsFiles, SoundFile
<1>3. Uninstalled(b, file) \in SettingsFiles /\ SoundFile(Uninstalled(b, file))
  <2>1. ASSUME NEW e \in Events
        PROVE  \/ file[e] = Odd /\ Uninstalled(b, file)[e] = Odd
               \/ file[e] # Odd /\ Sound(Uninstalled(b, file)[e])
    <3>1. CASE e \notin Holding(b, file)
      <4>1. Uninstalled(b, file)[e] = file[e]
        BY <3>1 DEF Uninstalled
      <4> QED
        BY <4>1, <1>0
    <3>2. CASE e \in Holding(b, file)
      <4>1. Uninstalled(b, file)[e] = Removed(b, file[e]) /\ file[e] # Odd
            /\ HasOurs(b, file[e])
        BY <3>2 DEF Uninstalled, Holding, Readable
      <4> QED
        BY <4>1, <1>0, RemovedIsSound
    <3> QED
      BY <3>1, <3>2
  <2>2. Uninstalled(b, file) = [e \in Events |-> Uninstalled(b, file)[e]]
    BY DEF Uninstalled
  <2> QED
    BY <2>1, <2>2, <1>a DEF SettingsFiles, SoundFile
<1>4. CASE job = "daemon"
  BY <1>1, <1>4 DEF Edited
<1>5. CASE job = "install"
  BY <1>2, <1>5 DEF Edited
<1>6. CASE job \notin {"daemon", "install"}
  BY <1>3, <1>6 DEF Edited
<1> QED
  BY <1>4, <1>5, <1>6

-----------------------------------------------------------------------------
(* The steps *)

\* Where a process goes, it takes a sound copy along or none.
LEMMA GoesKeeps ==
  ASSUME HookInv, NEW p \in Writers, NEW to \in {"away", "ask", "write", "verbs", "serve"},
         Goes(p, to)
  PROVE  proc' \in [Writers -> [at : {"away", "ask", "write", "verbs", "serve"},
                              job : {"daemon", "install", "uninstall"}, seen : SettingsFiles]]
         /\ \A q \in Writers : SoundFile(proc'[q].seen)
<1>1. proc \in [Writers -> [at : {"away", "ask", "write", "verbs", "serve"},
                          job : {"daemon", "install", "uninstall"}, seen : SettingsFiles]]
  BY DEF HookInv, HookTypeOK
<1>2. \A q \in Writers : q # p => proc'[q] = proc[q]
  BY <1>1 DEF Goes
<1>3. /\ proc'[p] \in [at : {"away", "ask", "write", "verbs", "serve"},
                       job : {"daemon", "install", "uninstall"}, seen : SettingsFiles]
      /\ SoundFile(proc'[p].seen)
  <2>1. CASE to = "away"
    BY <1>1, <2>1, EmptyIsSound DEF Goes, Away
  <2>2. CASE to # "away"
    <3> DEFINE s == IF to = "write" THEN proc[p].seen ELSE Empty
    <3>1. s \in SettingsFiles /\ SoundFile(s)
      BY <1>1, EmptyIsSound DEF HookInv
    <3>2. proc'[p] = [at |-> to, job |-> proc[p].job, seen |-> s]
      BY <1>1, <2>2 DEF Goes
    <3>3. proc[p].job \in {"daemon", "install", "uninstall"}
      BY <1>1
    <3> HIDE DEF s
    <3> QED
      BY <3>1, <3>2, <3>3
  <2> QED
    BY <2>1, <2>2
<1>4. proc' = [q \in Writers |-> proc'[q]]
  BY <1>1 DEF Goes
<1> QED
  BY <1>1, <1>2, <1>3, <1>4 DEF HookInv

\* What a process reads is as sound as the file.
LEMMA LoadsKeeps ==
  ASSUME HookInv, NEW p \in Writers, NEW job \in {"daemon", "install", "uninstall"},
         NEW to \in {"ask", "write", "verbs"}, Loads(p, job, to),
         to = "verbs" \/ settings # Unreadable
  PROVE  HookInv'
<1> DEFINE s == IF to = "verbs" THEN Empty ELSE settings
<1>1. proc \in [Writers -> [at : {"away", "ask", "write", "verbs", "serve"},
                          job : {"daemon", "install", "uninstall"}, seen : SettingsFiles]]
  BY DEF HookInv, HookTypeOK
<1>2. s \in SettingsFiles /\ SoundFile(s)
  BY EmptyIsSound DEF HookInv, HookTypeOK
<1>3. proc' = [proc EXCEPT ![p] = [at |-> to, job |-> job, seen |-> s]]
      /\ UNCHANGED <<settings, verbs>>
  BY DEF Loads
<1> HIDE DEF s
<1>4. \A q \in Writers : SoundFile(proc'[q].seen)
  BY <1>1, <1>2, <1>3 DEF HookInv
<1>5. proc' \in [Writers -> [at : {"away", "ask", "write", "verbs", "serve"},
                           job : {"daemon", "install", "uninstall"}, seen : SettingsFiles]]
  BY <1>1, <1>2, <1>3
<1>6. (settings # Unreadable => SoundFile(settings))'
  BY <1>3 DEF HookInv, SoundFile, Sound, Single, Room
<1>7. settings' \in SettingsFiles \cup {Unreadable} /\ verbs' \in Builds \cup {NoBuild, Odd}
  BY <1>3 DEF HookInv, HookTypeOK
<1>8. (\A q \in Writers : SoundFile(proc[q].seen))'
  BY <1>4 DEF SoundFile, Sound, Single, Room
<1> QED
  BY <1>5, <1>6, <1>7, <1>8 DEF HookInv, HookTypeOK

\* The file a step leaves behind.
LEMMA FileKeeps ==
  ASSUME HookInv, settings' \in SettingsFiles, SoundFile(settings'), UNCHANGED <<verbs, proc>>
  PROVE  HookInv'
<1>1. HookTypeOK'
  BY DEF HookInv, HookTypeOK
<1>2. (settings # Unreadable => SoundFile(settings))'
  BY DEF SoundFile, Sound, Single, Room
<1>3. (\A q \in Writers : SoundFile(proc[q].seen))'
  BY DEF HookInv, SoundFile, Sound, Single, Room
<1> QED
  BY <1>1, <1>2, <1>3 DEF HookInv

\* A process moves on; nothing is written to the settings.
LEMMA MoveKeeps ==
  ASSUME HookInv, NEW p \in Writers, NEW to \in {"away", "ask", "write", "verbs", "serve"},
         Goes(p, to), UNCHANGED settings, verbs' \in Builds \cup {NoBuild, Odd}
  PROVE  HookInv'
<1>1. /\ proc' \in [Writers -> [at : {"away", "ask", "write", "verbs", "serve"},
                              job : {"daemon", "install", "uninstall"}, seen : SettingsFiles]]
      /\ \A q \in Writers : SoundFile(proc'[q].seen)
  BY GoesKeeps
<1>2. HookTypeOK'
  BY <1>1 DEF HookInv, HookTypeOK
<1>3. (settings # Unreadable => SoundFile(settings))'
  BY DEF HookInv, SoundFile, Sound, Single, Room
<1>4. (\A q \in Writers : SoundFile(proc[q].seen))'
  BY <1>1 DEF SoundFile, Sound, Single, Room
<1> QED
  BY <1>2, <1>3, <1>4 DEF HookInv

\* An edit of one event by the operator.
LEMMA EditKeeps ==
  ASSUME HookInv, NEW e \in Events, NEW es, es = Odd \/ Sound(es), Edits(e, es)
  PROVE  HookInv'
<1>1. settings \in SettingsFiles /\ SoundFile(settings)
  BY DEF Edits, HookInv, HookTypeOK
<1>2. settings' = [settings EXCEPT ![e] = es] /\ UNCHANGED <<verbs, proc>>
  BY DEF Edits
<1>3. es \in [Slots -> Entry] \cup {Odd}
  BY DEF Sound
<1>4. settings' \in SettingsFiles
  BY <1>1, <1>2, <1>3 DEF SettingsFiles
<1>5. SoundFile(settings')
  BY <1>1, <1>2 DEF SettingsFiles, SoundFile
<1> QED
  BY <1>2, <1>4, <1>5, FileKeeps

\* One more hook of the operator's leaves the event sound.
LEMMA AddForeignIsSound ==
  ASSUME HookInv, NEW e \in Events, NEW i \in Slots, NEW h \in Foreign, AddForeign(e, i, h)
  PROVE  Sound([settings[e] EXCEPT ![i].theirs = @ \cup {h}])
<1> DEFINE es == settings[e]
           r  == [es EXCEPT ![i].theirs = @ \cup {h}]
<1>1. Sound(es)
  BY DEF AddForeign, HookInv, HookTypeOK, SettingsFiles, SoundFile, Readable
<1>2. PICK j \in Slots \ {i} : es[j].ours # NoBuild \/ es[j] = Vacant
  BY DEF AddForeign
<1> HIDE DEF es
<1>3. r \in [Slots -> Entry]
  BY <1>1 DEF Sound, Entry
<1>4. \A k \in Slots : r[k].ours = es[k].ours
  BY <1>1 DEF Sound, Entry
<1>5. r[j] = es[j]
  BY <1>1, <1>2 DEF Sound
<1> HIDE DEF r
<1>6. Single(r)
  BY <1>1, <1>4 DEF Sound, Single
<1>7. Room(r)
  BY <1>2, <1>5 DEF Room
<1> QED
  BY <1>3, <1>6, <1>7 DEF Sound, r, es

\* A respelled registration is still the only one.
LEMMA RespellIsSound ==
  ASSUME HookInv, NEW e \in Events, NEW i \in Slots, NEW b \in Builds, Respell(e, i, b)
  PROVE  Sound([settings[e] EXCEPT ![i].ours = b])
<1> DEFINE es == settings[e]
           r  == [es EXCEPT ![i].ours = b]
<1>1. Sound(es) /\ es[i].ours # NoBuild
  BY DEF Respell, HookInv, HookTypeOK, SettingsFiles, SoundFile, Readable
<1> HIDE DEF es
<1>2. r \in [Slots -> Entry]
  BY <1>1 DEF Sound, Entry
<1>3. \A k \in Slots : k # i => r[k] = es[k]
  BY <1>1 DEF Sound
<1>4. r[i].ours # NoBuild
  BY <1>1, HookAssumption DEF Sound, Entry
<1> HIDE DEF r
<1>5. Single(r)
  BY <1>1, <1>3 DEF Sound, Single
<1>6. Room(r)
  BY <1>4 DEF Room
<1> QED
  BY <1>2, <1>5, <1>6 DEF Sound, r, es

\* An entry that goes leaves room.
LEMMA DropIsSound ==
  ASSUME HookInv, NEW e \in Events, NEW i \in Slots, DropEntry(e, i)
  PROVE  Sound([settings[e] EXCEPT ![i] = Vacant])
<1> DEFINE es == settings[e]
           r  == [es EXCEPT ![i] = Vacant]
<1>1. Sound(es)
  BY DEF DropEntry, HookInv, HookTypeOK, SettingsFiles, SoundFile, Readable
<1> HIDE DEF es
<1>2. r \in [Slots -> Entry] /\ r[i] = Vacant
  BY <1>1, HookAssumption DEF Sound, Entry, Vacant
<1>3. \A k \in Slots : r[k].ours # NoBuild => r[k] = es[k]
  BY <1>1 DEF Sound, Vacant
<1> HIDE DEF r
<1>4. Single(r)
  BY <1>1, <1>3 DEF Sound, Single
<1>5. Room(r)
  BY <1>2 DEF Room
<1> QED
  BY <1>2, <1>4, <1>5 DEF Sound, r, es

\* A process writes what it made of its copy.
LEMMA WriteKeeps ==
  ASSUME HookInv, NEW p \in Writers, WriteSettings(p)
  PROVE  HookInv'
<1>1. /\ proc[p].seen \in SettingsFiles /\ SoundFile(proc[p].seen)
      /\ proc[p].job \in {"daemon", "install", "uninstall"}
  BY DEF HookInv, HookTypeOK
<1>2. BuildOf[p] \in Builds
  BY HookAssumption
<1>3. settings' \in SettingsFiles /\ SoundFile(settings')
  BY <1>1, <1>2, EditedIsSound DEF WriteSettings
<1>4. AfterSettings(p) \in {"away", "ask", "write", "verbs", "serve"}
  BY DEF AfterSettings
<1>5. /\ proc' \in [Writers -> [at : {"away", "ask", "write", "verbs", "serve"},
                              job : {"daemon", "install", "uninstall"}, seen : SettingsFiles]]
      /\ \A q \in Writers : SoundFile(proc'[q].seen)
  BY <1>4, GoesKeeps DEF WriteSettings
<1>6. HookTypeOK'
  BY <1>3, <1>5 DEF WriteSettings, HookInv, HookTypeOK
<1>7. (settings # Unreadable => SoundFile(settings))'
  BY <1>3 DEF SoundFile, Sound, Single, Room
<1>8. (\A q \in Writers : SoundFile(proc[q].seen))'
  BY <1>5 DEF SoundFile, Sound, Single, Room
<1> QED
  BY <1>6, <1>7, <1>8 DEF HookInv

-----------------------------------------------------------------------------
(* The invariant *)

\* At the start nothing is registered.
LEMMA HookInitInv == HookInit => HookInv
BY EmptyIsSound DEF HookInit, HookInv, HookTypeOK, Away

\* Every step of every process and of the operator keeps the files and the copies sound.
LEMMA HookStepInv == HookInv /\ [HookNext]_hookVars => HookInv'
<1> SUFFICES ASSUME HookInv, [HookNext]_hookVars
             PROVE  HookInv'
  OBVIOUS
<1>t. verbs \in Builds \cup {NoBuild, Odd}
  BY DEF HookInv, HookTypeOK
<1>1. ASSUME NEW p \in Writers, DaemonLoads(p)
      PROVE  HookInv'
  BY <1>1, LoadsKeeps DEF DaemonLoads
<1>2. ASSUME NEW p \in Writers, InstallLoads(p)
      PROVE  HookInv'
  BY <1>2, LoadsKeeps DEF InstallLoads
<1>3. ASSUME NEW p \in Writers, UninstallLoads(p)
      PROVE  HookInv'
  BY <1>3, LoadsKeeps DEF UninstallLoads
<1>4. ASSUME NEW p \in Writers, Confirm(p) \/ Decline(p)
      PROVE  HookInv'
  BY <1>4, <1>t, MoveKeeps DEF Confirm, Decline
<1>5. ASSUME NEW p \in Writers, WriteSettings(p)
      PROVE  HookInv'
  BY <1>5, WriteKeeps
<1>6. ASSUME NEW p \in Writers, WriteFails(p) \/ BackupFails(p)
      PROVE  HookInv'
  BY <1>6, <1>t, MoveKeeps DEF WriteFails, BackupFails, AfterSettings
<1>7. ASSUME NEW p \in Writers, LoadVerbs(p)
      PROVE  HookInv'
  BY <1>7, <1>t, MoveKeeps DEF LoadVerbs
<1>8. ASSUME NEW p \in Writers, WriteVerbs(p)
      PROVE  HookInv'
  <2>1. WantedServer(p) \in Builds \cup {NoBuild, Odd}
    BY HookAssumption DEF WantedServer
  <2> QED
    BY <1>8, <2>1, MoveKeeps DEF WriteVerbs
<1>9. ASSUME NEW p \in Writers, WriteVerbsFails(p)
      PROVE  HookInv'
  BY <1>9, <1>t, MoveKeeps DEF WriteVerbsFails
<1>10. ASSUME NEW e \in Events, NEW i \in Slots, NEW h \in Foreign, AddForeign(e, i, h)
       PROVE  HookInv'
  BY <1>10, AddForeignIsSound, EditKeeps DEF AddForeign
<1>11. ASSUME NEW e \in Events, NEW i \in Slots, NEW b \in Builds, Respell(e, i, b)
       PROVE  HookInv'
  BY <1>11, RespellIsSound, EditKeeps DEF Respell
<1>12. ASSUME NEW e \in Events, NEW i \in Slots, DropEntry(e, i)
       PROVE  HookInv'
  BY <1>12, DropIsSound, EditKeeps DEF DropEntry
<1>13. ASSUME NEW e \in Events, Garble(e)
       PROVE  HookInv'
  BY <1>13, EditKeeps DEF Garble
<1>14. CASE Break
  <2>1. HookTypeOK'
    BY <1>14 DEF Break, HookInv, HookTypeOK
  <2>2. (\A q \in Writers : SoundFile(proc[q].seen))'
    BY <1>14 DEF Break, HookInv, SoundFile, Sound, Single, Room
  <2> QED
    BY <1>14, <2>1, <2>2 DEF Break, HookInv
<1>15. CASE StartOver
  BY <1>15, EmptyIsSound, FileKeeps DEF StartOver
<1>16. CASE GarbleVerbs \/ UNCHANGED hookVars
  <2>1. HookTypeOK'
    BY <1>16 DEF GarbleVerbs, hookVars, HookInv, HookTypeOK
  <2>2. (\A q \in Writers : SoundFile(proc[q].seen))'
    BY <1>16 DEF GarbleVerbs, hookVars, HookInv, SoundFile, Sound, Single, Room
  <2>3. (settings # Unreadable => SoundFile(settings))'
    BY <1>16 DEF GarbleVerbs, hookVars, HookInv, SoundFile, Sound, Single, Room
  <2> QED
    BY <2>1, <2>2, <2>3 DEF HookInv
<1> QED
  BY <1>1, <1>2, <1>3, <1>4, <1>5, <1>6, <1>7, <1>8, <1>9, <1>10, <1>11, <1>12, <1>13,
     <1>14, <1>15, <1>16 DEF HookNext

\* The invariant holds throughout.
LEMMA HookInvariant == HookSpec => []HookInv
BY HookInitInv, HookStepInv, PTL DEF HookSpec

\* Every variable keeps its type.
THEOREM HookTypeCorrect == HookSpec => []HookTypeOK
<1>1. HookInv => HookTypeOK
  BY DEF HookInv
<1> QED
  BY <1>1, HookInvariant, PTL

\* No event ever holds two registrations of ours, whatever the order of starts, installs and
\* uninstalls and however old the copies they write.
THEOREM OneIsOurs == HookSpec => []OneOfOurs
<1>1. HookInv => OneOfOurs
  BY DEF HookInv, OneOfOurs, OneIn, SoundFile, Sound, Single, Readable
<1> QED
  BY <1>1, HookInvariant, PTL

\* A start or an install takes no hook of the operator's out of a file nobody changed in
\* between.
THEOREM RepairSpares == HookSpec => RepairSparesForeign
<1>1. HookInv /\ [HookNext]_hookVars =>
        [\A p \in Writers : Rewrites(p, {"daemon", "install"})
                          => Theirs(settings') = Theirs(settings)]_hookVars
  <2> SUFFICES ASSUME HookInv, NEW p \in Writers, Rewrites(p, {"daemon", "install"})
               PROVE  Theirs(settings') = Theirs(settings)
    OBVIOUS
  <2>1. /\ settings = proc[p].seen /\ proc[p].job \in {"daemon", "install"}
        /\ settings' = Edited(proc[p].job, BuildOf[p], settings)
    BY DEF Rewrites, WriteSettings
  <2>2. settings \in SettingsFiles /\ SoundFile(settings) /\ BuildOf[p] \in Builds
    BY <2>1, HookAssumption DEF HookInv, HookTypeOK
  <2>3. \A e \in Events :
          IF settings[e] = Odd THEN settings'[e] = Odd
          ELSE settings'[e] # Odd /\ TheirsOf(settings'[e]) = TheirsOf(settings[e])
    BY <2>1, <2>2, EditedIsSound
  <2> QED
    BY <2>3 DEF Theirs, TheirsOf, Readable
<1> QED
  BY <1>1, HookInvariant, PTL DEF HookSpec, RepairSparesForeign
=============================================================================

------------------------------ MODULE ToolProofs ------------------------------
(***************************************************************************)
(* What the desktop's own tools promise, for any spaces, tabs, servers and *)
(* messages: the gRPC request builder first, then the tabs of the centre.  *)
(***************************************************************************)
EXTENDS WorkspaceTabs, GrpcPanel, TLAPS

(***************************************************************************)
(* The request builder.                                                    *)
(***************************************************************************)
(* The operator's last message, or none; one the method had fields for is   *)
(* a message.                                                              *)
WrittenType == {w \in [msg : Messages \cup {NoMsg}, bound : BOOLEAN] : w.bound => w.msg # NoMsg}

(* The type invariant, with the types of what is in flight and of the      *)
(* history.                                                                *)
GrpcTyped ==
  /\ GrpcTypeOK
  /\ \A c \in connects : c.target \in Hosts
  /\ formDirty \in BOOLEAN /\ written \in WrittenType

(* A bound message that is on screen when the form is to be built anew is   *)
(* the seed of the new one.                                                *)
BoundIsSeeded ==
  written.bound /\ Request = written.msg /\ bodyMode = "Form" /\ formDirty
    => formSeed = written.msg

(* What a schema makes of a picked method is a method or none.             *)
LEMMA TypeOfTyped ==
  ASSUME NEW s \in Hosts \cup {NoSchema}, NEW c \in Calls \cup {NoCall}
  PROVE  TypeOf(s, c) \in Calls \cup {NoCall}
BY DEF TypeOf

(* Whatever the text, a form holds a message of its own or nothing.        *)
LEMMA SeededTyped ==
  ASSUME NEW c, NEW text
  PROVE  /\ Seeded(c, text) \in Messages \cup {NoMsg}
         /\ Seeded(c, text) # NoMsg => Seeded(c, text)[1] = c
BY DEF Seeded

(* What is noted of a written message is the message itself, bound to its  *)
(* method.                                                                 *)
LEMMA WroteTyped ==
  ASSUME NEW m, NEW c
  PROVE  /\ Wrote(m, c) \in WrittenType
         /\ Wrote(m, c).bound => m \in Messages /\ m[1] = c /\ Wrote(m, c).msg = m
BY GrpcAssumption DEF Wrote, Nothing, WrittenType, Messages

(* A server's list is of calls and has a first.                            *)
LEMMA OffersTyped ==
  ASSUME NEW t \in Hosts
  PROVE  Head(Offers[t]) \in Calls /\ OffersOf(t) \subseteq Calls
<1>1. Offers[t] \in Seq(Calls) /\ Offers[t] # <<>>
  BY GrpcAssumption
<1> QED  BY <1>1 DEF OffersOf

(* What would be sent is a text the panel can hold.                        *)
LEMMA RequestTyped == GrpcTyped => Request \in Texts
BY DEF GrpcTyped, GrpcTypeOK, Request, Texts

(* The panel starts well formed.                                           *)
LEMMA GrpcInitTyped == GrpcInit => GrpcTyped
<1> SUFFICES ASSUME GrpcInit PROVE GrpcTyped
  OBVIOUS
<1>1. saved \in [Names -> [call : Calls, text : Texts] \cup {NoCall}]
  BY DEF GrpcInit, Messages, Texts
<1>2. written \in WrittenType
  BY DEF GrpcInit, Nothing, WrittenType
<1> QED  BY <1>1, <1>2 DEF GrpcInit, GrpcTyped, GrpcTypeOK, Texts

(* Every step of the panel, a connect's answer among them, leaves it well  *)
(* formed.                                                                 *)
LEMMA GrpcStepTyped == GrpcTyped /\ [GrpcNext]_grpcVars => GrpcTyped'
<1> SUFFICES ASSUME GrpcTyped, [GrpcNext]_grpcVars PROVE GrpcTyped'
  OBVIOUS
<1> USE DEF GrpcTyped, GrpcTypeOK
<1>1. CASE UNCHANGED grpcVars
  BY <1>1 DEF grpcVars
<1>2. CASE \E t \in Hosts : TypeTarget(t)
  BY <1>2 DEF TypeTarget, formVars, wireVars
<1>3. CASE Connect
  BY <1>3, GrpcAssumption DEF Connect, formVars
<1>4. ASSUME NEW c \in connects, Connected(c) PROVE GrpcTyped'
  BY <1>4, OffersTyped, RequestTyped DEF Connected
<1>5. ASSUME NEW c \in connects, ConnectFailed(c) PROVE GrpcTyped'
  BY <1>5 DEF ConnectFailed
<1>6. ASSUME NEW c \in connects, ConnectDied(c) PROVE GrpcTyped'
  BY <1>6 DEF ConnectDied, formVars
<1>7. CASE Render
  <2>1. rows' \in Calls \cup {NoCall} /\ cells' \in Messages \cup {NoMsg}
    BY <1>7, TypeOfTyped, SeededTyped DEF Render, Rebuilt
  <2> QED  BY <1>7, <2>1 DEF Render, Rebuilt, wireVars, Texts
<1>8. ASSUME NEW c \in Calls, Pick(c) PROVE GrpcTyped'
  BY <1>8 DEF Pick, wireVars, Nothing, WrittenType, Texts
<1>9. ASSUME NEW b \in Bodies, EditForm(b) PROVE GrpcTyped'
  <2>1. written' \in WrittenType /\ cells' \in Messages
    BY <1>9, WroteTyped DEF EditForm, Messages
  <2> QED  BY <1>9, <2>1 DEF EditForm, wireVars
<1>10. ASSUME NEW text \in Texts, EditJson(text) PROVE GrpcTyped'
  BY <1>10, WroteTyped DEF EditJson, formVars, wireVars
<1>11. CASE ToJson
  BY <1>11 DEF ToJson, formVars, wireVars, Texts
<1>12. CASE ToForm
  <2>1. rows' \in Calls \cup {NoCall} /\ cells' \in Messages \cup {NoMsg}
    BY <1>12, TypeOfTyped, SeededTyped DEF ToForm, Rebuilt
  <2> QED  BY <1>12, <2>1 DEF ToForm, Rebuilt, wireVars, Texts
<1>13. ASSUME NEW b \in Bodies, FillExample(b) PROVE GrpcTyped'
  <2> DEFINE c == TypeOf(schema, picked)
  <2>1. c \in Calls
    BY <1>13, TypeOfTyped DEF FillExample
  <2>2. <<c, b>> \in Messages
    BY <2>1 DEF Messages
  <2>3. written' \in WrittenType
    BY <1>13, WroteTyped DEF FillExample
  <2>4. CASE bodyMode = "Form"
    <3>1. rows' = c /\ cells' \in Messages \cup {NoMsg} /\ formDirty' = FALSE /\ formSeed' = NoMsg
      BY <1>13, <2>4, SeededTyped DEF FillExample, Rebuilt
    <3> QED  BY <1>13, <2>1, <2>3, <2>4, <3>1 DEF FillExample, wireVars, Texts
  <2>5. CASE bodyMode # "Form"
    BY <1>13, <2>2, <2>3, <2>5 DEF FillExample, wireVars, formVars, Texts
  <2> QED  BY <2>4, <2>5
<1>14. CASE Send
  BY <1>14 DEF Send, formVars
<1>15. ASSUME NEW s \in sends, Answered(s) PROVE GrpcTyped'
  BY <1>15 DEF Answered, formVars
<1>16. CASE SaveCall
  <2>1. picked \in Calls /\ NameOf[picked] \in Names /\ Request \in Texts
    BY <1>16, RequestTyped, GrpcAssumption DEF SaveCall
  <2> QED  BY <1>16, <2>1 DEF SaveCall, formVars, wireVars
<1>17. ASSUME NEW n \in Names, LoadSaved(n) PROVE GrpcTyped'
  <2>1. saved[n] \in [call : Calls, text : Texts]
    BY <1>17 DEF LoadSaved
  <2>2. rows' \in Calls \cup {NoCall} /\ cells' \in Messages \cup {NoMsg}
    BY <1>17, <2>1, TypeOfTyped, SeededTyped DEF LoadSaved, Rebuilt
  <2>3. written' \in WrittenType
    BY <1>17, WroteTyped DEF LoadSaved
  <2> QED  BY <1>17, <2>1, <2>2, <2>3 DEF LoadSaved, Rebuilt, wireVars, Texts
<1> QED
  BY <1>1, <1>2, <1>3, <1>4, <1>5, <1>6, <1>7, <1>8, <1>9, <1>10, <1>11, <1>12,
     <1>13, <1>14, <1>15, <1>16, <1>17 DEF GrpcNext

(* TYPE CORRECTNESS of the request builder (grpc_panel.rs).                *)
THEOREM GrpcTypeCorrect == GrpcSpec => []GrpcTyped
<1> QED  BY GrpcInitTyped, GrpcStepTyped, PTL DEF GrpcSpec

(* The form's rows are those of the picked method by the schema at hand,   *)
(* whichever connects answered, failed or died (grpc_panel.rs, connect,    *)
(* rebuild_form).                                                          *)
THEOREM FormIsAlwaysTheMethods == GrpcSpec => []FormIsTheMethods
<1>1. GrpcInit => FormIsTheMethods
  BY DEF GrpcInit, FormIsTheMethods, TypeOf
<1>2. FormIsTheMethods /\ [GrpcNext]_grpcVars => FormIsTheMethods'
  <2> SUFFICES ASSUME FormIsTheMethods, [GrpcNext]_grpcVars, ~formDirty'
               PROVE  rows' = TypeOf(schema', picked') /\ (cells' # NoMsg => cells'[1] = rows')
    BY DEF FormIsTheMethods
  <2>1. ASSUME NEW s, NEW c, NEW seed, Rebuilt(s, c, seed), schema' = s, picked' = c
        PROVE  rows' = TypeOf(schema', picked') /\ (cells' # NoMsg => cells'[1] = rows')
    BY <2>1, SeededTyped DEF Rebuilt
  <2>2. CASE Render \/ ToForm \/ \E n \in Names : LoadSaved(n)
    BY <2>1, <2>2 DEF Render, ToForm, LoadSaved
  <2>3. CASE \E b \in Bodies : FillExample(b)
    BY <2>1, <2>3 DEF FillExample, formVars, FormIsTheMethods, Acts
  <2>4. CASE \E b \in Bodies : EditForm(b)
    BY <2>4 DEF EditForm, Acts, FormIsTheMethods
  <2>5. CASE \E c \in connects : Connected(c) \/ ConnectFailed(c) \/ ConnectDied(c)
    BY <2>5 DEF Connected, ConnectFailed, ConnectDied, formVars, FormIsTheMethods, TypeOf
  <2>6. CASE \E c \in Calls : Pick(c)
    BY <2>6 DEF Pick
  <2>7. CASE \/ Connect \/ ToJson \/ Send \/ SaveCall \/ UNCHANGED grpcVars
             \/ \E t \in Hosts : TypeTarget(t)
             \/ \E text \in Texts : EditJson(text)
             \/ \E s \in sends : Answered(s)
    BY <2>7 DEF Connect, ToJson, Send, SaveCall, TypeTarget, EditJson, Answered, formVars,
                grpcVars, FormIsTheMethods
  <2> QED  BY <2>2, <2>3, <2>4, <2>5, <2>6, <2>7 DEF GrpcNext
<1> QED  BY <1>1, <1>2, PTL DEF GrpcSpec

(* A flag that is up has something under way to take it down, however many *)
(* connects and calls cross (grpc_panel.rs, connect, send).                *)
THEOREM FlagsAlwaysTell == GrpcSpec => []FlagsTell
<1>1. GrpcInit => FlagsTell
  BY DEF GrpcInit, FlagsTell
<1>2. FlagsTell /\ [GrpcNext]_grpcVars => FlagsTell'
  <2> SUFFICES ASSUME FlagsTell, [GrpcNext]_grpcVars PROVE FlagsTell'
    OBVIOUS
  <2>1. CASE Connect
    BY <2>1 DEF Connect, FlagsTell
  <2>5. CASE Send
    BY <2>5 DEF Send, FlagsTell
  <2>2. CASE \E c \in connects : Connected(c) \/ ConnectFailed(c) \/ ConnectDied(c)
    BY <2>2 DEF Connected, ConnectFailed, ConnectDied, FlagsTell
  <2>3. CASE \E s \in sends : Answered(s)
    BY <2>3 DEF Answered, FlagsTell
  <2>4. CASE UNCHANGED wireVars
    BY <2>4 DEF wireVars, FlagsTell
  <2>6. ASSUME NEW c, Pick(c) \/ LoadSaved(c) \/ TypeTarget(c) \/ EditForm(c) \/ EditJson(c)
                      \/ FillExample(c)
        PROVE  UNCHANGED wireVars
    BY <2>6 DEF Pick, LoadSaved, TypeTarget, EditForm, EditJson, FillExample
  <2>7. CASE Render \/ ToJson \/ ToForm \/ SaveCall \/ UNCHANGED grpcVars
    BY <2>4, <2>7 DEF Render, ToJson, ToForm, SaveCall, grpcVars, wireVars
  <2> QED  BY <2>1, <2>2, <2>3, <2>4, <2>5, <2>6, <2>7 DEF GrpcNext
<1> QED  BY <1>1, <1>2, PTL DEF GrpcSpec

(* What a step of the panel may do to a bound message that is at hand and  *)
(* that the operator does not write over.                                  *)
Survives ==
  (written.bound /\ Request = written.msg /\ written' = written)
    => \/ Request' = written.msg
       \/ bodyMode' = "Form" /\ (schema' = NoSchema \/ rows' # written.msg[1])

(* A form drawn from a bound message holds it, or is of no method it knows *)
(* the message for.                                                        *)
LEMMA RebuiltHolds ==
  ASSUME GrpcTyped, written.bound, Rebuilt(schema, picked, written.msg)
  PROVE  cells' = written.msg \/ schema = NoSchema \/ rows' # written.msg[1]
BY DEF Rebuilt, Seeded, Texts, Messages, GrpcTyped, WrittenType

(* No step takes a bound message away but where the form finds no schema   *)
(* or is of another method, and the next form is seeded with it.           *)
LEMMA BoundStays ==
  GrpcTyped /\ BoundIsSeeded /\ [GrpcNext]_grpcVars => Survives /\ BoundIsSeeded'
<1> SUFFICES ASSUME GrpcTyped, BoundIsSeeded, [GrpcNext]_grpcVars
             PROVE  Survives /\ BoundIsSeeded'
  OBVIOUS
<1>0. written \in WrittenType /\ bodyMode \in {"Form", "Json"}
  BY DEF GrpcTyped, GrpcTypeOK
<1>1. ASSUME NEW c \in connects, Connected(c) PROVE Survives /\ BoundIsSeeded'
  BY <1>1 DEF Connected, Survives, BoundIsSeeded, Request
<1>2. ASSUME NEW c \in connects, ConnectFailed(c) PROVE Survives /\ BoundIsSeeded'
  <2>1. Survives
    BY <1>0, <1>2 DEF ConnectFailed, Survives, Request
  <2>2. BoundIsSeeded'
    BY <1>0, <1>2 DEF ConnectFailed, BoundIsSeeded, Request, WrittenType
  <2> QED  BY <2>1, <2>2
<1>3. CASE Render
  <2>1. Survives
    <3>1. CASE bodyMode = "Form" /\ written.bound /\ Request = written.msg
      <4>1. formSeed = written.msg
        BY <1>3, <3>1 DEF Render, BoundIsSeeded
      <4>2. cells' = written.msg \/ schema = NoSchema \/ rows' # written.msg[1]
        BY <1>3, <3>1, <4>1, RebuiltHolds DEF Render
      <4> QED  BY <1>3, <3>1, <4>2 DEF Render, Survives, Request
    <3>2. CASE bodyMode # "Form"
      BY <1>3, <3>2 DEF Render, Survives, Request
    <3> QED  BY <3>1, <3>2 DEF Survives
  <2> QED  BY <1>3, <2>1 DEF Render, Rebuilt, BoundIsSeeded
<1>4. ASSUME NEW c \in Calls, Pick(c) PROVE Survives /\ BoundIsSeeded'
  BY <1>4 DEF Pick, Nothing, Survives, BoundIsSeeded, Request
<1>5. ASSUME NEW b \in Bodies, EditForm(b) PROVE Survives /\ BoundIsSeeded'
  <2>1. written' = Wrote(cells', rows) /\ bodyMode = "Form" /\ bodyMode' = bodyMode
        /\ ~formDirty /\ formDirty' = formDirty
    BY <1>5 DEF EditForm, Acts
  <2>2. written'.bound => written'.msg = cells'
    BY <2>1, WroteTyped
  <2> QED  BY <2>1, <2>2 DEF Survives, BoundIsSeeded, Request
<1>6. ASSUME NEW text \in Texts, EditJson(text) PROVE Survives /\ BoundIsSeeded'
  <2>1. written' = Wrote(jsonText', rows) /\ bodyMode = "Json" /\ bodyMode' = bodyMode
    BY <1>6 DEF EditJson
  <2>2. written'.bound => written'.msg = jsonText'
    BY <2>1, WroteTyped
  <2> QED  BY <2>1, <2>2 DEF Survives, BoundIsSeeded, Request
<1>7. CASE ToJson
  BY <1>7 DEF ToJson, Survives, BoundIsSeeded, Request
<1>8. CASE ToForm
  <2>1. Survives
    <3>1. CASE written.bound /\ Request = written.msg
      <4>1. jsonText = written.msg
        BY <1>8, <3>1 DEF ToForm, Request
      <4>2. cells' = written.msg \/ schema = NoSchema \/ rows' # written.msg[1]
        BY <1>8, <3>1, <4>1, RebuiltHolds DEF ToForm
      <4> QED  BY <1>8, <3>1, <4>2 DEF ToForm, Survives, Request
    <3> QED  BY <3>1 DEF Survives
  <2> QED  BY <1>8, <2>1 DEF ToForm, Rebuilt, BoundIsSeeded
<1>9. ASSUME NEW b \in Bodies, FillExample(b) PROVE Survives /\ BoundIsSeeded'
  <2>1. written' = Wrote(<<TypeOf(schema, picked), b>>, TypeOf(schema, picked))
    BY <1>9 DEF FillExample
  <2>2. written'.bound => /\ written'.msg = <<TypeOf(schema, picked), b>>
                         /\ written'.msg \in Messages
    BY <2>1, WroteTyped
  <2>3. written'.bound => Request' = written'.msg
    BY <1>9, <2>2 DEF FillExample, Rebuilt, Seeded, Request
  <2>4. ~formDirty'
    BY <1>9 DEF FillExample, Rebuilt, Acts, formVars
  <2> QED  BY <2>3, <2>4 DEF Survives, BoundIsSeeded
<1>10. ASSUME NEW n \in Names, LoadSaved(n) PROVE Survives /\ BoundIsSeeded'
  <2>1. written' = Wrote(saved[n].text, TypeOf(schema, saved[n].call))
    BY <1>10 DEF LoadSaved
  <2>2. written'.bound => /\ written'.msg = saved[n].text /\ written'.msg \in Messages
                         /\ written'.msg[1] = TypeOf(schema, saved[n].call)
    BY <2>1, WroteTyped
  <2>3. written'.bound => Request' = written'.msg
    BY <1>10, <2>2 DEF LoadSaved, Rebuilt, Seeded, Request
  <2>4. ~formDirty'
    BY <1>10 DEF LoadSaved, Rebuilt
  <2> QED  BY <2>3, <2>4 DEF Survives, BoundIsSeeded
<1>11. CASE \/ Connect \/ Send \/ SaveCall \/ UNCHANGED grpcVars
            \/ \E t \in Hosts : TypeTarget(t)
            \/ \E c \in connects : ConnectDied(c)
            \/ \E s \in sends : Answered(s)
  <2>1. UNCHANGED <<written, bodyMode, cells, jsonText, formDirty, formSeed>>
    BY <1>11 DEF Connect, Send, SaveCall, TypeTarget, ConnectDied, Answered, formVars, grpcVars
  <2> QED  BY <2>1 DEF Survives, BoundIsSeeded, Request
<1> QED
  BY <1>1, <1>2, <1>3, <1>4, <1>5, <1>6, <1>7, <1>8, <1>9, <1>10, <1>11 DEF GrpcNext

(* BOUND WORK SURVIVES (grpc_panel.rs, connect, rebuild_form,              *)
(* set_body_mode): whichever connects answer, fail or die and in whatever  *)
(* order, a message is lost only to a form of another method, or to one    *)
(* that no schema is left for.                                             *)
THEOREM BoundWorkAlwaysSurvives == GrpcSpec => BoundWorkSurvives
<1>1. GrpcInit => BoundIsSeeded
  BY DEF GrpcInit, BoundIsSeeded
<1>2. GrpcTyped /\ BoundIsSeeded /\ [GrpcNext]_grpcVars
        => ((written.bound /\ Request = written.msg /\ written' = written)
              => \/ Request' = written.msg
                 \/ /\ bodyMode' = "Form"
                    /\ schema' = NoSchema \/ rows' # written.msg[1])
  BY BoundStays DEF Survives
<1> QED  BY <1>1, <1>2, BoundStays, GrpcTypeCorrect, PTL DEF GrpcSpec, BoundWorkSurvives

(***************************************************************************)
(* The tabs of the centre.                                                 *)
(***************************************************************************)
(* A centre whose recognised panels are those of the current space, where  *)
(* no key has two tabs in a space and nothing waits for the space shown.   *)
Sound(c) ==
  /\ c \in Centre
  /\ \A t \in c.mounted : t[1] \in Tracked => t \in c.panels[c.current]
  /\ \A s \in Spaces : \A t, u \in c.panels[s] : t[1] = u[1] => t = u
  /\ c.pending[c.current] = {}

(* The closed tab p, a space and a key, has nowhere to come back from.     *)
Gone(c, p) ==
  p[2] \in Tracked =>
    IF c.current = p[1] THEN p[2] \notin LiveKeys(c)
    ELSE p[2] \notin KeysOf(c.panels[p[1]]) /\ p[2] \notin c.pending[p[1]]

(* The spaces of `rest` are as a launch that found `snap` left them.       *)
Resting(c, rest, snap) ==
  \A s \in rest : s # c.current /\ c.panels[s] = {} /\ c.pending[s] = snap.tabs[s]

Unvisited == Known \ visited
Keeps(snap) == \A s \in Unvisited : snap.tabs[s] = atLaunch.tabs[s]

TabsTyped ==
  /\ TabsTypeOK
  /\ restoreDone \in BOOLEAN /\ atLaunch \in Snapshot \cup {Torn}
  /\ visited \subseteq Spaces /\ closed \subseteq Spaces \X Keys
  /\ activeSpace \in Known /\ centre.current \in Known

(* Before the restore is over nothing was written, shown or closed.        *)
Beginning ==
  /\ app = "down" => ~restoreDone /\ visited = {}
  /\ app \in {"booting", "restoring"} =>
        ~restoreDone /\ visited = {activeSpace} /\ centre = EmptyCentre(activeSpace)
  /\ app \in {"down", "booting", "restoring"} => closed = {}
  /\ ~restoreDone => writes = {} /\ file = atLaunch

UnvisitedRest ==
  restoreDone /\ atLaunch # Torn =>
    /\ Resting(centre, Unvisited, atLaunch)
    /\ file # Torn => Keeps(file)
    /\ \A w \in writes : Keeps(w.snap)

ClosedAreGone == \A p \in closed : Gone(centre, p)

TabsInv == TabsTyped /\ Beginning /\ Sound(centre) /\ UnvisitedRest /\ ClosedAreGone

(* A launch that dies restoring leaves the marker for the next.            *)
MarkerTells ==
  /\ failures \in {0, 1}
  /\ failures = 1 => marker
  /\ app = "restoring" => marker /\ failures = 0

(* The keys that are saved are keys of the centre, and there is always the *)
(* overview.                                                               *)
LEMMA TrackedAreKeys == Tracked \subseteq Keys /\ Overview \in Spaces
BY DEF Keys, Spaces

(* What is captured is what a file holds.                                  *)
LEMMA CaptureTyped == ASSUME NEW c \in Centre PROVE Capture(c) \in Snapshot
<1> DEFINE kept(s) == IF s = c.current THEN KeysOf(c.panels[s]) \cap LiveKeys(c)
                     ELSE IF c.panels[s] # {} THEN KeysOf(c.panels[s]) \cap Tracked
                     ELSE c.pending[s]
<1>1. c.current \in Spaces /\ \A s \in Spaces : c.pending[s] \subseteq Tracked
  BY DEF Centre
<1>2. \A s \in Spaces : kept(s) \in SUBSET Tracked
  BY <1>1 DEF LiveKeys
<1>3. Capture(c) = [tabs |-> [s \in Spaces |-> kept(s)], active |-> c.current]
  BY DEF Capture
<1> HIDE DEF kept
<1> QED  BY <1>1, <1>2, <1>3 DEF Snapshot

(* A tab that is built is one of its key.                                  *)
LEMMA BuiltTyped ==
  ASSUME NEW c, NEW k \in Keys, CanBuild(c, k)
  PROVE  Build(c, k) \in Tab /\ Build(c, k)[1] = k
<1> DEFINE n == CHOOSE m \in 1..MaxCopies : <<k, m>> \notin AllTabs(c)
<1>1. n \in 1..MaxCopies
  BY DEF CanBuild
<1>2. Build(c, k) = <<k, n>>
  BY DEF Build
<1> HIDE DEF n
<1> QED  BY <1>1, <1>2 DEF Tab

(* The centre of a launch is sound before anything is restored.            *)
LEMMA EmptySound == ASSUME NEW s \in Spaces PROVE Sound(EmptyCentre(s))
BY DEF Sound, EmptyCentre, Centre

(* A space that is realised has a tab for each key it had or had pending.  *)
LEMMA RealizedFacts ==
  ASSUME NEW c, Sound(c), NEW s \in Spaces, \A k \in c.pending[s] : CanBuild(c, k)
  PROVE  /\ Realized(c, s) \subseteq Tab
         /\ \A t \in Realized(c, s) : t[1] \in KeysOf(c.panels[s]) \cup c.pending[s]
         /\ \A t, u \in Realized(c, s) : t[1] = u[1] => t = u
<1>1. c.pending[s] \subseteq Keys /\ c.panels[s] \subseteq Tab
  BY TrackedAreKeys DEF Sound, Centre
<1>2. \A k \in c.pending[s] : Build(c, k) \in Tab /\ Build(c, k)[1] = k
  BY <1>1, BuiltTyped
<1>3. \A t \in c.panels[s] : t[1] \in KeysOf(c.panels[s])
  BY DEF KeysOf
<1>4. \A t \in Realized(c, s) :
        \/ t \in c.panels[s]
        \/ \E k \in c.pending[s] : k \notin KeysOf(c.panels[s]) /\ t = Build(c, k)
  BY DEF Realized
<1>5. \A t, u \in c.panels[s] : t[1] = u[1] => t = u
  BY DEF Sound
<1>6. Realized(c, s) \subseteq Tab
  BY <1>1, <1>2, <1>4
<1>7. \A t \in Realized(c, s) : t[1] \in KeysOf(c.panels[s]) \cup c.pending[s]
  BY <1>2, <1>3, <1>4
<1>8. ASSUME NEW t \in Realized(c, s), NEW u \in Realized(c, s), t[1] = u[1] PROVE t = u
  BY <1>2, <1>3, <1>4, <1>5, <1>8
<1> QED  BY <1>6, <1>7, <1>8

(* What a switch keeps of the outgoing space, and where it leads.          *)
LEMMA SwitchedParts ==
  ASSUME NEW c, Sound(c), NEW s \in Spaces, s # c.current
  PROVE  LET d == Switched(c, s)
             kept == {t \in c.panels[c.current] : t[1] \in LiveKeys(c)}
         IN /\ d.current = s
            /\ d.panels = [c.panels EXCEPT ![c.current] = kept, ![s] = Realized(c, s)]
            /\ d.pending = [c.pending EXCEPT ![s] = {}]
            /\ d.mounted = (c.mounted \ kept) \cup Realized(c, s)
            /\ d = [current |-> d.current, panels |-> d.panels, pending |-> d.pending,
                    mounted |-> d.mounted]
            /\ \A t \in d.mounted : t[1] \in Tracked => t \in Realized(c, s)
<1> DEFINE kept == {t \in c.panels[c.current] : t[1] \in LiveKeys(c)}
<1> DEFINE d == Switched(c, s)
<1>1. d = [current |-> s,
           panels |-> [c.panels EXCEPT ![c.current] = kept, ![s] = Realized(c, s)],
           pending |-> [c.pending EXCEPT ![s] = {}],
           mounted |-> (c.mounted \ kept) \cup Realized(c, s)]
  BY DEF Switched
<1>2. ASSUME NEW t \in c.mounted, t[1] \in Tracked PROVE t \in kept
  BY <1>2 DEF Sound, LiveKeys, KeysOf
<1> HIDE DEF kept, d
<1>3. /\ d.current = s
      /\ d.panels = [c.panels EXCEPT ![c.current] = kept, ![s] = Realized(c, s)]
      /\ d.pending = [c.pending EXCEPT ![s] = {}]
      /\ d.mounted = (c.mounted \ kept) \cup Realized(c, s)
      /\ d = [current |-> d.current, panels |-> d.panels, pending |-> d.pending,
              mounted |-> d.mounted]
  BY <1>1
<1>4. \A t \in d.mounted : t[1] \in Tracked => t \in Realized(c, s)
  BY <1>2, <1>3
<1> QED  BY <1>3, <1>4, Zenon DEF kept, d

(* Going to a space leaves the centre sound, and there.                    *)
LEMMA SwitchedSound ==
  ASSUME NEW c, Sound(c), NEW s \in Spaces, \A k \in c.pending[s] : CanBuild(c, k)
  PROVE  Sound(Switched(c, s)) /\ Switched(c, s).current = s
<1>1. CASE s = c.current
  BY <1>1 DEF Switched
<1>2. CASE s # c.current
  <2> DEFINE kept == {t \in c.panels[c.current] : t[1] \in LiveKeys(c)}
  <2> DEFINE d == Switched(c, s)
  <2> DEFINE incoming == Realized(c, s)
  <2>1. /\ d.current = s
        /\ d.panels = [c.panels EXCEPT ![c.current] = kept, ![s] = incoming]
        /\ d.pending = [c.pending EXCEPT ![s] = {}]
        /\ d.mounted = (c.mounted \ kept) \cup incoming
        /\ d = [current |-> d.current, panels |-> d.panels, pending |-> d.pending,
                mounted |-> d.mounted]
        /\ \A t \in d.mounted : t[1] \in Tracked => t \in incoming
    BY <1>2, SwitchedParts
  <2>2. incoming \subseteq Tab /\ \A t, u \in incoming : t[1] = u[1] => t = u
    BY RealizedFacts
  <2>3. kept \subseteq c.panels[c.current]
    OBVIOUS
  <2> HIDE DEF kept, d, incoming
  <2>4. /\ c.panels \in [Spaces -> SUBSET Tab] /\ c.pending \in [Spaces -> SUBSET Tracked]
        /\ c.mounted \subseteq Tab /\ c.current \in Spaces
    BY DEF Sound, Centre
  <2>5. /\ d.panels \in [Spaces -> SUBSET Tab] /\ d.pending \in [Spaces -> SUBSET Tracked]
        /\ d.mounted \subseteq Tab /\ d.panels[s] = incoming /\ d.pending[s] = {}
        /\ \A x \in Spaces : x # s => d.panels[x] \subseteq c.panels[x]
    BY <2>1, <2>2, <2>3, <2>4
  <2>6. d \in Centre
    BY <2>1, <2>5 DEF Centre
  <2>7. \A x \in Spaces : \A t, u \in d.panels[x] : t[1] = u[1] => t = u
    BY <2>2, <2>5 DEF Sound
  <2> QED  BY <2>1, <2>5, <2>6, <2>7 DEF Sound, d
<1> QED  BY <1>1, <1>2

(* Forgetting the spaces no project names leaves the centre sound, and     *)
(* where it was.                                                           *)
LEMMA PrunedSound ==
  ASSUME NEW c, Sound(c), NEW known, c.current \in known
  PROVE  Sound(Pruned(c, known)) /\ Pruned(c, known).current = c.current
<1> DEFINE d == Pruned(c, known)
<1> DEFINE panels == [s \in Spaces |-> IF s \in known THEN c.panels[s] ELSE {}]
<1> DEFINE pending == [s \in Spaces |-> IF s \in known THEN c.pending[s] ELSE {}]
<1>1. /\ c \in Centre /\ c.current \in Spaces
      /\ c.panels \in [Spaces -> SUBSET Tab] /\ c.pending \in [Spaces -> SUBSET Tracked]
  BY DEF Sound, Centre
<1>2. panels \in [Spaces -> SUBSET Tab] /\ pending \in [Spaces -> SUBSET Tracked]
  BY <1>1
<1>3. d = [c EXCEPT !.panels = panels, !.pending = pending]
  BY DEF Pruned
<1>4. /\ panels[c.current] = c.panels[c.current] /\ pending[c.current] = c.pending[c.current]
      /\ \A s \in Spaces : panels[s] \subseteq c.panels[s]
  BY <1>1
<1> HIDE DEF d, panels, pending
<1>5. d \in Centre
  BY <1>1, <1>2, <1>3 DEF Centre
<1>6. d.current = c.current /\ d.mounted = c.mounted /\ d.panels = panels /\ d.pending = pending
  BY <1>1, <1>3 DEF Centre
<1> QED  BY <1>4, <1>5, <1>6 DEF Sound, d

(* The tab that is shown for a key.                                        *)
LEMMA OpenedSound ==
  ASSUME NEW c, Sound(c), NEW k \in Keys, CanBuild(c, k)
  PROVE  /\ Sound(Opened(c, k)) /\ Opened(c, k).current = c.current
         /\ Opened(c, k).pending = c.pending
         /\ \E tab \in Tab :
               /\ tab[1] = k
               /\ Opened(c, k).mounted = c.mounted \cup {tab}
               /\ Opened(c, k).panels = [c.panels EXCEPT ![c.current] = @ \cup {tab}]
<1> DEFINE have == {t \in c.panels[c.current] : t[1] = k}
<1> DEFINE tab == IF have # {} THEN CHOOSE t \in have : TRUE ELSE Build(c, k)
<1>1. /\ c.panels \in [Spaces -> SUBSET Tab] /\ c.mounted \subseteq Tab /\ c.current \in Spaces
      /\ c \in Centre
  BY DEF Sound, Centre
<1>2. have # {} => (CHOOSE t \in have : TRUE) \in have
  OBVIOUS
<1>3. /\ tab \in Tab /\ tab[1] = k
      /\ tab \in c.panels[c.current] \/ \A t \in c.panels[c.current] : t[1] # k
  BY <1>1, <1>2, BuiltTyped
<1> DEFINE panels == [c.panels EXCEPT ![c.current] = @ \cup {tab}]
<1>4. Opened(c, k) = [c EXCEPT !.panels = panels, !.mounted = c.mounted \cup {tab}]
  BY DEF Opened
<1> HIDE DEF tab
<1>5. panels \in [Spaces -> SUBSET Tab] /\ c.mounted \cup {tab} \subseteq Tab
  BY <1>1, <1>3
<1> HIDE DEF panels
<1>6. Opened(c, k) \in Centre
  BY <1>1, <1>4, <1>5 DEF Centre
<1>7. /\ Opened(c, k).current = c.current /\ Opened(c, k).pending = c.pending
      /\ Opened(c, k).mounted = c.mounted \cup {tab} /\ Opened(c, k).panels = panels
  BY <1>1, <1>4 DEF Centre
<1>8. Sound(Opened(c, k))
  BY <1>1, <1>3, <1>6, <1>7 DEF Sound, panels
<1> QED  BY <1>3, <1>7, <1>8 DEF panels

(* Whatever the file holds, torn or not, what is restored from it is       *)
(* sound.                                                                  *)
LEMMA RestoredSound ==
  ASSUME NEW s \in Spaces, file \in Snapshot \cup {Torn}, NEW known
  PROVE  Sound(Restored(EmptyCentre(s), known))
<1>1. CASE file = Torn
  BY <1>1, EmptySound DEF Restored
<1>2. CASE file # Torn
  <2> DEFINE mine == {<<k, 1>> : k \in file.tabs[s]}
  <2>1. file \in Snapshot /\ 1 \in 1..MaxCopies
    BY <1>2, TabsAssumption
  <2>2. mine \subseteq Tab /\ \A t, u \in mine : t[1] = u[1] => t = u
    BY <2>1 DEF Snapshot, Tab, Keys
  <2>3. Restored(EmptyCentre(s), known)
          = [current |-> s, panels |-> [x \in Spaces |-> IF x = s THEN mine ELSE {}],
             pending |-> [x \in Spaces |-> IF x \in known \ {s} THEN file.tabs[x] ELSE {}],
             mounted |-> mine]
    BY <1>2 DEF Restored, EmptyCentre
  <2> HIDE DEF mine
  <2> QED  BY <2>1, <2>2, <2>3 DEF Sound, Centre, Snapshot
<1> QED  BY <1>1, <1>2

(* The tab's "x" takes one of the recognised panels, and with it the key.  *)
LEMMA ClosedSound ==
  ASSUME NEW c, Sound(c), NEW t \in c.mounted
  PROVE  LET d == [c EXCEPT !.mounted = @ \ {t}]
         IN /\ Sound(d)
            /\ \A p : Gone(c, p) => Gone(d, p)
            /\ Gone(d, <<c.current, t[1]>>)
            /\ d.current = c.current /\ d.panels = c.panels /\ d.pending = c.pending
<1> DEFINE d == [c EXCEPT !.mounted = @ \ {t}]
<1>1. c \in Centre /\ c.mounted \subseteq Tab
  BY DEF Sound, Centre
<1>2. /\ d.current = c.current /\ d.panels = c.panels /\ d.pending = c.pending
      /\ d.mounted = c.mounted \ {t}
  BY <1>1 DEF Centre
<1>3. d \in Centre
  BY <1>1 DEF Centre
<1> HIDE DEF d
<1>4. Sound(d)
  BY <1>2, <1>3 DEF Sound
<1>5. LiveKeys(d) \subseteq LiveKeys(c)
  BY <1>2 DEF LiveKeys, KeysOf
<1>6. \A p : Gone(c, p) => Gone(d, p)
  BY <1>2, <1>5 DEF Gone
<1>7. ASSUME t[1] \in Tracked, t[1] \in LiveKeys(d) PROVE FALSE
  <2>1. PICK u \in d.mounted : u[1] = t[1]
    BY <1>7 DEF LiveKeys, KeysOf
  <2>2. t \in c.panels[c.current] /\ u \in c.panels[c.current] /\ t # u
    BY <1>2, <1>7, <2>1 DEF Sound
  <2>3. c.current \in Spaces
    BY <1>1 DEF Centre
  <2> QED  BY <2>1, <2>2, <2>3 DEF Sound
<1>8. Gone(d, <<c.current, t[1]>>)
  BY <1>2, <1>7 DEF Gone
<1> QED  BY <1>2, <1>4, <1>6, <1>8 DEF d

(* A closed tab does not come back by a switch, ...                        *)
LEMMA SwitchedGone ==
  ASSUME NEW c, Sound(c), NEW s \in Spaces, \A k \in c.pending[s] : CanBuild(c, k),
         NEW p, p[1] \in Spaces, Gone(c, p)
  PROVE  Gone(Switched(c, s), p)
<1>1. CASE s = c.current
  BY <1>1 DEF Switched
<1>2. CASE s # c.current /\ p[2] \in Tracked
  <2> DEFINE kept == {t \in c.panels[c.current] : t[1] \in LiveKeys(c)}
  <2> DEFINE d == Switched(c, s)
  <2>1. /\ d.current = s
        /\ d.panels = [c.panels EXCEPT ![c.current] = kept, ![s] = Realized(c, s)]
        /\ d.pending = [c.pending EXCEPT ![s] = {}]
        /\ \A t \in d.mounted : t[1] \in Tracked => t \in Realized(c, s)
    BY <1>2, SwitchedParts
  <2>2. \A t \in Realized(c, s) : t[1] \in KeysOf(c.panels[s]) \cup c.pending[s]
    BY RealizedFacts
  <2>3. \A t \in kept : t[1] \in LiveKeys(c)
    OBVIOUS
  <2>4. /\ c.panels \in [Spaces -> SUBSET Tab] /\ c.pending \in [Spaces -> SUBSET Tracked]
        /\ c.current \in Spaces /\ c.pending[c.current] = {}
    BY DEF Sound, Centre
  <2> HIDE DEF kept, d
  <2>5. CASE p[1] = s
    <3>1. p[2] \notin KeysOf(c.panels[s]) \cup c.pending[s]
      BY <1>2, <2>5 DEF Gone
    <3>2. \A t \in d.mounted : t[1] # p[2]
      BY <1>2, <2>1, <2>2, <3>1
    <3> QED  BY <2>1, <2>5, <3>2 DEF Gone, LiveKeys, KeysOf, d
  <2>6. CASE p[1] = c.current
    <3>1. p[2] \notin LiveKeys(c)
      BY <1>2, <2>6 DEF Gone
    <3>2. d.panels[p[1]] = kept /\ d.pending[p[1]] = {}
      BY <1>2, <2>1, <2>4, <2>6
    <3>3. p[2] \notin KeysOf(kept)
      BY <2>3, <3>1 DEF KeysOf
    <3> QED  BY <1>2, <2>1, <2>6, <3>2, <3>3 DEF Gone, d
  <2>7. CASE p[1] # s /\ p[1] # c.current
    <3>1. d.panels[p[1]] = c.panels[p[1]] /\ d.pending[p[1]] = c.pending[p[1]]
      BY <2>1, <2>4, <2>7
    <3> QED  BY <2>1, <2>7, <3>1 DEF Gone, d
  <2> QED  BY <2>5, <2>6, <2>7
<1> QED  BY <1>1, <1>2 DEF Gone

(* ... nor when the sets of forgotten spaces go, ...                       *)
LEMMA PrunedParts ==
  ASSUME NEW c, Sound(c), NEW known
  PROVE  /\ Pruned(c, known).current = c.current /\ Pruned(c, known).mounted = c.mounted
         /\ \A s \in Spaces :
               /\ Pruned(c, known).panels[s] = IF s \in known THEN c.panels[s] ELSE {}
               /\ Pruned(c, known).pending[s] = IF s \in known THEN c.pending[s] ELSE {}
<1>1. c \in Centre
  BY DEF Sound
<1> QED  BY <1>1 DEF Centre, Pruned

(* A tab that was closed is not brought back by a pruning.                 *)
LEMMA PrunedGone ==
  ASSUME NEW c, Sound(c), NEW known, NEW p, p[1] \in Spaces, Gone(c, p)
  PROVE  Gone(Pruned(c, known), p)
<1> DEFINE d == Pruned(c, known)
<1>1. /\ d.current = c.current /\ d.mounted = c.mounted
      /\ d.panels[p[1]] \subseteq c.panels[p[1]] /\ d.pending[p[1]] \subseteq c.pending[p[1]]
  BY PrunedParts
<1> HIDE DEF d
<1> QED  BY <1>1 DEF Gone, LiveKeys, KeysOf, d

(* ... nor when another is opened.                                         *)
LEMMA OpenedGone ==
  ASSUME NEW c, Sound(c), NEW k \in Keys, CanBuild(c, k), NEW p, p[1] \in Spaces, Gone(c, p),
         p[1] # c.current \/ p[2] # k
  PROVE  Gone(Opened(c, k), p)
<1>1. PICK tab \in Tab :
         /\ tab[1] = k
         /\ Opened(c, k).mounted = c.mounted \cup {tab}
         /\ Opened(c, k).panels = [c.panels EXCEPT ![c.current] = @ \cup {tab}]
  BY OpenedSound
<1>2. Opened(c, k).current = c.current /\ Opened(c, k).pending = c.pending
  BY OpenedSound
<1>3. c.panels \in [Spaces -> SUBSET Tab]
  BY DEF Sound, Centre
<1>4. p[1] # c.current => Opened(c, k).panels[p[1]] = c.panels[p[1]]
  BY <1>1, <1>3
<1> QED  BY <1>1, <1>2, <1>4 DEF Gone, LiveKeys, KeysOf

(* A resting space rests through a switch to another, ...                  *)
LEMMA SwitchedRests ==
  ASSUME NEW c, Sound(c), NEW s \in Spaces, NEW rest \in SUBSET Spaces, NEW snap,
         Resting(c, rest, snap)
  PROVE  Resting(Switched(c, s), rest \ {s}, snap)
<1>1. CASE s = c.current
  BY <1>1 DEF Switched, Resting
<1>2. CASE s # c.current
  <2> DEFINE kept == {t \in c.panels[c.current] : t[1] \in LiveKeys(c)}
  <2> DEFINE d == Switched(c, s)
  <2>1. /\ d.current = s
        /\ d.panels = [c.panels EXCEPT ![c.current] = kept, ![s] = Realized(c, s)]
        /\ d.pending = [c.pending EXCEPT ![s] = {}]
    BY <1>2, SwitchedParts
  <2>2. c.panels \in [Spaces -> SUBSET Tab] /\ c.pending \in [Spaces -> SUBSET Tracked]
    BY DEF Sound, Centre
  <2> HIDE DEF kept, d
  <2> QED  BY <2>1, <2>2 DEF Resting, d
<1> QED  BY <1>1, <1>2

(* ... through the pruning of others, ...                                  *)
LEMMA PrunedRests ==
  ASSUME NEW c, Sound(c), NEW known, NEW rest \in SUBSET Spaces, rest \subseteq known, NEW snap,
         Resting(c, rest, snap)
  PROVE  Resting(Pruned(c, known), rest, snap)
<1>1. /\ Pruned(c, known).current = c.current
      /\ \A s \in rest : /\ Pruned(c, known).panels[s] = c.panels[s]
                         /\ Pruned(c, known).pending[s] = c.pending[s]
  BY PrunedParts
<1> QED  BY <1>1 DEF Resting

(* ... and while tabs are opened in the one shown,                         *)
LEMMA OpenedRests ==
  ASSUME NEW c, Sound(c), NEW k \in Keys, CanBuild(c, k), NEW rest \in SUBSET Spaces, NEW snap,
         Resting(c, rest, snap)
  PROVE  Resting(Opened(c, k), rest, snap)
<1>1. PICK tab \in Tab :
         /\ tab[1] = k
         /\ Opened(c, k).mounted = c.mounted \cup {tab}
         /\ Opened(c, k).panels = [c.panels EXCEPT ![c.current] = @ \cup {tab}]
  BY OpenedSound
<1>2. Opened(c, k).current = c.current /\ Opened(c, k).pending = c.pending
  BY OpenedSound
<1>3. c.panels \in [Spaces -> SUBSET Tab]
  BY DEF Sound, Centre
<1> QED  BY <1>1, <1>2, <1>3 DEF Resting

(* and what is captured of it is what the launch found.                    *)
LEMMA CapturedRests ==
  ASSUME NEW c, NEW rest \in SUBSET Spaces, NEW snap, Resting(c, rest, snap), NEW s \in rest
  PROVE  Capture(c).tabs[s] = snap.tabs[s]
BY DEF Resting, Capture

(* What Persist saves is one of the centres it was called for.             *)
LEMMA PersistFacts ==
  ASSUME NEW chain, Persist(chain), chain = <<>> \/ (Len(chain) \in DOMAIN chain)
  PROVE  /\ \/ lastSaved' = lastSaved
            \/ \E i \in DOMAIN chain : lastSaved' = Capture(chain[i])
         /\ ~restoreDone => writes' = writes
         /\ \A w \in writes' :
               \/ w \in writes
               \/ \E i \in DOMAIN chain : w = [snap |-> Capture(chain[i]), begun |-> FALSE]
<1> DEFINE before(i) == IF i = 1 THEN lastSaved ELSE Capture(chain[i - 1])
<1> DEFINE new == {i \in DOMAIN chain : Capture(chain[i]) # before(i)}
<1>1. CASE restoreDone /\ chain # <<>>
  <2>1. /\ lastSaved' = Capture(chain[Len(chain)])
        /\ writes' = writes \cup {[snap |-> Capture(chain[i]), begun |-> FALSE] : i \in new}
    BY <1>1 DEF Persist
  <2>2. new \subseteq DOMAIN chain
    OBVIOUS
  <2> HIDE DEF new
  <2> QED  BY <1>1, <2>1, <2>2
<1>2. CASE ~(restoreDone /\ chain # <<>>)
  BY <1>2 DEF Persist
<1> QED  BY <1>1, <1>2

(* What a step of the operator does to the tabs: the saves it spawns are of*)
(* centres where the unvisited rest.                                       *)
LEMMA MoveKeeps ==
  ASSUME TabsInv, app = "up", UNCHANGED <<app, file, restoreDone, atLaunch>>,
         Sound(centre'), projects' \subseteq Roots, activeSpace' \in Known',
         centre'.current \in Known', visited' \subseteq Spaces, closed' \subseteq Spaces \X Keys,
         \A p \in closed' : Gone(centre', p),
         NEW chain, Persist(chain), chain = <<>> \/ (Len(chain) \in DOMAIN chain),
         \A i \in DOMAIN chain : chain[i] \in Centre,
         Unvisited' \subseteq Unvisited,
         restoreDone /\ atLaunch # Torn =>
           /\ Resting(centre', Unvisited', atLaunch)
           /\ \A i \in DOMAIN chain : Resting(chain[i], Unvisited', atLaunch)
  PROVE  TabsInv'
<1>1. /\ lastSaved' \in Snapshot \cup {NoSave}
      /\ ~restoreDone => writes' = writes
      /\ \A w \in writes' :
            \/ w \in writes
            \/ \E i \in DOMAIN chain : w = [snap |-> Capture(chain[i]), begun |-> FALSE]
  <2>1. lastSaved \in Snapshot \cup {NoSave}
    BY DEF TabsInv, TabsTyped, TabsTypeOK
  <2> QED  BY <2>1, PersistFacts, CaptureTyped
<1>2. activeSpace' \in Spaces /\ Unvisited' \subseteq Spaces
  BY DEF Known, Spaces, Unvisited
<1>3. TabsTyped'
  <2>1. writes' \subseteq [snap : Snapshot, begun : BOOLEAN]
    <3>1. writes \subseteq [snap : Snapshot, begun : BOOLEAN]
      BY DEF TabsInv, TabsTyped, TabsTypeOK
    <3>2. \A i \in DOMAIN chain : Capture(chain[i]) \in Snapshot
      BY CaptureTyped
    <3>3. \A i \in DOMAIN chain :
            [snap |-> Capture(chain[i]), begun |-> FALSE] \in [snap : Snapshot, begun : BOOLEAN]
      BY <3>2
    <3> QED  BY <1>1, <3>1, <3>3
  <2> QED  BY <1>1, <1>2, <2>1 DEF TabsInv, TabsTyped, TabsTypeOK, Sound
<1>4. Beginning'
  BY <1>1 DEF TabsInv, Beginning
<1>5. UnvisitedRest'
  <2> SUFFICES ASSUME restoreDone, atLaunch # Torn
               PROVE  /\ Resting(centre', Unvisited', atLaunch)
                      /\ file # Torn => \A s \in Unvisited' : file.tabs[s] = atLaunch.tabs[s]
                      /\ \A w \in writes' : \A s \in Unvisited' : w.snap.tabs[s] = atLaunch.tabs[s]
    BY DEF UnvisitedRest, Keeps
  <2>1. /\ file # Torn => \A s \in Unvisited : file.tabs[s] = atLaunch.tabs[s]
        /\ \A w \in writes : \A s \in Unvisited : w.snap.tabs[s] = atLaunch.tabs[s]
    BY DEF TabsInv, UnvisitedRest, Keeps
  <2>2. \A i \in DOMAIN chain : \A s \in Unvisited' :
          Capture(chain[i]).tabs[s] = atLaunch.tabs[s]
    BY <1>2, CapturedRests
  <2>3. ASSUME NEW w \in writes', NEW s \in Unvisited' PROVE w.snap.tabs[s] = atLaunch.tabs[s]
    <3>1. CASE w \in writes
      BY <2>1, <3>1
    <3>2. ASSUME NEW i \in DOMAIN chain, w = [snap |-> Capture(chain[i]), begun |-> FALSE]
          PROVE  w.snap.tabs[s] = atLaunch.tabs[s]
      BY <2>2, <3>2
    <3> QED  BY <1>1, <3>1, <3>2
  <2> QED  BY <2>1, <2>3
<1>6. Sound(centre)' /\ ClosedAreGone'
  BY DEF ClosedAreGone
<1> QED  BY <1>3, <1>4, <1>5, <1>6 DEF TabsInv

(* What following the active space does, from a centre that holds.         *)
LEMMA FollowKeeps ==
  ASSUME TabsInv, NEW known \in SUBSET Spaces, NEW s \in known, Follow(known, s)
  PROVE  /\ Sound(centre') /\ visited' = visited \cup {s} /\ centre'.current = s
         /\ \A p \in closed : Gone(centre', p)
         /\ \E chain :
              /\ Persist(chain) /\ (chain = <<>> \/ Len(chain) \in DOMAIN chain)
              /\ \A i \in DOMAIN chain : chain[i] \in Centre
              /\ restoreDone /\ atLaunch # Torn =>
                   \A rest \in SUBSET (Unvisited \ {s}) :
                     /\ rest \subseteq known => Resting(centre', rest, atLaunch)
                     /\ \A i \in DOMAIN chain : Resting(chain[i], rest, atLaunch)
<1> DEFINE there == Switched(centre, s)
<1> DEFINE chain == IF s = centre.current THEN <<>> ELSE <<there>>
<1>1. /\ \A k \in centre.pending[s] : CanBuild(centre, k)
      /\ centre' = Pruned(there, known) /\ Persist(chain) /\ visited' = visited \cup {s}
  BY DEF Follow
<1>2. Sound(centre) /\ s \in Spaces
  BY DEF TabsInv
<1>3. Sound(there) /\ there.current = s
  BY <1>1, <1>2, SwitchedSound
<1>4. Sound(centre') /\ centre'.current = s
  BY <1>1, <1>3, PrunedSound
<1>5. ASSUME NEW p \in closed PROVE Gone(centre', p)
  <2>1. p[1] \in Spaces /\ Gone(centre, p)
    BY DEF TabsInv, TabsTyped, ClosedAreGone
  <2>2. Gone(there, p)
    BY <1>1, <1>2, <2>1, SwitchedGone
  <2> QED  BY <1>1, <1>3, <2>1, <2>2, PrunedGone
<1>6. /\ chain = <<>> \/ (Len(chain) \in DOMAIN chain)
      /\ \A i \in DOMAIN chain : chain[i] = there
  OBVIOUS
<1>7. ASSUME restoreDone, atLaunch # Torn, NEW rest \in SUBSET (Unvisited \ {s})
      PROVE  /\ rest \subseteq known => Resting(centre', rest, atLaunch)
             /\ Resting(there, rest, atLaunch)
  <2>1. Unvisited \in SUBSET Spaces /\ Resting(centre, Unvisited, atLaunch)
    BY <1>7 DEF TabsInv, UnvisitedRest, Unvisited, Known, Spaces, TabsTyped, TabsTypeOK
  <2> HIDE DEF there
  <2>2. Resting(there, Unvisited \ {s}, atLaunch)
    BY <1>2, <2>1, SwitchedRests DEF there
  <2>3. Resting(there, rest, atLaunch) /\ rest \in SUBSET Spaces
    BY <2>1, <2>2 DEF Resting
  <2> QED  BY <1>1, <1>3, <2>3, PrunedRests
<1> HIDE DEF chain, there
<1>8. there \in Centre
  BY <1>3 DEF Sound
<1> QED  BY <1>1, <1>4, <1>5, <1>6, <1>7, <1>8

(* The end of the restore, with the move to the space that was active.     *)
LEMMA FinishKeeps == TabsInv /\ FinishRestore => TabsInv'
<1> SUFFICES ASSUME TabsInv, FinishRestore PROVE TabsInv'
  OBVIOUS
<1>1. /\ centre = EmptyCentre(activeSpace) /\ visited = {activeSpace} /\ closed = {}
      /\ ~restoreDone /\ writes = {} /\ file = atLaunch /\ activeSpace \in Spaces
      /\ file \in Snapshot \cup {Torn}
  BY DEF TabsInv, TabsTyped, TabsTypeOK, Beginning, FinishRestore
<1>2. /\ centre' = Restored(EmptyCentre(activeSpace), Known) /\ lastSaved' = Capture(centre')
      /\ app' = "up" /\ restoreDone' = TRUE
      /\ UNCHANGED <<file, projects, activeSpace, writes, atLaunch, visited, closed>>
  BY <1>1 DEF FinishRestore
<1>3. Sound(centre')
  BY <1>1, <1>2, RestoredSound
<1>4. TabsTyped'
  <2>1. lastSaved' \in Snapshot
    BY <1>2, <1>3, CaptureTyped DEF Sound
  <2>2. centre'.current = activeSpace
    BY <1>1, <1>2, EmptySound DEF Restored, EmptyCentre, Sound, Centre
  <2> QED  BY <1>2, <1>3, <2>1, <2>2 DEF TabsInv, TabsTyped, TabsTypeOK, Sound, Known
<1>5. Beginning'
  BY <1>2 DEF Beginning
<1>6. UnvisitedRest'
  <2> SUFFICES ASSUME file # Torn PROVE Resting(centre', Unvisited, file)
    BY <1>1, <1>2 DEF UnvisitedRest, Unvisited, Known, Keeps
  <2>1. ASSUME NEW s \in Unvisited
        PROVE  s # centre'.current /\ centre'.panels[s] = {} /\ centre'.pending[s] = file.tabs[s]
    <3>1. s \in Known /\ s # activeSpace /\ s \in Spaces
      BY <1>1 DEF Unvisited, Known, Spaces, TabsInv, TabsTyped, TabsTypeOK
    <3>2. /\ EmptyCentre(activeSpace).current = activeSpace
          /\ EmptyCentre(activeSpace).panels = [x \in Spaces |-> {}]
          /\ EmptyCentre(activeSpace) \in Centre
      BY <1>1, EmptySound DEF EmptyCentre, Sound
    <3>3. /\ centre'.current = activeSpace
          /\ centre'.panels = [EmptyCentre(activeSpace).panels EXCEPT
                                 ![activeSpace] = {<<k, 1>> : k \in file.tabs[activeSpace]}]
          /\ centre'.pending = [x \in Spaces |-> IF x \in Known \ {activeSpace} THEN file.tabs[x]
                                                ELSE {}]
      BY <1>2, <3>2 DEF Restored, Centre
    <3> QED  BY <3>1, <3>2, <3>3
  <2> QED  BY <2>1 DEF Resting
<1>7. ClosedAreGone'
  BY <1>1, <1>2 DEF ClosedAreGone
<1> QED  BY <1>3, <1>4, <1>5, <1>6, <1>7 DEF TabsInv

(* The three moves between spaces.                                         *)
LEMMA SpacesKeep ==
  ASSUME TabsInv, NEW s \in Spaces,
         SelectSpace(s) \/ (s \in Roots /\ (OpenRoot(s) \/ RemoveSpace(s)))
  PROVE  TabsInv'
<1>1. PICK there \in Spaces :
        /\ app = "up" /\ UNCHANGED <<app, file, restoreDone, atLaunch>>
        /\ projects' \subseteq Roots /\ activeSpace' = there /\ there \in Known'
        /\ closed' \subseteq closed
        /\ Follow(Known', there)
        /\ Known' \subseteq Known \cup {there} /\ Known' \in SUBSET Spaces
  <2>0. projects \subseteq Roots /\ activeSpace \in Known /\ Overview \notin Roots
    BY TabsAssumption DEF TabsInv, TabsTyped, TabsTypeOK
  <2>1. CASE SelectSpace(s)
    BY <2>0, <2>1 DEF SelectSpace, Known, Spaces
  <2>2. CASE s \in Roots /\ OpenRoot(s)
    <3>1. Known' = Known \cup {s} /\ Follow(Known', s)
      BY <2>2 DEF OpenRoot, Known
    <3> QED  BY <2>0, <2>2, <3>1 DEF OpenRoot, Known, Spaces
  <2>3. CASE s \in Roots /\ RemoveSpace(s)
    <3>1. Known' = Known \ {s} /\ Follow(Known', activeSpace') /\ activeSpace' \in Known'
      BY <2>0, <2>3 DEF RemoveSpace, Known
    <3> QED  BY <2>0, <2>3, <3>1 DEF RemoveSpace, Known, Spaces
  <2> QED  BY <2>1, <2>2, <2>3
<1>2. /\ Sound(centre') /\ visited' = visited \cup {there} /\ centre'.current = there
      /\ \A p \in closed : Gone(centre', p)
      /\ \E chain :
           /\ Persist(chain) /\ (chain = <<>> \/ Len(chain) \in DOMAIN chain)
           /\ \A i \in DOMAIN chain : chain[i] \in Centre
           /\ restoreDone /\ atLaunch # Torn =>
                \A rest \in SUBSET (Unvisited \ {there}) :
                  /\ rest \subseteq Known' => Resting(centre', rest, atLaunch)
                  /\ \A i \in DOMAIN chain : Resting(chain[i], rest, atLaunch)
  BY <1>1, FollowKeeps
<1>3. PICK chain :
        /\ Persist(chain) /\ (chain = <<>> \/ Len(chain) \in DOMAIN chain)
        /\ \A i \in DOMAIN chain : chain[i] \in Centre
        /\ restoreDone /\ atLaunch # Torn =>
             \A rest \in SUBSET (Unvisited \ {there}) :
               /\ rest \subseteq Known' => Resting(centre', rest, atLaunch)
               /\ \A i \in DOMAIN chain : Resting(chain[i], rest, atLaunch)
  BY <1>2
<1>4. Unvisited' \in SUBSET (Unvisited \ {there}) /\ Unvisited' \subseteq Known'
  BY <1>1, <1>2 DEF Unvisited
<1>5. /\ visited' \subseteq Spaces /\ closed' \subseteq Spaces \X Keys
      /\ activeSpace' \in Known' /\ centre'.current \in Known'
  BY <1>1, <1>2 DEF TabsInv, TabsTyped
<1>6. \A p \in closed' : Gone(centre', p)
  BY <1>1, <1>2
<1>7. restoreDone /\ atLaunch # Torn =>
        /\ Resting(centre', Unvisited', atLaunch)
        /\ \A i \in DOMAIN chain : Resting(chain[i], Unvisited', atLaunch)
  BY <1>3, <1>4
<1> QED  BY <1>1, <1>2, <1>3, <1>4, <1>5, <1>6, <1>7, MoveKeeps

(* Opening a tab, in the space shown or in that of another project.        *)
LEMMA OpenKeeps ==
  ASSUME TabsInv, NEW k \in Keys, NEW root, Open(k, root)
  PROVE  TabsInv'
<1> DEFINE s == IF root \in projects THEN root ELSE centre.current
<1> DEFINE there == Switched(centre, s)
<1> DEFINE done == Opened(there, k)
<1> DEFINE moved == IF s = centre.current THEN <<>> ELSE <<there>>
<1> DEFINE chain == IF k \in KeysOf(there.panels[s]) THEN moved ELSE Append(moved, done)
<1>1. /\ app = "up" /\ UNCHANGED <<app, file, restoreDone, atLaunch, projects>>
      /\ \A q \in centre.pending[s] : CanBuild(centre, q)
      /\ CanBuild(there, k) /\ centre' = done /\ activeSpace' = s
      /\ Persist(chain)
      /\ visited' = visited \cup {s} /\ closed' = closed \ {<<s, k>>}
  BY DEF Open
<1>2. /\ Sound(centre) /\ centre.current \in Spaces /\ projects \subseteq Roots
      /\ closed \subseteq Spaces \X Keys /\ visited \subseteq Spaces
      /\ \A p \in closed : Gone(centre, p)
  BY DEF TabsInv, TabsTyped, TabsTypeOK, ClosedAreGone, Sound, Centre
<1>3. s \in Spaces
  BY <1>2 DEF Spaces
<1>4. Sound(there) /\ there.current = s
  BY <1>1, <1>2, <1>3, SwitchedSound
<1>5. Sound(done) /\ done.current = s
  BY <1>1, <1>4, OpenedSound
<1>6. ASSUME NEW p \in closed' PROVE Gone(centre', p)
  <2>1. /\ p \in closed /\ p[1] \in Spaces /\ p = <<p[1], p[2]>> /\ p # <<s, k>>
    BY <1>1, <1>2
  <2>2. Gone(there, p)
    BY <1>1, <1>2, <1>3, <2>1, SwitchedGone
  <2>3. p[1] # there.current \/ p[2] # k
    BY <1>4, <2>1
  <2> QED  BY <1>1, <1>4, <2>1, <2>2, <2>3, OpenedGone
<1>7. /\ chain = <<>> \/ (Len(chain) \in DOMAIN chain)
      /\ \A i \in DOMAIN chain : chain[i] \in {there, done}
  OBVIOUS
<1>8. ASSUME restoreDone, atLaunch # Torn
      PROVE  Resting(there, Unvisited', atLaunch) /\ Resting(done, Unvisited', atLaunch)
  <2>1. Unvisited \in SUBSET Spaces /\ Resting(centre, Unvisited, atLaunch)
    BY <1>2, <1>8 DEF TabsInv, UnvisitedRest, Unvisited, Known, Spaces
  <2>2. Unvisited' = Unvisited \ {s}
    BY <1>1 DEF Unvisited, Known
  <2> HIDE DEF there, done
  <2>3. Resting(there, Unvisited \ {s}, atLaunch)
    BY <1>2, <1>3, <2>1, SwitchedRests DEF there
  <2>4. Resting(done, Unvisited \ {s}, atLaunch)
    BY <1>1, <1>4, <2>1, <2>3, OpenedRests DEF done
  <2> QED  BY <2>2, <2>3, <2>4
<1> HIDE DEF s, there, done, moved, chain
<1>9. activeSpace' \in Known' /\ centre'.current \in Known'
  <2>1. s \in projects \/ s = centre.current
    BY DEF s
  <2>2. centre.current \in Known
    BY DEF TabsInv, TabsTyped
  <2> QED  BY <1>1, <1>5, <2>1, <2>2 DEF Known
<1>10. /\ Unvisited' \subseteq Unvisited /\ visited' \subseteq Spaces
       /\ closed' \subseteq Spaces \X Keys
  BY <1>1, <1>2, <1>3 DEF Unvisited, Known
<1>11. there \in Centre /\ done \in Centre
  BY <1>4, <1>5 DEF Sound
<1>12. restoreDone /\ atLaunch # Torn =>
         /\ Resting(centre', Unvisited', atLaunch)
         /\ \A i \in DOMAIN chain : Resting(chain[i], Unvisited', atLaunch)
  BY <1>1, <1>7, <1>8
<1>13. \A i \in DOMAIN chain : chain[i] \in Centre
  BY <1>7, <1>11
<1>14. projects' \subseteq Roots /\ Sound(centre')
  BY <1>1, <1>2, <1>5
<1> QED  BY <1>1, <1>6, <1>7, <1>9, <1>10, <1>12, <1>13, <1>14, MoveKeeps

(* The window before its first launch.                                     *)
LEMMA TabsInitHolds == TabsInit => TabsInv /\ MarkerTells
<1> SUFFICES ASSUME TabsInit PROVE TabsInv /\ MarkerTells
  OBVIOUS
<1>1. Overview \in Spaces /\ Known = Spaces
  BY DEF TabsInit, Known, Spaces
<1>2. file \in Snapshot
  BY DEF TabsInit, Snapshot
<1>3. Sound(centre) /\ centre.current = Overview
  BY <1>1, EmptySound DEF TabsInit, EmptyCentre
<1>4. TabsTyped
  <2>1. TabsTypeOK
    BY <1>1, <1>2, <1>3 DEF TabsInit, TabsTypeOK, Sound
  <2>2. restoreDone \in BOOLEAN
    BY Zenon DEF TabsInit
  <2>3. /\ atLaunch \in Snapshot \cup {Torn} /\ visited \subseteq Spaces
        /\ closed \subseteq Spaces \X Keys /\ activeSpace \in Known /\ centre.current \in Known
    BY <1>1, <1>2, <1>3 DEF TabsInit
  <2> QED  BY <2>1, <2>2, <2>3 DEF TabsTyped
<1>5. Beginning /\ UnvisitedRest /\ ClosedAreGone /\ MarkerTells
  BY DEF TabsInit, Beginning, UnvisitedRest, ClosedAreGone, MarkerTells
<1> QED  BY <1>3, <1>4, <1>5 DEF TabsInv

(* Every step of the window, its death and its next launch among them.     *)
LEMMA TabsStepKeeps == TabsInv /\ [TabsNext]_tabsVars => TabsInv'
<1> SUFFICES ASSUME TabsInv, [TabsNext]_tabsVars PROVE TabsInv'
  OBVIOUS
<1>0. Overview \in Spaces /\ Overview \in Known /\ activeSpace \in Spaces /\ Sound(centre)
  BY DEF Spaces, Known, TabsInv, TabsTyped, TabsTypeOK
<1>1. CASE UNCHANGED tabsVars
  BY <1>1 DEF tabsVars, TabsInv, TabsTyped, TabsTypeOK, Beginning, UnvisitedRest, ClosedAreGone,
              Sound, Gone, LiveKeys, Resting, Keeps, Unvisited, Known
<1>2. CASE Launch
  <2>1. Sound(EmptyCentre(activeSpace)) /\ EmptyCentre(activeSpace).current = activeSpace
    BY <1>0, EmptySound DEF EmptyCentre
  <2>2. TabsTyped'
    BY <1>0, <1>2, <2>1 DEF Launch, TabsInv, TabsTyped, TabsTypeOK, Known, Sound
  <2>3. Beginning'
    BY <1>2 DEF Launch, TabsInv, Beginning
  <2>4. Sound(centre)'
    BY <1>2, <2>1 DEF Launch
  <2>5. UnvisitedRest' /\ ClosedAreGone'
    BY <1>2 DEF Launch, TabsInv, Beginning, UnvisitedRest, ClosedAreGone
  <2> QED  BY <2>2, <2>3, <2>4, <2>5 DEF TabsInv
<1>3. CASE SafeMode \/ BeginRestore \/ Quit
  <2>1. /\ UNCHANGED <<file, projects, activeSpace, centre, restoreDone, lastSaved, atLaunch,
                       visited, closed>>
        /\ app' \in {"up", "restoring", "quitting"} /\ app # "down"
        /\ app' = "restoring" => app = "booting"
        /\ \/ writes' = writes
           \/ restoreDone /\ writes' = writes \cup {[snap |-> Capture(centre), begun |-> FALSE]}
    BY <1>3 DEF SafeMode, BeginRestore, Quit
  <2>2. TabsTyped'
    <3>1. Capture(centre) \in Snapshot
      BY <1>0, CaptureTyped DEF Sound
    <3>2. [snap |-> Capture(centre), begun |-> FALSE] \in [snap : Snapshot, begun : BOOLEAN]
      BY <3>1
    <3> QED  BY <2>1, <3>2 DEF TabsInv, TabsTyped, TabsTypeOK, Known
  <2>3. Beginning'
    BY <2>1 DEF TabsInv, Beginning
  <2>4. Sound(centre)' /\ ClosedAreGone'
    BY <1>0, <2>1 DEF TabsInv, ClosedAreGone
  <2>5. UnvisitedRest'
    <3>1. Unvisited' = Unvisited /\ Unvisited \subseteq Spaces
      BY <2>1 DEF Unvisited, Known, Spaces, TabsInv, TabsTyped, TabsTypeOK
    <3>2. restoreDone /\ atLaunch # Torn =>
            \A s \in Unvisited : Capture(centre).tabs[s] = atLaunch.tabs[s]
      BY <3>1, CapturedRests DEF TabsInv, UnvisitedRest
    <3> QED  BY <2>1, <3>1, <3>2 DEF TabsInv, UnvisitedRest, Keeps
  <2> QED  BY <2>2, <2>3, <2>4, <2>5 DEF TabsInv
<1>4. CASE FinishRestore
  BY <1>4, FinishKeeps
<1>5. CASE Tick
  <2> DEFINE chain == <<centre>>
  <2>1. /\ app = "up" /\ Persist(chain)
        /\ UNCHANGED <<app, file, projects, activeSpace, centre, restoreDone, atLaunch,
                       visited, closed>>
    BY <1>5 DEF Tick
  <2>2. chain = <<>> \/ (Len(chain) \in DOMAIN chain)
    OBVIOUS
  <2>3. \A i \in DOMAIN chain : chain[i] = centre
    OBVIOUS
  <2> HIDE DEF chain
  <2>4. Unvisited' = Unvisited /\ Known' = Known
    BY <2>1 DEF Unvisited, Known
  <2>5. restoreDone /\ atLaunch # Torn =>
          /\ Resting(centre', Unvisited', atLaunch)
          /\ \A i \in DOMAIN chain : Resting(chain[i], Unvisited', atLaunch)
    BY <2>1, <2>3, <2>4 DEF TabsInv, UnvisitedRest
  <2>6. /\ Sound(centre') /\ projects' \subseteq Roots /\ activeSpace' \in Known'
        /\ centre'.current \in Known' /\ visited' \subseteq Spaces
        /\ closed' \subseteq Spaces \X Keys
        /\ \A p \in closed' : Gone(centre', p)
        /\ \A i \in DOMAIN chain : chain[i] \in Centre
    BY <1>0, <2>1, <2>3, <2>4 DEF TabsInv, TabsTyped, TabsTypeOK, ClosedAreGone, Sound
  <2> QED  BY <2>1, <2>2, <2>4, <2>5, <2>6, MoveKeeps
<1>6. CASE Die
  <2>1. Sound(EmptyCentre(Overview)) /\ EmptyCentre(Overview).current = Overview
    BY <1>0, EmptySound DEF EmptyCentre
  <2>2. TabsTyped'
    BY <1>0, <1>6, <2>1 DEF Die, TabsInv, TabsTyped, TabsTypeOK, Known, Sound
  <2>3. Beginning' /\ UnvisitedRest' /\ ClosedAreGone'
    BY <1>6 DEF Die, Beginning, UnvisitedRest, ClosedAreGone
  <2>4. Sound(centre)'
    BY <1>6, <2>1 DEF Die
  <2> QED  BY <2>2, <2>3, <2>4 DEF TabsInv
<1>7. ASSUME NEW s \in Spaces, SelectSpace(s) PROVE TabsInv'
  BY <1>7, SpacesKeep
<1>8. ASSUME NEW r \in Roots, OpenRoot(r) \/ RemoveSpace(r) PROVE TabsInv'
  BY <1>8, SpacesKeep DEF Spaces
<1>9. ASSUME NEW k \in Tracked, NEW root \in Spaces, Open(k, root) PROVE TabsInv'
  BY <1>9, TrackedAreKeys, OpenKeeps
<1>10. ASSUME NEW k \in Transient, Open(k, centre.current) PROVE TabsInv'
  BY <1>10, OpenKeeps DEF Keys
<1>11. ASSUME NEW t \in centre.mounted, CloseTab(t) PROVE TabsInv'
  <2> DEFINE chain == <<>>
  <2> DEFINE d == [centre EXCEPT !.mounted = @ \ {t}]
  <2>1. /\ app = "up" /\ centre' = d
        /\ closed' = closed \cup {<<centre.current, t[1]>>}
        /\ UNCHANGED <<app, file, projects, activeSpace, restoreDone, lastSaved, writes, atLaunch,
                       visited>>
    BY <1>11 DEF CloseTab
  <2>2. /\ Sound(d) /\ d.current = centre.current /\ d.panels = centre.panels
        /\ d.pending = centre.pending
        /\ \A p : Gone(centre, p) => Gone(d, p)
        /\ Gone(d, <<centre.current, t[1]>>)
    BY <1>0, ClosedSound
  <2>3. <<centre.current, t[1]>> \in Spaces \X Keys
    <3>1. centre.current \in Spaces /\ t \in Tab
      BY <1>0 DEF Sound, Centre
    <3> QED  BY <3>1 DEF Tab
  <2>4. Unvisited' = Unvisited /\ Known' = Known
    BY <2>1 DEF Unvisited, Known
  <2> HIDE DEF d
  <2>5. TabsTyped'
    BY <2>1, <2>2, <2>3, <2>4 DEF TabsInv, TabsTyped, TabsTypeOK, Sound
  <2>6. Beginning'
    BY <2>1 DEF TabsInv, Beginning
  <2>7. UnvisitedRest'
    BY <2>1, <2>2, <2>4 DEF TabsInv, UnvisitedRest, Resting, Keeps
  <2>8. ClosedAreGone'
    BY <2>1, <2>2 DEF TabsInv, ClosedAreGone
  <2> QED  BY <2>1, <2>2, <2>5, <2>6, <2>7, <2>8 DEF TabsInv
<1>12. ASSUME NEW w \in writes, BeginWrite(w) \/ EndWrite(w) PROVE TabsInv'
  <2>1. /\ w \in [snap : Snapshot, begun : BOOLEAN] /\ restoreDone
        /\ writes \subseteq [snap : Snapshot, begun : BOOLEAN]
    BY DEF TabsInv, TabsTyped, TabsTypeOK, Beginning
  <2>2. /\ UNCHANGED <<app, projects, activeSpace, centre, restoreDone, lastSaved, atLaunch,
                       visited, closed>>
        /\ writes' \subseteq writes \cup {[w EXCEPT !.begun = TRUE]}
        /\ file' \in {Torn, w.snap}
    BY <1>12 DEF BeginWrite, EndWrite
  <2>3. /\ [w EXCEPT !.begun = TRUE] \in [snap : Snapshot, begun : BOOLEAN]
        /\ [w EXCEPT !.begun = TRUE].snap = w.snap
    BY <2>1
  <2>4. Unvisited' = Unvisited /\ Known' = Known
    BY <2>2 DEF Unvisited, Known
  <2>5. TabsTyped'
    BY <2>1, <2>2, <2>3, <2>4 DEF TabsInv, TabsTyped, TabsTypeOK
  <2>6. Beginning' /\ ClosedAreGone' /\ Sound(centre')
    BY <1>0, <2>1, <2>2 DEF TabsInv, Beginning, ClosedAreGone
  <2>7. UnvisitedRest'
    BY <2>1, <2>2, <2>3, <2>4 DEF TabsInv, UnvisitedRest, Keeps
  <2> QED  BY <2>5, <2>6, <2>7 DEF TabsInv
<1> QED
  BY <1>1, <1>2, <1>3, <1>4, <1>5, <1>6, <1>7, <1>8, <1>9, <1>10, <1>11, <1>12 DEF TabsNext

(* The inductive invariant of the tabs: nothing is written before the      *)
(* restore is over, the unvisited spaces rest in memory, in the file and   *)
(* in every save under way, and what was closed has nowhere to come from.  *)
THEOREM TabsAreKept == TabsSpec => []TabsInv
BY TabsInitHolds, TabsStepKeeps, PTL DEF TabsSpec

(* TYPE, for any spaces and keys.                                          *)
THEOREM TabsTypeCorrect == TabsSpec => []TabsTypeOK
<1>1. TabsInv => TabsTypeOK
  BY DEF TabsInv, TabsTyped
<1> QED  BY <1>1, TabsAreKept, PTL

(* THE UNVISITED ARE KEPT by every save and in any order of the writes     *)
(* (workspace.rs, capture_open_tabs).                                      *)
THEOREM UnvisitedAreAlwaysKept == TabsSpec => []UnvisitedAreKept
<1>1. TabsInv => UnvisitedAreKept
  BY DEF TabsInv, Beginning, UnvisitedRest, UnvisitedAreKept, Keeps, Unvisited, Known
<1> QED  BY <1>1, TabsAreKept, PTL

(* MOUNTED ONCE AND HERE (workspace.rs, switch_space).                     *)
THEOREM AlwaysMountedOnceAndHere == TabsSpec => []MountedOnceAndHere
<1>1. TabsInv => MountedOnceAndHere
  <2> SUFFICES ASSUME Sound(centre) PROVE MountedOnceAndHere
    BY DEF TabsInv
  <2>1. centre.current \in Spaces
    BY DEF Sound, Centre
  <2> QED  BY <2>1 DEF Sound, MountedOnceAndHere
<1> QED  BY <1>1, TabsAreKept, PTL

(* CLOSED STAYS CLOSED through switches, prunings and saves (workspace.rs, *)
(* switch_space, capture_open_tabs).                                       *)
THEOREM ClosedAlwaysStayClosed == TabsSpec => []ClosedStaysClosed
<1>1. TabsInv => ClosedStaysClosed
  <2> SUFFICES ASSUME TabsInv, NEW c \in closed, c[2] \in Tracked
               PROVE  /\ centre.current = c[1] => c[2] \notin LiveKeys(centre)
                      /\ c[2] \notin Capture(centre).tabs[c[1]]
    BY DEF ClosedStaysClosed
  <2>1. c[1] \in Spaces /\ Gone(centre, c)
    BY DEF TabsInv, TabsTyped, ClosedAreGone
  <2> QED  BY <2>1 DEF Gone, Capture
<1> QED  BY <1>1, TabsAreKept, PTL

(* NO BOOT LOOP (restore_guard.rs: a crash while the tabs come back is seen*)
(* by the next launch, which skips them).                                  *)
THEOREM NeverABootLoop == TabsSpec => []NoBootLoop
<1>1. MarkerTells /\ [TabsNext]_tabsVars => MarkerTells'
  <2> SUFFICES ASSUME MarkerTells, [TabsNext]_tabsVars PROVE MarkerTells'
    OBVIOUS
  <2>1. CASE SafeMode \/ BeginRestore \/ FinishRestore
    BY <2>1 DEF SafeMode, BeginRestore, FinishRestore, MarkerTells
  <2>2. CASE Die
    BY <2>2 DEF Die, MarkerTells
  <2>3. CASE UNCHANGED <<marker, failures>> /\ (app' = app \/ app' \in {"booting", "quitting"})
    BY <2>3 DEF MarkerTells
  <2>4. ASSUME NEW s, SelectSpace(s) \/ OpenRoot(s) \/ RemoveSpace(s) \/ CloseTab(s)
                      \/ BeginWrite(s) \/ EndWrite(s)
        PROVE  UNCHANGED <<marker, failures, app>>
    BY <2>4 DEF SelectSpace, OpenRoot, RemoveSpace, CloseTab, BeginWrite, EndWrite
  <2>5. ASSUME NEW k, NEW root, Open(k, root) PROVE UNCHANGED <<marker, failures, app>>
    BY <2>5 DEF Open
  <2>6. CASE Launch \/ Tick \/ Quit \/ UNCHANGED tabsVars
    BY <2>3, <2>6 DEF Launch, Tick, Quit, tabsVars
  <2> QED  BY <2>1, <2>2, <2>3, <2>4, <2>5, <2>6 DEF TabsNext
<1>2. MarkerTells => NoBootLoop
  BY DEF MarkerTells, NoBootLoop
<1> QED  BY <1>1, <1>2, TabsInitHolds, PTL DEF TabsSpec
=============================================================================

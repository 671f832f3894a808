------------------------------ MODULE GrpcPanel ------------------------------
(***************************************************************************)
(* The gRPC request builder: the target typed, the schema a Connect brings *)
(* back, the method picked, the message written in a form or as JSON, the  *)
(* calls in flight and the saved ones. Connect and Send run on another     *)
(* thread and answer when they please; neither waits for an earlier one.   *)
(*                                                                         *)
(* A message is <<call, body>>, written for the fields of one call; a form *)
(* built for another call finds no cell to put it in. Offers[t] lists the  *)
(* unary calls of the server at t in its own order, NameOf the name a call *)
(* is saved under: "Service/Method" cut to sixty characters. Streaming     *)
(* methods, metadata, variables and the choice of environment are left out.*)
(***************************************************************************)
EXTENDS Naturals, Sequences, FiniteSets

CONSTANTS Hosts, Allowed, Calls, Bodies, Offers, Names, NameOf,
          NoSchema, NoCall, NoMsg, Junk, NoReply, MaxSteps, MaxInFlight

ASSUME GrpcAssumption ==
  /\ Allowed \subseteq Hosts
  /\ Offers \in [Hosts -> Seq(Calls)] /\ \A t \in Hosts : Offers[t] # <<>>
  /\ NameOf \in [Calls -> Names] /\ NoMsg \notin Calls \X Bodies
  /\ MaxSteps \in Nat /\ MaxInFlight \in Nat

Messages == Calls \X Bodies
Texts == Messages \cup {NoMsg, Junk}

VARIABLES
  target, schema, picked,     \* schema: the server it came from; picked: service and method
  bodyMode, jsonText,         \* "Form" or "Json", and the JSON tab's text
  rows, cells,                \* the call the form's rows are of, and what they hold
  formDirty, formSeed,
  connecting, connects,       \* the flag, and the connects in flight
  loading, sends, response,   \* ... and the calls
  saved,                      \* requests.json, by name; NoCall where nothing is
  steps,                      \* what the operator has done; bounded by MaxSteps
  written                     \* history: the operator's last message, and whether
                              \* the method had the fields for it

grpcVars == <<target, schema, picked, bodyMode, jsonText, rows, cells, formDirty,
              formSeed, connecting, connects, loading, sends, response, saved,
              steps, written>>
formVars == <<rows, cells, formDirty, formSeed>>
wireVars == <<connecting, connects, loading, sends>>

OffersOf(t) == {Offers[t][i] : i \in DOMAIN Offers[t]}

(* request_type: the picked method, when the schema at hand has it.        *)
TypeOf(s, c) == IF s # NoSchema /\ c \in OffersOf(s) THEN c ELSE NoCall

(* request_json                                                            *)
Request == IF bodyMode = "Form" THEN cells ELSE jsonText

(* seed_form_values: what of a text the rows of a call can hold.           *)
Seeded(c, text) == IF text \in Messages /\ text[1] = c THEN text ELSE NoMsg

(* rebuild_form, for a schema and a method.                                *)
Rebuilt(s, c, seed) ==
  /\ rows' = TypeOf(s, c) /\ cells' = Seeded(TypeOf(s, c), seed)
  /\ formDirty' = FALSE /\ formSeed' = NoMsg

Nothing == [msg |-> NoMsg, bound |-> FALSE]
Wrote(m, c) == IF m \in Messages THEN [msg |-> m, bound |-> m[1] = c] ELSE Nothing

GrpcInit ==
  /\ target \in Hosts /\ schema = NoSchema /\ picked = NoCall
  /\ bodyMode = "Form" /\ jsonText = NoMsg
  /\ rows = NoCall /\ cells = NoMsg /\ formDirty = FALSE /\ formSeed = NoMsg
  /\ connecting = FALSE /\ connects = {}
  /\ loading = FALSE /\ sends = {} /\ response = NoReply
  /\ \E m \in Messages :
       saved \in {[n \in Names |-> NoCall],
                  [n \in Names |-> IF n = NameOf[m[1]] THEN [call |-> m[1], text |-> m]
                                   ELSE NoCall]}
  /\ steps = 0 /\ written = Nothing

------------------------------------------------------------------------------
(* The operator acts on a frame that was drawn: after any queued rebuild.  *)
Acts == ~formDirty /\ steps < MaxSteps /\ steps' = steps + 1

TypeTarget(t) ==
  /\ Acts /\ target' = t
  /\ UNCHANGED <<schema, picked, bodyMode, jsonText, formVars, wireVars, response,
                 saved, written>>

(* connect: a host the environment does not allow is refused at once.      *)
Connect ==
  /\ Acts /\ target \in Allowed /\ Cardinality(connects) < MaxInFlight
  /\ connecting' = TRUE
  /\ connects' = connects \cup {[at |-> steps, target |-> target]}
  /\ UNCHANGED <<target, schema, picked, bodyMode, jsonText, formVars, loading, sends,
                 response, saved, written>>

(* Mutant: the new form starts empty.                                      *)
ConnectedFresh(c) ==
  /\ connects' = connects \ {c} /\ connecting' = FALSE
  /\ schema' = c.target /\ picked' = Head(Offers[c.target])
  /\ formDirty' = TRUE /\ formSeed' = NoMsg
  /\ UNCHANGED <<target, bodyMode, jsonText, rows, cells, loading, sends, response,
                 saved, steps, written>>

(* ... answered with a schema: the first service's first unary method is   *)
(* picked, and the message at hand queued as the seed of the new form.     *)
Connected(c) ==
  /\ connects' = connects \ {c} /\ connecting' = FALSE
  /\ schema' = c.target /\ picked' = Head(Offers[c.target])
  /\ formDirty' = TRUE /\ formSeed' = Request
  /\ UNCHANGED <<target, bodyMode, jsonText, rows, cells, loading, sends, response,
                 saved, steps, written>>

(* ... or with an error: the schema and the form's rows go.                *)
ConnectFailed(c) ==
  /\ connects' = connects \ {c} /\ connecting' = FALSE
  /\ schema' = NoSchema /\ rows' = NoCall /\ cells' = NoMsg
  /\ UNCHANGED <<target, picked, bodyMode, jsonText, formDirty, formSeed, loading, sends,
                 response, saved, steps, written>>

(* ... or its task died: only the flag goes.                               *)
ConnectDied(c) ==
  /\ connects' = connects \ {c} /\ connecting' = FALSE
  /\ UNCHANGED <<target, schema, picked, bodyMode, jsonText, formVars, loading, sends,
                 response, saved, steps, written>>

(* render: the queued rebuild.                                             *)
Render ==
  /\ formDirty
  /\ Rebuilt(schema, picked, formSeed)
  /\ UNCHANGED <<target, schema, picked, bodyMode, jsonText, wireVars, response, saved, steps,
                 written>>

(* select_service, and a click in the method list.                         *)
Pick(c) ==
  /\ Acts /\ schema # NoSchema /\ c \in OffersOf(schema)
  /\ picked' = c /\ response' = NoReply
  /\ formDirty' = TRUE /\ formSeed' = NoMsg
  /\ written' = IF bodyMode = "Form" THEN Nothing ELSE written
  /\ UNCHANGED <<target, schema, bodyMode, jsonText, rows, cells, wireVars, saved>>

EditForm(b) ==
  /\ Acts /\ bodyMode = "Form" /\ rows # NoCall
  /\ cells' = <<rows, b>> /\ written' = Wrote(cells', rows)
  /\ UNCHANGED <<target, schema, picked, bodyMode, jsonText, rows, formDirty, formSeed,
                 wireVars, response, saved>>

EditJson(text) ==
  /\ Acts /\ bodyMode = "Json"
  /\ jsonText' = text /\ written' = Wrote(text, rows)
  /\ UNCHANGED <<target, schema, picked, bodyMode, formVars, wireVars, response, saved>>

(* set_body_mode: the form is always written out as JSON; JSON that does   *)
(* not parse keeps its tab.                                                *)
ToJson ==
  /\ Acts /\ bodyMode = "Form"
  /\ bodyMode' = "Json" /\ jsonText' = cells
  /\ UNCHANGED <<target, schema, picked, formVars, wireVars, response, saved, written>>

ToForm ==
  /\ Acts /\ bodyMode = "Json" /\ jsonText # Junk
  /\ bodyMode' = "Form"
  /\ Rebuilt(schema, picked, jsonText)
  /\ UNCHANGED <<target, schema, picked, jsonText, wireVars, response, saved, written>>

(* fill_example                                                            *)
FillExample(b) ==
  LET c == TypeOf(schema, picked)
  IN /\ Acts /\ c # NoCall
     /\ IF bodyMode = "Form"
        THEN Rebuilt(schema, picked, <<c, b>>) /\ UNCHANGED jsonText
        ELSE jsonText' = <<c, b>> /\ UNCHANGED formVars
     /\ written' = Wrote(<<c, b>>, c)
     /\ UNCHANGED <<target, schema, picked, bodyMode, wireVars, response, saved>>

(* send: what is shown as the method and the message, to the host typed.   *)
Send ==
  /\ Acts /\ TypeOf(schema, picked) # NoCall /\ Cardinality(sends) < MaxInFlight
  /\ response' = NoReply
  /\ IF target \in Allowed
     THEN /\ loading' = TRUE
          /\ sends' = sends \cup {[at |-> steps, call |-> picked, msg |-> Request]}
     ELSE UNCHANGED <<loading, sends>>
  /\ UNCHANGED <<target, schema, picked, bodyMode, jsonText, formVars, connecting,
                 connects, saved, written>>

(* ... answered, or its task died.                                         *)
Answered(s) ==
  /\ sends' = sends \ {s} /\ loading' = FALSE
  /\ response' \in {s, response}
  /\ UNCHANGED <<target, schema, picked, bodyMode, jsonText, formVars, connecting,
                 connects, saved, steps, written>>

(* save: upsert by name of the method picked and the message as authored.  *)
SaveCall ==
  /\ Acts /\ picked # NoCall
  /\ saved' = [saved EXCEPT ![NameOf[picked]] = [call |-> picked, text |-> Request]]
  /\ UNCHANGED <<target, schema, picked, bodyMode, jsonText, formVars, wireVars,
                 response, written>>

(* load_saved: the names and the texts are restored, and the form rebuilt  *)
(* from the schema there is, if any.                                       *)
LoadSaved(n) ==
  LET r == saved[n]
  IN /\ Acts /\ r # NoCall
     /\ picked' = r.call /\ jsonText' = r.text
     /\ Rebuilt(schema, r.call, r.text)
     /\ written' = Wrote(r.text, TypeOf(schema, r.call))
     /\ UNCHANGED <<target, schema, bodyMode, wireVars, response, saved>>

GrpcNext ==
  \/ Connect \/ Render \/ ToJson \/ ToForm \/ Send \/ SaveCall
  \/ \E t \in Hosts : TypeTarget(t)
  \/ \E c \in Calls : Pick(c)
  \/ \E b \in Bodies : EditForm(b) \/ FillExample(b)
  \/ \E text \in Texts : EditJson(text)
  \/ \E n \in Names : LoadSaved(n)
  \/ \E c \in connects : Connected(c) \/ ConnectFailed(c) \/ ConnectDied(c)
  \/ \E s \in sends : Answered(s)

GrpcSpec == GrpcInit /\ [][GrpcNext]_grpcVars
------------------------------------------------------------------------------
(* TYPE.                                                                   *)
GrpcTypeOK ==
  /\ target \in Hosts /\ schema \in Hosts \cup {NoSchema}
  /\ picked \in Calls \cup {NoCall} /\ rows \in Calls \cup {NoCall}
  /\ bodyMode \in {"Form", "Json"} /\ jsonText \in Texts
  /\ cells \in Messages \cup {NoMsg} /\ formSeed \in Texts
  /\ saved \in [Names -> [call : Calls, text : Texts] \cup {NoCall}]

(* THE FORM IS THE METHOD'S. On a drawn frame the form's rows are those of *)
(* the picked method by the schema at hand, and hold no cell of another    *)
(* one, whichever connects answered, failed or died and in whatever order, *)
(* and whatever was loaded before there was a schema.                      *)
FormIsTheMethods ==
  ~formDirty => /\ rows = TypeOf(schema, picked)
                /\ cells # NoMsg => cells[1] = rows

(* BOUND WORK SURVIVES. A message the method had the fields for is lost,   *)
(* other than by the operator writing, loading or picking over it, in two  *)
(* ways only, both with the form on screen: no schema is left, or the form *)
(* drawn is of another method. Whatever answers when, and on the JSON tab  *)
(* always, it is still what would be sent. A connect can do both: one that *)
(* fails clears the form, and one that answers picks the first method,     *)
(* even of the server that was connected. There reconnecting does cost the *)
(* work, which the comment in connect says it never does.                  *)
BoundWorkSurvives ==
  [][(written.bound /\ Request = written.msg /\ written' = written)
       => \/ Request' = written.msg
          \/ /\ bodyMode' = "Form"
             /\ schema' = NoSchema \/ rows' # written.msg[1]]_grpcVars

(* THE FLAGS TELL. What claims to be connecting or loading is under way: a *)
(* flag never stays up with nothing left to take it down.                  *)
FlagsTell == (connecting => connects # {}) /\ (loading => sends # {})
=============================================================================

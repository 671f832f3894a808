------------------------------- MODULE MC_Desk -------------------------------
(***************************************************************************)
(* What the operator sits in front of, part by part: the gate's verdict,   *)
(* the approval popup, a session's monitor and terminal, the editor tabs,  *)
(* the run registry, the hooks in the settings, what an editor window      *)
(* shows of held approvals, the tabs of the centre with the file that      *)
(* brings them back, the gRPC request builder, and the list of the review  *)
(* panel. They share no variable, so a behaviour of one at a time, picked  *)
(* at the start, is every behaviour there is of each.                      *)
(***************************************************************************)
EXTENDS GateVerdict, ApprovalPopup, MonitorTerminal, EditorTabs, RunRegistry,
        HookRegistration, EditorHolds, WorkspaceTabs, GrpcPanel, ReviewPanel, TLC

CONSTANTS b1, b2, p1, p2, c1, c2, u1, u2, u3, n1, n2

PlanFirst == {{1}}

OwnBuild == (p1 :> b1) @@ (p2 :> b2)

(* One server has two methods, the others one; the third is not allowed.   *)
Servers == (u1 :> <<c1, c2>>) @@ (u2 :> <<c2>>) @@ (u3 :> <<c1>>)
OwnName == (c1 :> n1) @@ (c2 :> n2)

VARIABLE focus

deskVars == <<gateVars, popupVars, monitorVars, editorVars, runVars,
              hookVars, editorHoldVars, tabsVars, grpcVars, panelVars, focus>>

DeskInit ==
  /\ focus \in {"gate", "popup", "monitor", "editor", "runs", "hooks", "holds",
               "tabs", "grpc", "panel"}
  /\ GateInit /\ (focus # "gate" => gate = DefaultGate /\ call = CHOOSE c \in ToolCall : TRUE)
  /\ PopupInit /\ (focus # "popup" => ~mounted)
  /\ MonitorInit /\ (focus # "monitor" => term = "none" /\ ~optedIn)
  /\ EditorInit /\ (focus # "editor" => phase = "Review")
  /\ RunInit /\ HookInit
  /\ HoldsInit /\ (focus # "holds" => proposals = {1})
  /\ TabsInit
  /\ focus # "tabs" => activeSpace = Overview /\ file.tabs = [s \in Spaces |-> {}]
  /\ GrpcInit /\ PanelInit
  /\ focus # "grpc" => target = u1 /\ saved = [n \in Names |-> NoCall]

DeskNext ==
  /\ UNCHANGED focus
  /\ \/ /\ focus = "gate" /\ GateNext
        /\ UNCHANGED <<popupVars, monitorVars, editorVars, runVars, hookVars,
                       editorHoldVars, tabsVars, grpcVars, panelVars>>
     \/ /\ focus = "popup" /\ PopupNext
        /\ UNCHANGED <<gateVars, monitorVars, editorVars, runVars, hookVars,
                       editorHoldVars, tabsVars, grpcVars, panelVars>>
     \/ /\ focus = "monitor" /\ MonitorNext
        /\ UNCHANGED <<gateVars, popupVars, editorVars, runVars, hookVars,
                       editorHoldVars, tabsVars, grpcVars, panelVars>>
     \/ /\ focus = "editor" /\ EditorNext
        /\ UNCHANGED <<gateVars, popupVars, monitorVars, runVars, hookVars,
                       editorHoldVars, tabsVars, grpcVars, panelVars>>
     \/ /\ focus = "runs" /\ RunNext
        /\ UNCHANGED <<gateVars, popupVars, monitorVars, editorVars, hookVars,
                       editorHoldVars, tabsVars, grpcVars, panelVars>>
     \/ /\ focus = "hooks" /\ HookNext
        /\ UNCHANGED <<gateVars, popupVars, monitorVars, editorVars, runVars,
                       editorHoldVars, tabsVars, grpcVars, panelVars>>
     \/ /\ focus = "holds" /\ HoldsNext
        /\ UNCHANGED <<gateVars, popupVars, monitorVars, editorVars, runVars,
                       hookVars, tabsVars, grpcVars, panelVars>>
     \/ /\ focus = "tabs" /\ TabsNext
        /\ UNCHANGED <<gateVars, popupVars, monitorVars, editorVars, runVars,
                       hookVars, editorHoldVars, grpcVars, panelVars>>
     \/ /\ focus = "grpc" /\ GrpcNext
        /\ UNCHANGED <<gateVars, popupVars, monitorVars, editorVars, runVars,
                       hookVars, editorHoldVars, tabsVars, panelVars>>
     \/ /\ focus = "panel" /\ PanelNext
        /\ UNCHANGED <<gateVars, popupVars, monitorVars, editorVars, runVars, hookVars,
                       editorHoldVars, tabsVars, grpcVars>>

DeskSpec == DeskInit /\ [][DeskNext]_deskVars
=============================================================================

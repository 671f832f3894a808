------------------------------- MODULE Startup -------------------------------
(***************************************************************************)
(* How the processes that can host the gate start beside each other: the   *)
(* daemons that IDEs launch and the desktop application. Each claims the   *)
(* hook socket (bind_singleton_unix_socket) and publishes the port of its  *)
(* control API in control.json, which is where every client looks.         *)
(***************************************************************************)
EXTENDS Naturals

CONSTANTS
  Daemons, Desktops,   \* the processes, by kind
  Nobody,              \* no such file
  MaxStarts            \* bound: process starts

Hosts == Daemons \cup Desktops

VARIABLES
  claim,      \* host -> how far its claim of the socket has got
  api,        \* hosts whose control API listens on a port of its own
  socket,     \* the host the socket file leads to, alive or not
  published,  \* the host control.json names, alive or not
  starts

startVars == <<claim, api, socket, published, starts>>

Running(h) == claim[h] # "off"
Serving(h) == claim[h] = "serving"

\* connect() on the socket file finds a listener behind it.
Answers == socket # Nobody /\ Serving(socket)

Start(h) ==
  /\ ~Running(h) /\ starts < MaxStarts /\ starts' = starts + 1
  /\ claim' = [claim EXCEPT ![h] = "probing"]
  /\ UNCHANGED <<api, socket, published>>

\* A daemon that loses the socket exits; the desktop only ends its gate's thread.
Loses(h) == claim' = [claim EXCEPT ![h] = IF h \in Daemons THEN "off" ELSE "beaten"]

Probe(h) ==
  /\ claim[h] = "probing"
  /\ IF Answers THEN Loses(h) ELSE claim' = [claim EXCEPT ![h] = "clearing"]
  /\ UNCHANGED <<api, socket, published, starts>>

\* remove_file: whatever is at the path by now.
Clear(h) ==
  /\ claim[h] = "clearing" /\ claim' = [claim EXCEPT ![h] = "binding"]
  /\ socket' = Nobody
  /\ UNCHANGED <<api, published, starts>>

\* bind fails when somebody else's file is there again.
Bind(h) ==
  /\ claim[h] = "binding"
  /\ IF socket = Nobody THEN socket' = h /\ claim' = [claim EXCEPT ![h] = "serving"]
                        ELSE Loses(h) /\ UNCHANGED socket
  /\ UNCHANGED <<api, published, starts>>

\* write_discovery_file. A daemon gets there once it has the socket; the desktop's
\* spawn_control_api is a thread of its own.
Publish(h) ==
  /\ h \notin api /\ IF h \in Daemons THEN Serving(h) ELSE Running(h)
  /\ api' = api \cup {h} /\ published' = h
  /\ UNCHANGED <<claim, socket, starts>>

Gone(h) == claim' = [claim EXCEPT ![h] = "off"] /\ api' = api \ {h}

\* The control API of a daemon stops by itself: remove_discovery_file, guarded on the port.
Leave(h) ==
  /\ h \in Daemons \cap api /\ Gone(h)
  /\ published' = IF published = h THEN Nobody ELSE published
  /\ UNCHANGED <<socket, starts>>

\* Killed, or the desktop closed: both files stay.
Killed(h) == Running(h) /\ Gone(h) /\ UNCHANGED <<socket, published, starts>>

StartupInit ==
  /\ claim = [h \in Hosts |-> "off"] /\ api = {}
  /\ socket = Nobody /\ published = Nobody /\ starts = 0

StartupNext == \E h \in Hosts : \/ Start(h) \/ Probe(h) \/ Clear(h) \/ Bind(h)
                                \/ Publish(h) \/ Leave(h) \/ Killed(h)

StartupSpec == StartupInit /\ [][StartupNext]_startVars

-----------------------------------------------------------------------------
(* Properties *)

\* Nobody is in the middle of starting.
Settled == \A h \in Hosts : ~Running(h) \/ (claim[h] \in {"serving", "beaten"} /\ h \in api)

\* The process clients talk to is the one that answers the hooks. The daemon claims the
\* socket first for that reason: "a loser that wrote it would send every client to a
\* process that governs nothing while the winner holds the approvals".
DiscoveryNamesTheGate == Settled /\ published \in api /\ Answers => published = socket
=============================================================================

--------------------------- MODULE Iperf3Servers ---------------------------
(***************************************************************************)
(* The iperf3 servers of one provider: child processes it starts, one     *)
(* port each, before it listens, and that its signal handler is to stop.  *)
(***************************************************************************)
EXTENDS Integers

CONSTANT ServerCount  \* iperf3_server_count

VARIABLES
    phase,        \* the provider's main: "starting", "listening", "returned", "stopped"
    serving,      \* the ports on which an iperf3 server runs
    iperf3Cmds,   \* the servers in main's provider struct
    copyCmds,     \* the servers in the struct the signal handler closes over
    dead          \* the ports whose server died

vars == <<phase, serving, iperf3Cmds, copyCmds, dead>>

\* A server is named by its port, counted from iperf3_base_server_port.
Port == 0 .. (ServerCount - 1)

\* New registers the signal handler and then returns a copy of the struct.
Init ==
    /\ phase = "starting"
    /\ serving = {} /\ dead = {}
    /\ iperf3Cmds = {} /\ copyCmds = {}

\* StartServers starts the next server.
StartServer(n) ==
    /\ phase = "starting"
    /\ n \in Port /\ serving \cup dead = 0 .. (n - 1)
    /\ serving' = serving \cup {n}
    /\ UNCHANGED <<phase, iperf3Cmds, copyCmds, dead>>

\* All are started: main's provider keeps the commands and listens.
Listen ==
    /\ phase = "starting"
    /\ serving \cup dead = Port
    /\ iperf3Cmds' = Port
    /\ phase' = "listening"
    /\ UNCHANGED <<serving, copyCmds, dead>>

\* A server does not start: the commands of those before it are dropped, and
\* main returns.
StartFails ==
    /\ phase = "starting"
    /\ serving \cup dead # Port
    /\ phase' = "returned"
    /\ UNCHANGED <<serving, iperf3Cmds, copyCmds, dead>>

\* SIGINT or SIGTERM: cleanup kills the servers it knows, and the process exits.
Signal ==
    /\ phase \in {"starting", "listening"}
    /\ serving' = serving \ copyCmds
    /\ phase' = "stopped"
    /\ UNCHANGED <<iperf3Cmds, copyCmds, dead>>

ServerDies(n) ==
    /\ n \in serving
    /\ serving' = serving \ {n}
    /\ dead' = dead \cup {n}
    /\ UNCHANGED <<phase, iperf3Cmds, copyCmds>>

Next ==
    \/ \E n \in Port : StartServer(n) \/ ServerDies(n)
    \/ Listen \/ StartFails \/ Signal

Spec == Init /\ [][Next]_vars

\* "Register cleanup for interrupt signal": a provider that was interrupted has
\* left none of the iperf3 servers it holds the commands of running.
ServersStopped == phase = "stopped" => serving \cap iperf3Cmds = {}
=============================================================================

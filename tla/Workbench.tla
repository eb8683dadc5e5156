----------------------------- MODULE Workbench -----------------------------
(* The local workbench launcher (cli/workbench_launcher.py): its port     *)
(* check, its children, the readiness check of a smoke, supervision and   *)
(* the end; and the browser smoke (scripts/browser_smoke_local_workbench) *)
(* that runs a launcher, ends it and keeps evidence.                      *)
(*                                                                        *)
(* A child is named by its position: 1 is the control plane, 2 the ADK    *)
(* Developer Web, which --disable-adk leaves out.  Signals, deaths of     *)
(* children and other programs taking a port happen at any time.          *)
EXTENDS Integers, FiniteSetsExt

CONSTANTS
    Ports,      \* 2, or 1 with --disable-adk: the ports, one per child
    MaxOthers,  \* bound: how often another program takes a port
    MaxRaises   \* bound: how often the launcher cannot write (a log, stdout)

VARIABLES
    launcher,   \* where the launcher is
    smoke,      \* it was started with --smoke
    child,      \* per child: none, starting, serving, draining, exited
    told,       \* the children the launcher told to end
    alone,      \* the children that ended without being told
    next,       \* the child to start or to ask for its endpoints next
    waiting,    \* the children terminate_children still has to wait for
    signalled,  \* _SignalState
    ending,     \* exit code and shutdown cause of the launcher
    other,      \* per port: another program listens on it
    others,     \* how often one did
    raises,     \* how often writing failed
    drill,      \* where the browser smoke is; "off": a developer's launcher
    asked,      \* the number of ports whose endpoints the drill has seen
    released,   \* the ports the drill found released
    logs,       \* the launcher's output in the evidence: none, raw, clean
    passed      \* how the drill stands

Children == 1..Ports

launcherVars == <<launcher, smoke, told, next, waiting, ending, raises>>
drillVars == <<drill, asked, released, logs, passed>>
workbenchVars ==
    <<launcherVars, drillVars, child, alone, signalled, other, others>>

Running == {c \in Children : child[c] \in {"starting", "serving", "draining"}}
PortTaken(c) == child[c] = "serving" \/ other[c]
LauncherOver == launcher \in {"ended", "killed"}
NoEnding == [code |-> "none", cause |-> "none"]

WorkbenchInit ==
    /\ launcher = "idle" /\ smoke \in BOOLEAN
    /\ child = [c \in Children |-> "none"]
    /\ told = {} /\ alone = {} /\ waiting = {}
    /\ next = 1 /\ ending = NoEnding
    /\ signalled = FALSE
    /\ other = [c \in Children |-> FALSE] /\ others = 0 /\ raises = 0
    /\ drill \in {"off", "begin"} /\ (drill = "begin" => ~smoke)
    /\ asked = 0 /\ released = {} /\ logs = "none" /\ passed = TRUE

-----------------------------------------------------------------------------
(* The surroundings.                                                       *)

\* A child opens its port; it cannot if the port was taken after the check.
Serve(c) ==
    /\ child[c] = "starting" /\ c \notin told /\ ~other[c]
    /\ child' = [child EXCEPT ![c] = "serving"]
    /\ UNCHANGED <<launcherVars, drillVars, alone, signalled, other, others>>

\* A child that was told to end closes its port first.
Drain(c) ==
    /\ child[c] = "serving" /\ c \in told
    /\ child' = [child EXCEPT ![c] = "draining"]
    /\ UNCHANGED <<launcherVars, drillVars, alone, signalled, other, others>>

Die(c) ==
    /\ c \in Running
    /\ child' = [child EXCEPT ![c] = "exited"]
    /\ alone' = IF c \in told THEN alone ELSE alone \cup {c}
    /\ UNCHANGED <<launcherVars, drillVars, signalled, other, others>>

\* Another program, maybe another workbench, takes a free port or leaves it.
OtherComes(c) ==
    /\ others < MaxOthers /\ ~PortTaken(c)
    /\ other' = [other EXCEPT ![c] = TRUE] /\ others' = others + 1
    /\ UNCHANGED <<launcherVars, drillVars, child, alone, signalled>>

OtherLeaves(c) ==
    /\ other[c]
    /\ other' = [other EXCEPT ![c] = FALSE]
    /\ UNCHANGED <<launcherVars, drillVars, child, alone, signalled, others>>

\* SIGINT or SIGTERM reaches the handler, which only sets the flag.
Signal ==
    /\ ~signalled /\ ~LauncherOver /\ launcher \notin {"idle", "preflight"}
    /\ signalled' = TRUE
    /\ UNCHANGED <<launcherVars, drillVars, child, alone, other, others>>

-----------------------------------------------------------------------------
(* The launcher.                                                           *)

Goto(place) ==
    /\ launcher' = place
    /\ UNCHANGED <<smoke, drillVars, alone, signalled, other, others>>

\* Leaves by way of the finally blocks, which both terminate the children.
Leave(code, cause) ==
    /\ ending' = [code |-> code, cause |-> cause]
    /\ Goto("terminate")
    /\ UNCHANGED <<child, told, next, waiting, raises>>

Launch ==
    /\ launcher = "idle" /\ drill = "off"
    /\ Goto("preflight")
    /\ UNCHANGED <<child, told, next, waiting, ending, raises>>

\* ensure_ports_available binds each port and lets go of it again.
CheckPorts ==
    /\ launcher = "preflight"
    /\ IF \E c \in Children : PortTaken(c)
       THEN /\ ending' = [code |-> "1", cause |-> "port_conflict"]
            /\ Goto("ended")
       ELSE /\ ending' = ending
            /\ Goto("start")
    /\ UNCHANGED <<child, told, next, waiting, raises>>

StartChild ==
    /\ launcher = "start" /\ next \in Children
    /\ child' = [child EXCEPT ![next] = "starting"]
    /\ next' = next + 1
    /\ Goto("start")
    /\ UNCHANGED <<told, waiting, ending, raises>>

\* Popen fails: the children before it are terminated.
CannotStart ==
    /\ launcher = "start" /\ next \in Children /\ raises < MaxRaises
    /\ raises' = raises + 1
    /\ ending' = [code |-> "1", cause |-> "startup_failed"]
    /\ Goto("terminate")
    /\ UNCHANGED <<child, told, next, waiting>>

AllStarted ==
    /\ launcher = "start" /\ next \notin Children
    /\ next' = 1
    /\ Goto("announce")
    /\ UNCHANGED <<child, told, waiting, ending, raises>>

Announce ==
    /\ launcher = "announce"
    /\ Goto("stop?")
    /\ UNCHANGED <<child, told, next, waiting, ending, raises>>

\* The launcher cannot write its diagnostics (children_started,
\* readiness_ready) or its output: the exception passes both finally blocks.
Raise ==
    /\ launcher \in {"announce", "code"} /\ raises < MaxRaises
    /\ raises' = raises + 1
    /\ ending' = [code |-> "1", cause |-> "raised"]
    /\ Goto("terminate")
    /\ UNCHANGED <<child, told, next, waiting>>

\* One round of wait_for_smoke_endpoints or of supervise_children: has it to
\* stop, did a child exit, and, for a smoke, does the next endpoint answer.
LookForStop ==
    /\ launcher = "stop?"
    /\ IF signalled
       THEN Leave("128+signal", "signal")
       ELSE /\ Goto("exited?")
            /\ UNCHANGED <<child, told, next, waiting, ending, raises>>

LookForExit ==
    /\ launcher = "exited?"
    /\ IF \E c \in Children : child[c] = "exited"
       THEN Leave("child", "child_exit")
       ELSE /\ Goto(IF smoke THEN "probe" ELSE "stop?")
            /\ UNCHANGED <<child, told, next, waiting, ending, raises>>

\* The endpoints of the next child answer, maybe from another program.
Probe ==
    /\ launcher = "probe" /\ PortTaken(next)
    /\ next' = next + 1
    /\ Goto(IF next + 1 \in Children THEN "stop?" ELSE "code")
    /\ UNCHANGED <<child, told, waiting, ending, raises>>

ProbeAgain ==
    /\ launcher = "probe"
    /\ Goto("stop?")
    /\ UNCHANGED <<child, told, next, waiting, ending, raises>>

ReadinessTimeout ==
    /\ launcher = "probe"
    /\ Leave("1", "readiness_timeout")

\* The smoke is ready: the exit code and the cause are read one after the
\* other, from a flag that the signal handler may set in between.
ReadCode ==
    /\ launcher = "code"
    /\ ending' = [ending EXCEPT !.code = IF signalled THEN "128+signal" ELSE "0"]
    /\ Goto("cause")
    /\ UNCHANGED <<child, told, next, waiting, raises>>

ReadCause ==
    /\ launcher = "cause"
    /\ Leave(ending.code, IF signalled THEN "signal" ELSE "smoke_completed")

\* terminate_children: the running ones are told, then waited for in turn.
Terminate ==
    /\ launcher = "terminate"
    /\ waiting' = Running /\ told' = told \cup Running
    /\ Goto("wait")
    /\ UNCHANGED <<child, next, ending, raises>>

ChildEnded ==
    /\ launcher = "wait" /\ waiting # {}
    /\ child[Min(waiting)] = "exited"
    /\ waiting' = waiting \ {Min(waiting)}
    /\ Goto("wait")
    /\ UNCHANGED <<child, told, next, ending, raises>>

KillChild ==
    /\ launcher = "wait" /\ waiting # {}
    /\ Min(waiting) \in Running
    /\ child' = [child EXCEPT ![Min(waiting)] = "exited"]
    /\ waiting' = waiting \ {Min(waiting)}
    /\ Goto("wait")
    /\ UNCHANGED <<told, next, ending, raises>>

End ==
    /\ launcher = "wait" /\ waiting = {}
    /\ Goto("ended")
    /\ UNCHANGED <<child, told, next, waiting, ending, raises>>

LauncherNext ==
    \/ Launch \/ CheckPorts \/ StartChild \/ CannotStart \/ AllStarted
    \/ Announce \/ Raise
    \/ LookForStop \/ LookForExit \/ Probe \/ ProbeAgain \/ ReadinessTimeout
    \/ ReadCode \/ ReadCause \/ Terminate \/ ChildEnded \/ KillChild \/ End

-----------------------------------------------------------------------------
(* The browser smoke.                                                      *)

DrillTo(place) ==
    /\ drill' = place
    /\ UNCHANGED <<smoke, child, alone, other, others, next, told, waiting,
                   ending, raises>>

\* The output files are opened before the launcher is started.
DrillBegins ==
    /\ drill = "begin"
    /\ logs' = "raw"
    /\ \/ launcher' = "preflight" /\ passed' = passed /\ DrillTo("ready")
       \/ launcher' = launcher /\ passed' = FALSE /\ DrillTo("ports")
    /\ UNCHANGED <<asked, released, signalled>>

EndpointsSeen ==
    /\ drill = "ready" /\ ~LauncherOver
    /\ PortTaken(asked + 1)
    /\ asked' = asked + 1
    /\ DrillTo(IF asked' + 1 \in Children THEN "ready" ELSE "browse")
    /\ UNCHANGED <<launcher, released, logs, passed, signalled>>

\* The launcher ended before readiness, or the time is up.
NotReady ==
    /\ drill = "ready"
    /\ passed' = FALSE
    /\ DrillTo("stop")
    /\ UNCHANGED <<launcher, asked, released, logs, signalled>>

\* The browser checks: their verdict depends on what the pages show.
Browse ==
    /\ drill = "browse"
    /\ passed' \in BOOLEAN
    /\ DrillTo("stop")
    /\ UNCHANGED <<launcher, asked, released, logs, signalled>>

\* SIGTERM ends a launcher that has not installed its handlers at once.
StopLauncher ==
    /\ drill = "stop"
    /\ launcher' = IF launcher = "preflight" THEN "killed" ELSE launcher
    /\ signalled' = (signalled \/ launcher \notin {"preflight", "ended", "killed"})
    /\ DrillTo(IF LauncherOver THEN "ports" ELSE "grace")
    /\ UNCHANGED <<asked, released, logs, passed>>

LauncherStopped ==
    /\ drill = "grace" /\ LauncherOver
    /\ DrillTo("ports")
    /\ UNCHANGED <<launcher, asked, released, logs, passed, signalled>>

\* Five seconds are over, as long as the launcher gives its first child: it
\* noticed the signal long ago and waits for children.
KillLauncher ==
    /\ drill = "grace" /\ launcher = "wait"
    /\ launcher' = "killed"
    /\ DrillTo("ports")
    /\ UNCHANGED <<asked, released, logs, passed, signalled>>

\* The ports are looked at one after the other, each for five seconds.
PortReleased(c) ==
    /\ drill = "ports"
    /\ c = Min(Children \ released)
    /\ ~PortTaken(c)
    /\ released' = released \cup {c}
    /\ DrillTo(IF released' = Children THEN "logs" ELSE "ports")
    /\ UNCHANGED <<launcher, asked, logs, passed, signalled>>

FaultPortsNotReleased ==
    /\ drill = "ports" /\ PortTaken(Min(Children \ released))
    /\ DrillTo("logs")
    /\ UNCHANGED <<launcher, asked, released, logs, passed, signalled>>

PortsNotReleased ==
    /\ drill = "ports" /\ PortTaken(Min(Children \ released))
    /\ passed' = FALSE
    /\ DrillTo("logs")
    /\ UNCHANGED <<launcher, asked, released, logs, signalled>>

\* Only the output of a launcher that was started is cleaned.
CleanLogs ==
    /\ drill = "logs"
    /\ logs' = IF launcher = "idle" THEN logs ELSE "clean"
    /\ DrillTo("scan")
    /\ UNCHANGED <<launcher, asked, released, passed, signalled>>

\* The scan of the evidence may find something; the result is written.
ScanEvidence ==
    /\ drill = "scan"
    /\ passed' \in {FALSE, passed}
    /\ DrillTo("done")
    /\ UNCHANGED <<launcher, asked, released, logs, signalled>>

DrillNext ==
    \/ DrillBegins \/ EndpointsSeen \/ NotReady \/ Browse \/ StopLauncher
    \/ LauncherStopped \/ KillLauncher \/ PortsNotReleased
    \/ \E c \in Children : PortReleased(c)
    \/ CleanLogs \/ ScanEvidence

SurroundingsNext ==
    \/ \E c \in Children :
          Serve(c) \/ Drain(c) \/ Die(c) \/ OtherComes(c) \/ OtherLeaves(c)
    \/ Signal

WorkbenchNext == LauncherNext \/ DrillNext \/ SurroundingsNext

WorkbenchSpec == WorkbenchInit /\ [][WorkbenchNext]_workbenchVars

-----------------------------------------------------------------------------
\* A launcher that ended by itself leaves no child running, whatever ended
\* it: a child that could not be started, a child's death, a signal, a
\* readiness timeout or diagnostics it could not write; and its exit code
\* is that of what happened.
LauncherLeavesNothing ==
    launcher = "ended" =>
        /\ Running = {}
        /\ ending.code = "0" => smoke /\ next \notin Children
        /\ ending.code = "128+signal" => signalled
        /\ ending.cause = "child_exit" => alone # {}

\* A browser smoke that passes has asked every port, has ended its launcher,
\* maybe by force, without leaving a child on one of the ports, and keeps no
\* raw output.
DrillLeavesNothing ==
    drill = "done" /\ passed =>
        /\ asked = Ports
        /\ LauncherOver /\ logs = "clean"
        /\ \A c \in Children : child[c] # "serving"

\* However a launcher or a browser smoke ends, it has cleaned up after itself.
WorkbenchLeavesNothing == LauncherLeavesNothing /\ DrillLeavesNothing
=============================================================================

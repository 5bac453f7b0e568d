----------------------------- MODULE RemoteCommand -----------------------------
(***************************************************************************)
(* One command with a deadline on an SSH host (executor/ssh.py): the local *)
(* client, what it starts on the host -- a wrapper shell, and the command  *)
(* as leader of a group of its own once it has recorded its id -- and the  *)
(* second ssh that ends the group after a deadline or a Ctrl-C             *)
(* (executor/process_group.py).  Steps on the host go on whatever becomes  *)
(* of the clients; a shell's steps are steps of the model.                 *)
(*                                                                         *)
(* Left out: commands without a deadline (nothing looks for them again), a *)
(* group id given to another group later, processes that leave the group,  *)
(* Windows, and transfers.                                                 *)
(***************************************************************************)
EXTENDS Naturals, FiniteSets

CONSTANTS Scenarios   \* the hosts and callers considered

\* setsid: the host has it; writable: the record can be written; thread: the caller's ("main" gets the KeyboardInterrupt
\* itself); signals, drops: bounds on Ctrl-C and on connections that break.
ASSUME RemoteAssumption ==
    Scenarios \subseteq [setsid : BOOLEAN, writable : BOOLEAN, thread : {"main", "worker"}, signals : Nat, drops : Nat]

VARIABLES
    scenario,
    interrupts, \* process_group.interrupts()
    handling,   \* the handler has counted a signal and not sent it on yet
    call,       \* SshExecutor.run
    wrapper,    \* the shell the client starts on the host
    leader,     \* the command's own shell, then the command
    children,   \* whether processes the command started run
    record,     \* whether the file with the group's id is there
    ender,      \* the script that ends the group
    left        \* bound: what may still happen

hostVars == <<wrapper, leader, children, record, ender>>
localVars == <<interrupts, handling, call, left>>
vars == <<scenario, localVars, hostVars>>

\* signalled: the client at work has been sent the signal. cut: what ended the client, as far as the call tells.
NoCall == [at |-> "idle", noted |-> 0, signalled |-> FALSE, cut |-> "none", told |-> "nothing"]
NoEnder == [at |-> "none", read |-> FALSE, told |-> "nothing"]

Spend(what) == left[what] > 0 /\ left' = [left EXCEPT ![what] = @ - 1]

----------------------------------------------------------------------------
(* The controller *)

\* The caller starts: the count of interrupts is noted, then the client is started.
Note ==
    /\ call.at = "idle"
    /\ call' = [NoCall EXCEPT !.at = "starting", !.noted = interrupts]
    /\ UNCHANGED <<scenario, interrupts, handling, left, hostVars>>

StartClient ==
    /\ call.at = "starting"
    /\ call' = [call EXCEPT !.at = "client"]
    /\ UNCHANGED <<scenario, interrupts, handling, left, hostVars>>

\* The wrapper has exited with the command's status.
ClientReturns ==
    /\ call.at = "client" /\ wrapper = "gone"
    /\ call' = [call EXCEPT !.at = "over"]
    /\ UNCHANGED <<scenario, interrupts, handling, left, hostVars>>

\* CommandTimeout: the client's group is killed first.
Deadline ==
    /\ call.at = "client"
    /\ call' = [call EXCEPT !.at = "end", !.cut = "deadline", !.signalled = FALSE]
    /\ UNCHANGED <<scenario, interrupts, handling, left, hostVars>>

\* The client died, of the signal (exit 255 or the signal's own status) or of its connection (255): an interrupt when the
\* count moved since it was noted, else the error is raised as it is.
ClientDies ==
    /\ call.at = "client"
    /\ \/ call.signalled /\ UNCHANGED left
       \/ Spend("drops")
    /\ call' = IF interrupts # call.noted
               THEN [call EXCEPT !.at = "end", !.cut = "interrupt", !.signalled = FALSE]
               ELSE [call EXCEPT !.at = "over", !.cut = "lost"]
    /\ UNCHANGED <<scenario, interrupts, handling, hostVars>>

\* _end_group: one more ssh ...
StartEnder ==
    /\ call.at = "end"
    /\ call' = [call EXCEPT !.at = "ending"]
    /\ ender' = [NoEnder EXCEPT !.at = "read"]
    /\ UNCHANGED <<scenario, interrupts, handling, left, wrapper, leader, children, record>>

\* ... whose line the error quotes ...
EnderReturns ==
    /\ call.at = "ending" /\ ender.at = "done"
    /\ call' = [call EXCEPT !.at = "over", !.told = ender.told]
    /\ UNCHANGED <<scenario, interrupts, handling, left, hostVars>>

\* ... or which fails itself, its script running on: "was not ended: ...", "the cleanup exited ...".
EnderFails ==
    /\ call.at = "ending"
    /\ \/ call.signalled /\ UNCHANGED left
       \/ Spend("drops")
    /\ call' = [call EXCEPT !.at = "over", !.told = "not ended"]
    /\ UNCHANGED <<scenario, interrupts, handling, hostVars>>

\* Ctrl-C: the handler counts it first ...
Interrupt ==
    /\ ~handling /\ call.at # "over" /\ Spend("signals")
    /\ interrupts' = interrupts + 1 /\ handling' = TRUE
    /\ UNCHANGED <<scenario, call, hostVars>>

\* ... and then signals the clients running; in a worker's command the error comes of the client's death, ...
SignalGroups ==
    /\ handling /\ scenario.thread = "worker"
    /\ handling' = FALSE
    /\ call' = [call EXCEPT !.signalled = call.at \in {"client", "ending"}]
    /\ UNCHANGED <<scenario, interrupts, left, hostVars>>

\* ... in the main thread's the KeyboardInterrupt passes run by.
SignalGroupsAndRaise ==
    /\ handling /\ scenario.thread = "main"
    /\ handling' = FALSE
    /\ call' = [call EXCEPT !.at = "over", !.cut = "raised"]
    /\ UNCHANGED <<scenario, interrupts, left, hostVars>>

\* The main thread does nothing else inside its own handler.
Running == handling => scenario.thread = "worker"

LocalStep ==
    \/ Running /\ (Note \/ StartClient \/ ClientReturns \/ Deadline \/ ClientDies \/ StartEnder \/ EnderReturns \/ EnderFails)
    \/ Interrupt \/ SignalGroups \/ SignalGroupsAndRaise

----------------------------------------------------------------------------
(* in_own_session on the host *)

\* What the client asked for starts, perhaps after the client is gone.
StartWrapper ==
    /\ wrapper = "none" /\ call.at \in {"client", "end", "ending", "over"}
    /\ wrapper' = "waiting" /\ leader' = "shell"
    /\ UNCHANGED <<scenario, localVars, children, record, ender>>

WriteRecord ==
    /\ leader = "shell"
    /\ record' = scenario.writable /\ leader' = "recorded"
    /\ UNCHANGED <<scenario, localVars, wrapper, children, ender>>

Exec ==
    /\ leader = "recorded"
    /\ leader' = "program"
    /\ UNCHANGED <<scenario, localVars, wrapper, children, record, ender>>

StartChildren ==
    /\ leader = "program" /\ ~children
    /\ children' = TRUE
    /\ UNCHANGED <<scenario, localVars, wrapper, leader, record, ender>>

\* Of itself, of a signal, or because there is nothing to exec.
LeaderEnds ==
    /\ leader \in {"recorded", "program"}
    /\ leader' = "gone"
    /\ UNCHANGED <<scenario, localVars, wrapper, children, record, ender>>

ChildrenEnd ==
    /\ children
    /\ children' = FALSE
    /\ UNCHANGED <<scenario, localVars, wrapper, leader, record, ender>>

\* Mutant: the wrapper removes the record while the command runs.
WaitedAtOnce == leader # "none"

Waited == leader = "gone"

\* The wrapper has waited for the leader (which the end script may have killed), deletes the record and exits.
WrapperEnds ==
    /\ wrapper = "waiting" /\ Waited
    /\ wrapper' = "gone" /\ record' = FALSE
    /\ UNCHANGED <<scenario, localVars, leader, children, ender>>

HostStep ==
    StartWrapper \/ WriteRecord \/ Exec \/ StartChildren \/ LeaderEnds \/ ChildrenEnd \/ WrapperEnds

----------------------------------------------------------------------------
(* end_group_script on the host *)

LeaderAlive == leader \in {"shell", "recorded", "program"}
GroupAlive == LeaderAlive \/ children

End(fields) == ender' = fields

Read ==
    /\ ender.at = "read"
    /\ End([ender EXCEPT !.at = "remove", !.read = record])
    /\ UNCHANGED <<scenario, localVars, wrapper, leader, children, record>>

Remove ==
    /\ ender.at = "remove"
    /\ record' = FALSE
    /\ End(IF ender.read THEN [ender EXCEPT !.at = "term"] ELSE [ender EXCEPT !.at = "done", !.told = "no group recorded"])
    /\ UNCHANGED <<scenario, localVars, wrapper, leader, children>>

\* SIGTERM to the group: who heeds it ends before the grace is over (LeaderEnds, ChildrenEnd). Without setsid there is no
\* such group.
Term ==
    /\ ender.at = "term"
    /\ End([ender EXCEPT !.at = IF scenario.setsid /\ GroupAlive THEN "grace" ELSE "pid"])
    /\ UNCHANGED <<scenario, localVars, wrapper, leader, children, record>>

TermPid ==
    /\ ender.at = "pid"
    /\ End([ender EXCEPT !.at = "done", !.told = IF LeaderAlive THEN "SIGTERM sent" ELSE "already ended"])
    /\ UNCHANGED <<scenario, localVars, wrapper, leader, children, record>>

\* Mutant: SIGKILL to the leader, not to its group.
LeaderKilled == leader' = "gone" /\ UNCHANGED children

GroupKilled == leader' = "gone" /\ children' = FALSE

\* The grace is over, or nothing of the group was left before.
Kill ==
    /\ ender.at = "grace"
    /\ GroupKilled
    /\ End([ender EXCEPT !.at = "done", !.told = IF GroupAlive THEN "killed" ELSE "ended on SIGTERM"])
    /\ UNCHANGED <<scenario, localVars, wrapper, record>>

EnderStep == Read \/ Remove \/ Term \/ TermPid \/ Kill

----------------------------------------------------------------------------

Init ==
    /\ scenario \in Scenarios
    /\ interrupts = 0 /\ handling = FALSE /\ call = NoCall
    /\ wrapper = "none" /\ leader = "none" /\ children = FALSE /\ record = FALSE /\ ender = NoEnder
    /\ left = [signals |-> scenario.signals, drops |-> scenario.drops]

Next == LocalStep \/ HostStep \/ EnderStep

Spec == Init /\ [][Next]_vars

----------------------------------------------------------------------------
(* Properties *)

Gone == {"killed", "ended on SIGTERM", "already ended"}
Line == Gone \cup {"nothing", "no group recorded", "SIGTERM sent"}

\* Every variable has its type, and the host keeps no record of a command that is over: the record is the leader's, and the
\* wrapper outlives the leader, whoever ended it and whenever the end script deleted the record (in_own_session).
TypeOK ==
    /\ scenario \in Scenarios /\ interrupts \in Nat /\ handling \in BOOLEAN
    /\ call \in [at : {"idle", "starting", "client", "end", "ending", "over"}, noted : Nat, signalled : BOOLEAN,
                 cut : {"none", "deadline", "interrupt", "lost", "raised"}, told : Line \cup {"not ended"}]
    /\ wrapper \in {"none", "waiting", "gone"} /\ leader \in {"none", "shell", "recorded", "program", "gone"}
    /\ children \in BOOLEAN /\ record \in BOOLEAN
    /\ ender \in [at : {"none", "read", "remove", "term", "pid", "grace", "done"}, read : BOOLEAN, told : Line]
    /\ left \in [signals : Nat, drops : Nat]
    /\ record => wrapper = "waiting" /\ leader # "shell"

\* A call cut off by its deadline or by an interrupt it noticed does not return before the group's end was asked for, and
\* where the host has setsid what its error then says is so: no process of the group runs, or ever will, when it says
\* killed, ended or already ended -- however the command was starting, ending or forking meanwhile.
CutIsTold ==
    /\ call.at = "over" /\ call.cut \in {"deadline", "interrupt"} => call.told # "nothing"
    /\ scenario.setsid /\ call.told \in Gone => leader = "gone" /\ ~children
=============================================================================

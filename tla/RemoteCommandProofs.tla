-------------------------- MODULE RemoteCommandProofs --------------------------
(***************************************************************************)
(* Theorems about RemoteCommand, for every host and caller and any number  *)
(* of interrupts and broken connections.                                   *)
(***************************************************************************)
EXTENDS RemoteCommand, TLAPS

----------------------------------------------------------------------------
(* The inductive invariant *)

\* The wrapper is there before the leader and stays until the leader is gone; nothing starts a leader again.
Host ==
    /\ wrapper = "none" <=> leader = "none"
    /\ leader \in {"shell", "recorded", "program"} => wrapper = "waiting"

\* The end script runs for a call that was cut off, and goes past its reading only for a command that was started.
Ending ==
    /\ ender.read => leader # "none"
    /\ ender.at \in {"term", "pid", "grace"} => ender.read
    /\ ender.at # "done" => ender.told = "nothing"
    /\ ender.at = "done" => ender.told # "nothing"

\* What the end script saw of the group stays so.
Seen ==
    scenario.setsid =>
        /\ ender.at = "pid" => leader = "gone" /\ ~children
        /\ ender.told \in Gone => leader = "gone" /\ ~children

\* The call's error quotes the end script.
Quoted ==
    /\ call.at # "over" => call.told = "nothing"
    /\ call.at \in {"idle", "starting", "client"} => call.cut = "none" /\ ender.at = "none"
    /\ call.at = "end" => ender.at = "none"
    /\ call.told \in Gone => ender.at = "done" /\ ender.told = call.told

IInv == TypeOK /\ CutIsTold /\ Host /\ Ending /\ Seen /\ Quoted

\* TypeOK, by whose variables they are.
LocalType ==
    /\ scenario \in Scenarios /\ interrupts \in Nat /\ handling \in BOOLEAN
    /\ call \in [at : {"idle", "starting", "client", "end", "ending", "over"}, noted : Nat, signalled : BOOLEAN,
                 cut : {"none", "deadline", "interrupt", "lost", "raised"}, told : Line \cup {"not ended"}]
    /\ left \in [signals : Nat, drops : Nat]
HostType ==
    /\ wrapper \in {"none", "waiting", "gone"} /\ leader \in {"none", "shell", "recorded", "program", "gone"}
    /\ children \in BOOLEAN /\ record \in BOOLEAN
    /\ record => wrapper = "waiting" /\ leader # "shell"
EnderType == ender \in [at : {"none", "read", "remove", "term", "pid", "grace", "done"}, read : BOOLEAN, told : Line]

LEMMA TypesByOwner ==
    /\ TypeOK <=> LocalType /\ HostType /\ EnderType
    /\ TypeOK' <=> LocalType' /\ HostType' /\ EnderType'
BY DEF TypeOK, LocalType, HostType, EnderType

----------------------------------------------------------------------------

LEMMA SpendKeepsType ==
    ASSUME NEW what \in {"signals", "drops"}, left \in [signals : Nat, drops : Nat], Spend(what)
    PROVE  left' \in [signals : Nat, drops : Nat]
<1>1. CASE what = "signals" BY <1>1 DEF Spend
<1>2. CASE what = "drops" BY <1>2 DEF Spend
<1> QED BY <1>1, <1>2

LEMMA MembershipIsBoolean == ASSUME NEW x, NEW S PROVE (x \in S) \in BOOLEAN
OBVIOUS

LEMMA InterruptCounts ==
    ASSUME interrupts \in Nat, Interrupt
    PROVE  interrupts' \in Nat
<1>1. interrupts' = interrupts + 1 BY DEF Interrupt
<1> QED BY <1>1

LEMMA Initially == Init => IInv
<1> SUFFICES ASSUME Init PROVE IInv
    OBVIOUS
<1>1. LocalType
  <2>1. scenario \in [setsid : BOOLEAN, writable : BOOLEAN, thread : {"main", "worker"}, signals : Nat, drops : Nat]
      BY RemoteAssumption DEF Init
  <2> QED BY <2>1 DEF Init, LocalType, NoCall, Line
<1>2. HostType /\ EnderType BY DEF Init, HostType, EnderType, NoEnder, Line
<1>3. CutIsTold /\ Quoted BY DEF Init, CutIsTold, Quoted, NoCall, NoEnder, Gone
<1>4. Host /\ Ending /\ Seen BY DEF Init, Host, Ending, Seen, NoEnder, Gone
<1> QED BY <1>1, <1>2, <1>3, <1>4, TypesByOwner DEF IInv

\* A step of the controller alone: what it does to the call.
LEMMA LocalQuiet ==
    ASSUME IInv, scenario' = scenario, UNCHANGED hostVars, LocalType', CutIsTold', Quoted'
    PROVE  IInv'
<1>1. UNCHANGED <<wrapper, leader, children, record, ender>>
    BY DEF hostVars
<1>2. HostType' /\ EnderType'
  <2>1. HostType /\ EnderType BY TypesByOwner DEF IInv
  <2>2. HostType' BY <1>1, <2>1 DEF HostType
  <2> QED BY <1>1, <2>1, <2>2 DEF EnderType
<1>3. Host' BY <1>1 DEF IInv, Host
<1>4. Ending' BY <1>1 DEF IInv, Ending
<1>5. Seen' BY <1>1 DEF IInv, Seen
<1> QED BY <1>2, <1>3, <1>4, <1>5, TypesByOwner DEF IInv

LEMMA ControllerNext ==
    ASSUME IInv,
           \/ Note \/ StartClient \/ ClientReturns \/ Deadline \/ ClientDies \/ EnderReturns \/ EnderFails
           \/ Interrupt \/ SignalGroups \/ SignalGroupsAndRaise
    PROVE  IInv'
<1>0. LocalType /\ EnderType BY TypesByOwner DEF IInv
<1>1. scenario' = scenario /\ UNCHANGED hostVars
    BY DEF Note, StartClient, ClientReturns, Deadline, ClientDies, EnderReturns, EnderFails, Interrupt, SignalGroups,
           SignalGroupsAndRaise
<1>2. UNCHANGED <<ender, leader, children>>
    BY <1>1 DEF hostVars
<1>3. LocalType'
  <2> USE <1>0, <1>1 DEF LocalType
  <2>1. CASE Note BY <2>1 DEF Note, NoCall, Line
  <2>2. CASE StartClient BY <2>2 DEF StartClient
  <2>3. CASE ClientReturns BY <2>3 DEF ClientReturns
  <2>4. CASE Deadline BY <2>4 DEF Deadline
  <2>5. CASE ClientDies
    <3>1. left' \in [signals : Nat, drops : Nat] BY <2>5, SpendKeepsType DEF ClientDies
    <3> QED BY <2>5, <3>1 DEF ClientDies
  <2>6. CASE EnderReturns
    <3>1. ender.told \in Line BY DEF EnderType
    <3> QED BY <2>6, <3>1 DEF EnderReturns
  <2>7. CASE EnderFails
    <3>1. left' \in [signals : Nat, drops : Nat] BY <2>7, SpendKeepsType DEF EnderFails
    <3> QED BY <2>7, <3>1 DEF EnderFails
  <2>8. CASE Interrupt
    <3>1. left' \in [signals : Nat, drops : Nat] BY <2>8, SpendKeepsType DEF Interrupt
    <3>2. handling' = TRUE /\ call' = call BY <2>8 DEF Interrupt
    <3>3. interrupts' \in Nat BY <2>8, InterruptCounts
    <3> QED BY <3>1, <3>2, <3>3
  <2>9. CASE SignalGroups
    <3> DEFINE sent == call.at \in {"client", "ending"}
    <3>1. call' = [call EXCEPT !.signalled = sent] BY <2>9 DEF SignalGroups
    <3>2. handling' = FALSE /\ UNCHANGED <<interrupts, left>> BY <2>9 DEF SignalGroups
    <3>3. sent \in BOOLEAN BY MembershipIsBoolean
    <3> HIDE DEF sent
    <3> QED BY <3>1, <3>2, <3>3
  <2>10. CASE SignalGroupsAndRaise
    <3>1. handling' = FALSE /\ UNCHANGED <<interrupts, left>> /\ call' = [call EXCEPT !.at = "over", !.cut = "raised"]
        BY <2>10 DEF SignalGroupsAndRaise
    <3> QED BY <3>1
  <2> QED BY <2>1, <2>2, <2>3, <2>4, <2>5, <2>6, <2>7, <2>8, <2>9, <2>10
\* What it takes of the call's fields.
<1>4. CutIsTold' /\ Quoted'
  <2> USE <1>0, <1>1, <1>2 DEF LocalType, IInv, CutIsTold, Quoted, Gone
  <2>1. CASE Note BY <2>1 DEF Note, NoCall
  <2>2. CASE StartClient BY <2>2 DEF StartClient
  <2>3. CASE ClientReturns BY <2>3 DEF ClientReturns
  <2>4. CASE Deadline BY <2>4 DEF Deadline
  <2>5. CASE ClientDies BY <2>5 DEF ClientDies
  <2>6. CASE EnderReturns BY <2>6 DEF EnderReturns, Ending, Seen
  <2>7. CASE EnderFails BY <2>7 DEF EnderFails
  <2>8. CASE Interrupt BY <2>8 DEF Interrupt
  <2>9. CASE SignalGroups BY <2>9 DEF SignalGroups
  <2>10. CASE SignalGroupsAndRaise BY <2>10 DEF SignalGroupsAndRaise
  <2> QED BY <2>1, <2>2, <2>3, <2>4, <2>5, <2>6, <2>7, <2>8, <2>9, <2>10
<1> QED BY <1>1, <1>3, <1>4, LocalQuiet

\* A group that is gone gets no new process, whatever still happens on the host.
LEMMA HostNext ==
    ASSUME IInv, HostStep
    PROVE  IInv'
<1>0. LocalType /\ HostType /\ EnderType BY TypesByOwner DEF IInv
<1>1. scenario' = scenario /\ UNCHANGED localVars /\ ender' = ender
    BY DEF HostStep, StartWrapper, WriteRecord, Exec, StartChildren, LeaderEnds, ChildrenEnd, WrapperEnds
<1>2. UNCHANGED <<interrupts, handling, call, left>>
    BY <1>1 DEF localVars
<1>3. LocalType' /\ EnderType'
    BY <1>0, <1>1, <1>2 DEF LocalType, EnderType
<1>4. HostType' /\ Host'
  <2> USE <1>0 DEF HostType, IInv, Host
  <2>1. CASE StartWrapper BY <2>1 DEF StartWrapper
  <2>2. CASE WriteRecord
    <3>1. scenario.writable \in BOOLEAN BY <1>0, RemoteAssumption DEF LocalType
    <3> QED BY <2>2, <3>1 DEF WriteRecord
  <2>3. CASE Exec BY <2>3 DEF Exec
  <2>4. CASE StartChildren BY <2>4 DEF StartChildren
  <2>5. CASE LeaderEnds BY <2>5 DEF LeaderEnds
  <2>6. CASE ChildrenEnd BY <2>6 DEF ChildrenEnd
  <2>7. CASE WrapperEnds BY <2>7 DEF WrapperEnds, Waited
  <2> QED BY <2>1, <2>2, <2>3, <2>4, <2>5, <2>6, <2>7 DEF HostStep
<1>5. leader # "none" => leader' # "none"
    BY DEF IInv, Host, HostStep, StartWrapper, WriteRecord, Exec, StartChildren, LeaderEnds, ChildrenEnd, WrapperEnds
<1>6. leader = "gone" /\ ~children => leader' = "gone" /\ ~children'
    BY <1>0 DEF IInv, Host, HostType, HostStep, StartWrapper, WriteRecord, Exec, StartChildren, LeaderEnds, ChildrenEnd,
                WrapperEnds
<1>7. Ending' BY <1>1, <1>5 DEF IInv, Ending
<1>8. Seen' BY <1>1, <1>6 DEF IInv, Seen
<1>9. CutIsTold' /\ Quoted' BY <1>1, <1>2, <1>6 DEF IInv, CutIsTold, Quoted
<1> QED BY <1>3, <1>4, <1>7, <1>8, <1>9, TypesByOwner DEF IInv

\* What the end script says it saw.
LEMMA EnderNext ==
    ASSUME IInv, EnderStep
    PROVE  IInv'
<1>0. LocalType /\ HostType /\ EnderType BY TypesByOwner DEF IInv
<1>1. scenario' = scenario /\ UNCHANGED localVars /\ wrapper' = wrapper
    BY DEF EnderStep, Read, Remove, Term, TermPid, Kill
<1>2. UNCHANGED <<interrupts, handling, call, left>>
    BY <1>1 DEF localVars
<1>3. LocalType'
    BY <1>0, <1>1, <1>2 DEF LocalType
<1>4. HostType' /\ Host'
  <2> USE <1>0, <1>1 DEF HostType, IInv, Host, End
  <2>1. CASE Read \/ Term \/ TermPid
    <3>1. UNCHANGED <<leader, children, record>> BY <2>1 DEF Read, Term, TermPid
    <3> QED BY <3>1
  <2>2. CASE Remove BY <2>2 DEF Remove
  <2>3. CASE Kill BY <2>3 DEF Kill, GroupKilled, Ending
  <2> QED BY <2>1, <2>2, <2>3 DEF EnderStep
<1>5. EnderType' /\ Ending' /\ Seen'
  <2> USE <1>0, <1>1 DEF EnderType, IInv, Ending, Seen, End, Line, Gone
  <2>1. CASE Read
    <3>1. record => leader # "none" BY DEF HostType, Host
    <3>2. record \in BOOLEAN BY DEF HostType
    <3> QED BY <2>1, <3>1, <3>2 DEF Read
  <2>2. CASE Remove BY <2>2 DEF Remove
  <2>3. CASE Term
    <3>1. CASE scenario.setsid /\ GroupAlive BY <2>3, <3>1 DEF Term
    <3>2. CASE ~(scenario.setsid /\ GroupAlive)
      <4>1. scenario.setsid => leader = "gone" /\ ~children
          BY <2>3, <3>2 DEF Term, GroupAlive, LeaderAlive, HostType
      <4> QED BY <2>3, <3>2, <4>1 DEF Term
    <3> QED BY <3>1, <3>2
  <2>4. CASE TermPid BY <2>4 DEF TermPid, LeaderAlive
  <2>5. CASE Kill BY <2>5 DEF Kill, GroupKilled
  <2> QED BY <2>1, <2>2, <2>3, <2>4, <2>5 DEF EnderStep
<1>6. leader = "gone" /\ ~children => leader' = "gone" /\ ~children'
    BY DEF EnderStep, Read, Remove, Term, TermPid, Kill, GroupKilled
<1>7. CutIsTold' BY <1>1, <1>2, <1>6 DEF IInv, CutIsTold
<1>8. Quoted'
  <2>1. ender.at # "none" /\ ender.at # "done"
      BY DEF EnderStep, Read, Remove, Term, TermPid, Kill
  <2> QED BY <1>2, <2>1 DEF IInv, Quoted
<1> QED BY <1>3, <1>4, <1>5, <1>7, <1>8, TypesByOwner DEF IInv

\* The second ssh starts.
LEMMA StartEnderNext ==
    ASSUME IInv, StartEnder
    PROVE  IInv'
<1>0. LocalType /\ HostType /\ EnderType BY TypesByOwner DEF IInv
<1>1. /\ call.at = "end" /\ call' = [call EXCEPT !.at = "ending"]
      /\ ender' = [at |-> "read", read |-> FALSE, told |-> "nothing"]
      /\ UNCHANGED <<scenario, interrupts, handling, left, wrapper, leader, children, record>>
    BY DEF StartEnder, NoEnder
<1>2. LocalType' BY <1>0, <1>1 DEF LocalType
<1>3. HostType' BY <1>0, <1>1 DEF HostType
<1>4. EnderType' BY <1>1 DEF EnderType, Line
<1>5. Host' BY <1>1 DEF IInv, Host
<1>6. Ending' /\ Seen' BY <1>1 DEF Ending, Seen, Gone
<1>7. CutIsTold' /\ Quoted' BY <1>0, <1>1 DEF IInv, LocalType, CutIsTold, Quoted, Gone
<1> QED BY <1>2, <1>3, <1>4, <1>5, <1>6, <1>7, TypesByOwner DEF IInv

LEMMA Inductive == IInv /\ [Next]_vars => IInv'
<1> SUFFICES ASSUME IInv, [Next]_vars PROVE IInv'
    OBVIOUS
<1>1. CASE UNCHANGED vars
  <2>1. scenario' = scenario /\ UNCHANGED hostVars /\ UNCHANGED <<interrupts, handling, call, left>>
      BY <1>1 DEF vars, localVars
  <2>2. ender' = ender /\ leader' = leader /\ children' = children
      BY <2>1 DEF hostVars
  <2>3. LocalType BY TypesByOwner DEF IInv
  <2>4. LocalType' BY <2>1, <2>3 DEF LocalType
  <2>5. CutIsTold' /\ Quoted' BY <2>1, <2>2 DEF IInv, CutIsTold, Quoted
  <2> QED BY <2>1, <2>4, <2>5, LocalQuiet
<1>2. CASE LocalStep
    BY <1>2, ControllerNext, StartEnderNext DEF LocalStep
<1> QED BY <1>1, <1>2, HostNext, EnderNext DEF Next

LEMMA InvariantCorrect == Spec => []IInv
BY Initially, Inductive, PTL DEF Spec

\* Type correctness, and that no record is left of a command that is over, for any number of interrupts and broken
\* connections (ssh.py, in_own_session).
THEOREM TypeCorrect == Spec => []TypeOK
<1>1. IInv => TypeOK BY DEF IInv
<1> QED BY InvariantCorrect, <1>1, PTL

\* What the error of a call cut off says became of the remote group is so, for any number of interrupts and broken
\* connections (ssh.py, _end_group, end_group_script).
THEOREM CutIsToldCorrect == Spec => []CutIsTold
<1>1. IInv => CutIsTold BY DEF IInv
<1> QED BY InvariantCorrect, <1>1, PTL
=============================================================================

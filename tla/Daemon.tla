-------------------------------- MODULE Daemon ------------------------------
(***************************************************************************)
(* mstpd as a process: the main loop of epoll_loop.c with its one-second   *)
(* ticks, the packet socket that the BPDUs of all ports share, the control *)
(* socket, and the clients that wait on it: the mstpctl that bridge-stp    *)
(* runs while the kernel turns STP on or off for a bridge, and the ones    *)
(* bridge-stp leaves in the background after it has started mstpd.         *)
(*                                                                         *)
(* The kernel (external) holds the RTNL lock while bridge-stp runs, and    *)
(* mstpd waits for that lock whenever it sets the state of a kernel port.  *)
(*                                                                         *)
(* Time is counted in seconds.  timeout is what time_diff would return now *)
(* for nexttimeout, the time that is left until the next tick; it is       *)
(* negative when mstpd is late.  Time passes while mstpd sleeps or waits   *)
(* for the lock; it passes while mstpd could run at most MaxStall times    *)
(* (an overloaded machine).                                                *)
(***************************************************************************)
EXTENDS Integers, Sequences

CONSTANTS
    NPorts,         \* ports of another bridge that mstpd manages
    HelloTime,      \* a neighbour on each port sends a BPDU this often
    ClientTimeout,  \* how long mstpctl waits for an answer
    MANAGE_MSTPD,   \* bridge-stp starts and stops mstpd
    Jobs,           \* background jobs of bridge-stp
    MaxStall, MaxToggles, MaxCrashes

VARIABLES
    loop,           \* where mstpd is, see Positions
    timeout, late,  \* now, and as it was when the pending tick began
    ready,          \* sockets whose handlers are still to be called this turn
    quit,
    sock,           \* BPDUs in the packet socket: the port of each
    info,           \* rcvdInfoWhile of each port, or NoInfo
    hello,          \* time until the neighbour on the port sends again
    ctl,            \* requests in the control socket
    handling,       \* the request that was answered and is being handled
    managed,        \* mstpd runs STP on the bridge
    other,          \* the other bridge: "none", "managed", "orphan"
    stp,            \* the kernel's STP mode of the bridge
    script,         \* the bridge-stp that the kernel waits for
    job,            \* the background jobs
    failed,         \* an mstpctl has failed
    budget          \* stalls, toggles and crashes that may still happen

loopVars == <<loop, timeout, late, ready, quit>>
bpduVars == <<sock, info, hello>>
ctlVars == <<ctl, handling, managed>>
clientVars == <<stp, script, job, failed>>
daemonVars == <<loopVars, bpduVars, ctlVars, other, clientVars, budget>>

ASSUME DaemonAssumption ==
    /\ NPorts \in Nat
    /\ HelloTime \in Nat \ {0} /\ ClientTimeout \in Nat \ {0}
    /\ MANAGE_MSTPD \in BOOLEAN
    /\ "script" \notin Jobs /\ "gone" \notin Jobs
    /\ MaxStall \in Nat /\ MaxToggles \in Nat /\ MaxCrashes \in Nat

\* "boot": main before ctl_socket_init; "init": init_bridge_ops; "top": the
\* head of the while loop; "wait": epoll_wait; "events": the handlers.
\* Waiting for the lock: "tick" in bridge_one_second, "stuck" in the packet
\* handler, "handle" in handle_message, "fini" in bridge_track_fini.
Positions == {"off", "boot", "init", "top", "wait", "events",
              "tick", "stuck", "handle", "fini"}
Ports == 1..NPorts
NoInfo == -1
InfoTime == 3 * HelloTime
NoRequest == [op |-> "none", from |-> "none"]

\* A client: its state, its operation and how long it still waits or sleeps.
Client(state, op, wait) == [state |-> state, op |-> op, wait |-> wait]
NoClient == Client("none", "none", 0)
Waits(c) == c.state = "waiting"

Running == loop # "off"
Listens == loop \notin {"off", "boot"}      \* the control socket is bound
RtnlHeld == script.state # "none"
Blocked == RtnlHeld /\ loop \in {"init", "tick", "stuck", "handle", "fini"}
Sleeping == /\ loop = "wait" /\ sock = <<>> /\ ctl = <<>>
            /\ timeout >= 0 /\ ~quit

-----------------------------------------------------------------------------
(* Time and the kernel (external) *)

Older(c) == [c EXCEPT !.wait = IF @ > 0 THEN @ - 1 ELSE 0]

\* One second passes.  A client whose time is over acts before that.
Pass ==
    /\ ~RtnlHeld \/ script.wait > 0
    /\ \A j \in Jobs : \/ job[j].state = "none" \/ job[j].wait > 0
                       \/ job[j].state = "failed" /\ RtnlHeld
    /\ Sleeping \/ Blocked \/ ~Running \/ budget.stalls > 0
    /\ budget' = IF Sleeping \/ Blocked \/ ~Running THEN budget
                 ELSE [budget EXCEPT !.stalls = @ - 1]
    /\ timeout' = IF loop \in {"off", "boot", "init"} THEN timeout
                  ELSE timeout - 1
    /\ LET sends == {p \in Ports : other = "managed" /\ hello[p] = 0}
       IN  /\ hello' = [p \in Ports |-> IF p \in sends THEN HelloTime - 1
                                        ELSE IF hello[p] > 0 THEN hello[p] - 1
                                        ELSE 0]
           /\ sock' = sock \o SelectSeq([p \in Ports |-> p],
                                        LAMBDA p : p \in sends)
    /\ script' = Older(script)
    /\ job' = [j \in Jobs |-> Older(job[j])]
    /\ UNCHANGED <<loop, late, ready, quit, info, ctlVars, other, stp, failed>>

\* STP is turned on or off; the kernel takes the lock and calls bridge-stp,
\* except to turn off its own STP.
StpState(on) ==
    IF ~on /\ stp = "kernel"
    THEN stp' = "none" /\ UNCHANGED script
    ELSE /\ script' = Client("begin", IF on THEN "add" ELSE "del", 0)
         /\ UNCHANGED stp

Toggle ==
    /\ ~RtnlHeld
    /\ budget.toggles > 0
    /\ budget' = [budget EXCEPT !.toggles = @ - 1]
    /\ StpState(stp = "none")
    /\ UNCHANGED <<loopVars, bpduVars, ctlVars, other, job, failed>>

\* bridge-stp exits and the kernel lets the lock go: the bridge uses user
\* space STP when a start has succeeded.
Exit(rc) ==
    /\ script' = NoClient
    /\ stp' = IF script.op = "del" THEN "none"
              ELSE IF rc = 0 THEN "user" ELSE "kernel"
    /\ failed' = (failed \/ rc # 0)

-----------------------------------------------------------------------------
(* bridge-stp and mstpctl *)

\* send_ctl_message: the request is in the control socket, the client polls.
Send(op, from) == ctl' = Append(ctl, [op |-> op, from |-> from])

\* "start" without a running mstpd: bridge-stp starts it and leaves the
\* addbridge to a background job, or fails.
ScriptStartsDaemon ==
    /\ script.state = "begin" /\ script.op = "add"
    /\ ~Running
    /\ \/ /\ MANAGE_MSTPD
          /\ loop' = "boot"
          /\ \E j \in Jobs : /\ job[j] = NoClient
                             /\ job' = [job EXCEPT ![j] = Client("begin", "add", 1)]
          /\ Exit(0)
       \/ UNCHANGED <<loop, job>> /\ Exit(3)
    /\ UNCHANGED <<timeout, late, ready, quit, bpduVars, ctlVars, other, budget>>

\* mstpctl addbridge or delbridge; it fails when it cannot connect.
ScriptSends ==
    /\ script.state = "begin"
    /\ Running \/ script.op = "del"
    /\ IF Listens
       THEN /\ Send(script.op, "script")
            /\ script' = Client("waiting", script.op, ClientTimeout)
            /\ UNCHANGED <<stp, failed>>
       ELSE UNCHANGED ctl /\ Exit(3)
    /\ UNCHANGED <<loopVars, bpduVars, handling, managed, other, job, budget>>

\* Mutant: the script does not look at the result of mstpctl.
ScriptEnds_unchecked ==
    /\ script.state \in {"ok", "failed"}
    /\ Exit(0)
    /\ quit' = (quit \/ /\ script.state = "ok" /\ script.op = "del"
                        /\ MANAGE_MSTPD /\ other = "none" /\ Running)
    /\ UNCHANGED <<loop, timeout, late, ready, bpduVars, ctlVars, other, job,
                   budget>>

\* After a stop, mstpd is killed when no other bridge is in user_stp mode.
ScriptEnds ==
    /\ script.state \in {"ok", "failed"}
    /\ IF script.state = "failed" THEN Exit(3) ELSE Exit(0)
    /\ quit' = (quit \/ /\ script.state = "ok" /\ script.op = "del"
                        /\ MANAGE_MSTPD /\ other = "none" /\ Running)
    /\ UNCHANGED <<loop, timeout, late, ready, bpduVars, ctlVars, other, job,
                   budget>>

JobSends(j) ==
    /\ job[j].state = "begin" /\ job[j].wait = 0
    /\ IF Listens
       THEN /\ Send("add", j)
            /\ job' = [job EXCEPT ![j] = Client("waiting", "add", ClientTimeout)]
       ELSE /\ job' = [job EXCEPT ![j] = Client("failed", "add", 0)]
            /\ UNCHANGED ctl
    /\ UNCHANGED <<loopVars, bpduVars, handling, managed, other, stp, script,
                   failed, budget>>

\* When addbridge has failed, the job turns STP off.
JobEnds(j) ==
    /\ job[j].state \in {"ok", "failed"}
    /\ job' = [job EXCEPT ![j] = NoClient]
    /\ IF job[j].state = "failed" /\ stp # "none"
       THEN ~RtnlHeld /\ StpState(FALSE)
       ELSE UNCHANGED <<stp, script>>
    /\ failed' = (failed \/ job[j].state = "failed")
    /\ UNCHANGED <<loopVars, bpduVars, ctlVars, other, budget>>

\* Mutant: mstpctl polls without a timeout.
GiveUp_never(c) == FALSE /\ UNCHANGED daemonVars

\* poll returns 0: the client ends, and nobody waits for the answer.
GiveUp(c) ==
    /\ IF c = "script"
       THEN /\ Waits(script) /\ script.wait = 0
            /\ script' = [script EXCEPT !.state = "failed"]
            /\ UNCHANGED job
       ELSE /\ Waits(job[c]) /\ job[c].wait = 0
            /\ job' = [job EXCEPT ![c].state = "failed"]
            /\ UNCHANGED script
    /\ ctl' = [i \in 1..Len(ctl) |-> IF ctl[i].from = c
                                     THEN [ctl[i] EXCEPT !.from = "gone"]
                                     ELSE ctl[i]]
    /\ UNCHANGED <<loopVars, bpduVars, handling, managed, other, stp, failed,
                   budget>>

-----------------------------------------------------------------------------
(* mstpd: start and end *)

Boot ==
    /\ \/ loop = "boot" /\ loop' = "init" /\ UNCHANGED timeout
       \/ loop = "init" /\ ~RtnlHeld /\ loop' = "top" /\ timeout' = 1
    /\ UNCHANGED <<late, ready, quit, bpduVars, ctlVars, other, clientVars, budget>>

\* The process ends.  Its sockets are closed: clients that wait get an error.
Reset(c) == IF Waits(c) THEN Client("failed", c.op, 0) ELSE c
Ends ==
    /\ loop' = "off" /\ timeout' = 0 /\ late' = 0 /\ ready' = {} /\ quit' = FALSE
    /\ sock' = <<>> /\ info' = [p \in Ports |-> NoInfo]
    /\ hello' = [p \in Ports |-> 0]
    /\ ctl' = <<>> /\ handling' = NoRequest /\ managed' = FALSE
    /\ other' = IF other = "none" THEN other ELSE "orphan"
    /\ script' = Reset(script)
    /\ job' = [j \in Jobs |-> Reset(job[j])]
    /\ UNCHANGED <<stp, failed>>

\* SIGTERM has set quit: bridge_track_fini, which may set port states.
Fini ==
    /\ \/ loop = "top" /\ quit
       \/ loop = "fini" /\ ~RtnlHeld
    /\ Ends
    /\ UNCHANGED budget

FiniBlocks ==
    /\ loop = "top" /\ quit /\ RtnlHeld
    /\ loop' = "fini"
    /\ UNCHANGED <<timeout, late, ready, quit, bpduVars, ctlVars, other,
                   clientVars, budget>>

Crash ==
    /\ Running
    /\ budget.crashes > 0
    /\ budget' = [budget EXCEPT !.crashes = @ - 1]
    /\ Ends

-----------------------------------------------------------------------------
(* mstpd: the main loop *)

\* nexttimeout after the tick, relative to now; when the tick began, timeout
\* was t.  When mstpd is more than four seconds late the clock is taken to have
\* been changed.
Due(t) == t < 0 \/ t > 1
After(t) == IF t < -4 \/ t > 1 THEN 1 - (t - timeout) ELSE timeout + 1

Ticked == info' = [p \in Ports |-> IF info[p] > 0 THEN info[p] - 1 ELSE info[p]]

\* Mutant: bridge_one_second is called at every turn, due or not.
Tick_everyTurn ==
    /\ loop = "top" /\ ~quit
    /\ Ticked
    /\ timeout' = IF Due(timeout) THEN After(timeout) ELSE timeout
    /\ loop' = "wait"
    /\ UNCHANGED <<late, ready, quit, sock, hello, ctlVars, other, clientVars, budget>>

\* A tick is due: run_timeouts, and then epoll_wait that does not sleep.
Tick ==
    /\ loop = "top" /\ ~quit
    /\ Due(timeout)
    /\ Ticked
    /\ timeout' = After(timeout)
    /\ loop' = "wait"
    /\ UNCHANGED <<late, ready, quit, sock, hello, ctlVars, other, clientVars, budget>>

\* A tick that sets the state of a port while bridge-stp runs.
TickBlocks ==
    /\ loop = "top" /\ ~quit /\ Due(timeout) /\ RtnlHeld
    /\ Ticked
    /\ late' = timeout
    /\ loop' = "tick"
    /\ UNCHANGED <<timeout, ready, quit, sock, hello, ctlVars, other, clientVars,
                   budget>>

TickGoesOn ==
    /\ loop = "tick" /\ ~RtnlHeld
    /\ timeout' = After(late)
    /\ late' = 0
    /\ loop' = "wait"
    /\ UNCHANGED <<ready, quit, bpduVars, ctlVars, other, clientVars, budget>>

NoTick ==
    /\ loop = "top" /\ ~quit /\ ~Due(timeout)
    /\ loop' = "wait"
    /\ UNCHANGED <<timeout, late, ready, quit, bpduVars, ctlVars, other,
                   clientVars, budget>>

\* epoll_wait returns, with the sockets that have something to read.
Wake ==
    /\ loop = "wait" /\ ~Sleeping
    /\ ready' = (IF sock # <<>> THEN {"packet"} ELSE {})
                   \cup (IF ctl # <<>> THEN {"ctl"} ELSE {})
    /\ loop' = IF ready' = {} THEN "top" ELSE "events"
    /\ UNCHANGED <<timeout, late, quit, bpduVars, ctlVars, other, clientVars, budget>>

\* Where the loop is when a handler has returned and h are left.
Left(h) == IF h = {} THEN "top" ELSE "events"

\* packet_rcv reads one BPDU, whatever its port.
packet_rcv ==
    /\ loop = "events" /\ "packet" \in ready
    /\ sock' = Tail(sock)
    /\ info' = [info EXCEPT ![Head(sock)] = InfoTime]
    /\ ready' = ready \ {"packet"}
    /\ \/ loop' = Left(ready')
       \/ RtnlHeld /\ loop' = "stuck"
    /\ UNCHANGED <<timeout, late, quit, hello, ctlVars, other, clientVars, budget>>

PacketGoesOn ==
    /\ loop = "stuck" /\ ~RtnlHeld
    /\ loop' = Left(ready)
    /\ UNCHANGED <<timeout, late, ready, quit, bpduVars, ctlVars, other,
                   clientVars, budget>>

Answer(from) ==
    /\ script' = IF from = "script" THEN [script EXCEPT !.state = "ok", !.wait = 0]
                 ELSE script
    /\ job' = [j \in Jobs |-> IF from = j THEN [job[j] EXCEPT !.state = "ok", !.wait = 0]
                              ELSE job[j]]

\* ctl_rcv_handler: the answer is sent first, handle_message comes later.
ctl_rcv_handler ==
    /\ loop = "events" /\ "ctl" \in ready
    /\ ctl' = Tail(ctl)
    /\ Answer(Head(ctl).from)
    /\ ready' = ready \ {"ctl"}
    /\ \/ /\ managed' = (Head(ctl).op = "add")
          /\ loop' = Left(ready')
          /\ UNCHANGED handling
       \/ /\ RtnlHeld
          /\ handling' = Head(ctl)
          /\ loop' = "handle"
          /\ UNCHANGED managed
    /\ UNCHANGED <<timeout, late, quit, bpduVars, other, stp, failed, budget>>

HandleGoesOn ==
    /\ loop = "handle" /\ ~RtnlHeld
    /\ managed' = (handling.op = "add")
    /\ handling' = NoRequest
    /\ loop' = Left(ready)
    /\ UNCHANGED <<timeout, late, ready, quit, bpduVars, ctl, other, clientVars,
                   budget>>

-----------------------------------------------------------------------------

DaemonInit ==
    /\ other \in {"none", "managed"}
    /\ loop = IF other = "none" THEN "off" ELSE "top"
    /\ timeout = (IF other = "none" THEN 0 ELSE 1) /\ late = 0
    /\ ready = {} /\ quit = FALSE
    /\ sock = <<>>
    /\ info = [p \in Ports |-> IF other = "none" THEN NoInfo ELSE InfoTime]
    /\ hello \in [Ports -> 0..(IF other = "none" THEN 0 ELSE HelloTime - 1)]
    /\ ctl = <<>> /\ handling = NoRequest /\ managed = FALSE
    /\ stp = "none" /\ script = NoClient /\ job = [j \in Jobs |-> NoClient]
    /\ failed = FALSE
    /\ budget = [stalls |-> MaxStall, toggles |-> MaxToggles, crashes |-> MaxCrashes]

LoopStep == \/ Boot \/ Fini \/ FiniBlocks
            \/ Tick \/ TickBlocks \/ TickGoesOn \/ NoTick \/ Wake
            \/ packet_rcv \/ PacketGoesOn \/ ctl_rcv_handler \/ HandleGoesOn
ClientStep == \/ ScriptStartsDaemon \/ ScriptSends \/ ScriptEnds
              \/ \E j \in Jobs : JobSends(j) \/ JobEnds(j)
              \/ \E c \in Jobs \cup {"script"} : GiveUp(c)

DaemonNext == Pass \/ Toggle \/ Crash \/ LoopStep \/ ClientStep

\* mstpd, time and each client go on when they can.
DaemonSpec ==
    /\ DaemonInit /\ [][DaemonNext]_daemonVars
    /\ WF_daemonVars(LoopStep) /\ WF_daemonVars(ClientStep) /\ WF_daemonVars(Pass)

-----------------------------------------------------------------------------
(* Properties *)

\* The BPDUs of all ports share a socket that is read once per turn, after
\* the tick of the turn, so making up for lost time can age out information of
\* a neighbour that has not stopped sending.  It does so only while at least
\* two BPDUs of that neighbour wait to be read: ticks never run ahead of the
\* time that has passed, and once the socket has been read all information of
\* live neighbours is in force again.
InfoLapsesOnlyUnread ==
    \A p \in Ports : info[p] = 0 =>
        \E i, j \in 1..Len(sock) : i # j /\ sock[i] = p /\ sock[j] = p

AtRest == /\ script = NoClient /\ \A j \in Jobs : job[j] = NoClient
          /\ ctl = <<>> /\ loop = "wait" /\ ~quit

\* When nothing is under way, a running mstpd manages the bridge that the kernel
\* leaves to user space, whatever requests were answered before they were
\* executed, executed after mstpctl had given up, or lost with an mstpd that
\* was about to end or has crashed.  Conversely, it manages a bridge that is
\* not left to user space only after an mstpctl has failed or mstpd has crashed.
ModesAgree ==
    AtRest => /\ stp = "user" => managed
              /\ managed /\ ~failed /\ budget.crashes = MaxCrashes
                     => stp = "user"

\* The kernel gets the RTNL lock back from every call of bridge-stp, although
\* mstpd may be waiting for it while bridge-stp waits for mstpd.
RtnlReleased == RtnlHeld ~> ~RtnlHeld
=============================================================================

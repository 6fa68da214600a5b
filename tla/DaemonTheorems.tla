--------------------------- MODULE DaemonTheorems ---------------------------
(***************************************************************************)
(* mstpd and the kernel agree on who runs STP on a bridge once nothing is  *)
(* under way, for every number of background jobs, calls of bridge-stp,    *)
(* stalls and timeouts.                                                    *)
(***************************************************************************)
EXTENDS Daemon, SequenceTheorems, TLAPS

-----------------------------------------------------------------------------
(* Types of the variables that decide who manages the bridge. *)

Ops == {"add", "del"}
Requests == [op: Ops, from: Jobs \cup {"script", "gone"}]
Clients == [state: {"none", "begin", "waiting", "ok", "failed"},
            op: Ops \cup {"none"}, wait: Nat]
Budget == [stalls: Int, toggles: Int, crashes: Int]

DaemonTypeOK ==
    /\ loop \in Positions /\ quit \in BOOLEAN
    /\ ctl \in Seq(Requests) /\ handling \in Requests \cup {NoRequest}
    /\ managed \in BOOLEAN /\ failed \in BOOLEAN
    /\ other \in {"none", "managed", "orphan"}
    /\ stp \in {"none", "user", "kernel"}
    /\ script \in Clients /\ job \in [Jobs -> Clients]
    /\ budget \in Budget

-----------------------------------------------------------------------------
(* The inductive invariant *)

\* Where the main loop is: a process that has ended holds nothing; a request
\* is being handled at one position only; bridge_track_fini follows SIGTERM;
\* the control handler is called when there is a request to read.
Process ==
    /\ loop = "off" => ctl = <<>> /\ handling = NoRequest
    /\ loop = "handle" <=> handling # NoRequest
    /\ loop = "fini" => quit
    /\ "ctl" \in ready => ctl # <<>>

\* The kernel calls bridge-stp to turn STP on only when it is off.
Caller ==
    /\ script.state = "none" <=> script.op = "none"
    /\ script.op = "add" => stp = "none"

\* A request of the calling bridge-stp is in the control socket only while it
\* waits, and nothing but addbridge comes after it; the jobs only add.
Queue ==
    \A i \in 1..Len(ctl) :
        /\ ctl[i].from \in Jobs => ctl[i].op = "add"
        /\ ctl[i].from = "script" =>
               /\ script.state = "waiting" /\ ctl[i].op = script.op
               /\ \A k \in 1..Len(ctl) :
                      k > i => ctl[k].op = "add" /\ ctl[k].from # "script"

\* The kernel has left the bridge to user space, or is about to, and no
\* delbridge has been sent since.
Wanted ==
    \/ stp = "user" /\ script.state \in {"none", "begin"}
    \/ script.state = "ok" /\ script.op = "add"

\* Then no delbridge is left to be read or handled,
NoLateRemoval ==
    Wanted => /\ \A i \in 1..Len(ctl) : ctl[i].op = "add"
              /\ handling.op # "del"

\* and mstpd manages the bridge, or will: a request is left to be read or
\* handled, or, once bridge-stp has returned, a job will send one or undo
\* what it was started for.
Managing == managed \/ ctl # <<>> \/ loop = "handle"
WillManage ==
    /\ Running /\ ~quit /\ script.state = "ok" /\ script.op = "add" => Managing
    /\ Running /\ ~quit /\ script.state = "none" /\ stp = "user"
           => \/ Managing
              \/ \E j \in Jobs : job[j].state \in {"begin", "failed"}

NoCrash == budget.crashes = MaxCrashes

\* mstpd is killed when no other bridge needs it; so, unless it crashes, it
\* runs as long as there is another bridge and nobody has to start it.
Killed ==
    /\ budget.crashes <= MaxCrashes
    /\ quit => other = "none"
    /\ NoCrash => other # "orphan"
    /\ NoCrash /\ other = "managed" =>
           /\ Running /\ \A j \in Jobs : job[j].state = "none"
           /\ \A i \in 1..Len(ctl) : ctl[i].from \notin Jobs

\* As long as no mstpctl has failed, mstpd runs for this bridge alone only
\* until the bridge is removed.
Alone ==
    /\ stp = "kernel" => failed
    /\ NoCrash /\ ~failed /\ other = "none" /\ Running =>
           MANAGE_MSTPD /\ (quit \/ stp = "user")

\* As long as no mstpctl has failed, an mstpd that runs for another bridge too
\* does what the calls of bridge-stp say, one after the other.
WillBeManaged == IF loop = "handle" THEN handling.op = "add" ELSE managed
InTurn ==
    NoCrash /\ ~failed /\ other = "managed" =>
        /\ script.state \in {"none", "begin", "ok"} => ctl = <<>>
        /\ script.state = "waiting" => Len(ctl) = 1 /\ ctl[1].from = "script"
        /\ script.state \in {"none", "begin"} =>
               (WillBeManaged <=> stp = "user")
        /\ script.state = "ok" => (WillBeManaged <=> script.op = "add")

DaemonInv ==
    /\ DaemonTypeOK /\ Process /\ Caller /\ Queue /\ NoLateRemoval
    /\ WillManage /\ Killed /\ Alone /\ InTurn

-----------------------------------------------------------------------------
(* Types *)

LEMMA ClientFields ==
    ASSUME NEW c \in Clients
    PROVE  /\ c.state \in {"none", "begin", "waiting", "ok", "failed"}
           /\ c.op \in Ops \cup {"none"} /\ c.wait \in Nat
           /\ \A v \in {"none", "begin", "waiting", "ok", "failed"} :
                  /\ [c EXCEPT !.state = v] \in Clients
                  /\ [c EXCEPT !.state = v].state = v
                  /\ [c EXCEPT !.state = v].op = c.op
BY DEF Clients

LEMMA NewClient ==
    ASSUME NEW s \in {"none", "begin", "waiting", "ok", "failed"},
           NEW o \in Ops \cup {"none"}, NEW w \in Nat
    PROVE  /\ Client(s, o, w) \in Clients
           /\ Client(s, o, w).state = s /\ Client(s, o, w).op = o
BY DEF Client, Clients

LEMMA NoClientFields ==
    NoClient \in Clients /\ NoClient.state = "none" /\ NoClient.op = "none"
BY NewClient DEF NoClient

\* A second passes for a client.
LEMMA OlderClient ==
    ASSUME NEW c \in Clients
    PROVE  /\ Older(c) \in Clients
           /\ Older(c).state = c.state /\ Older(c).op = c.op
<1>1. c.wait \in Nat BY ClientFields
<1>2. (IF c.wait > 0 THEN c.wait - 1 ELSE 0) \in Nat BY <1>1
<1>3. PICK w \in Nat : Older(c) = [c EXCEPT !.wait = w]
   BY <1>2 DEF Older
<1>4. QED BY <1>3 DEF Clients

\* mstpd ends: a client that waits fails, the others go on.
LEMMA ResetClient ==
    ASSUME NEW c \in Clients
    PROVE  /\ Reset(c) \in Clients
           /\ Reset(c).op = c.op
           /\ Reset(c).state = IF c.state = "waiting" THEN "failed" ELSE c.state
<1>f. c.op \in Ops \cup {"none"} /\ 0 \in Nat BY ClientFields
<1>1. CASE c.state = "waiting"
  <2>1. Reset(c) = Client("failed", c.op, 0) BY <1>1 DEF Reset, Waits
  <2>2. QED BY <1>1, <1>f, <2>1, NewClient
<1>2. CASE c.state # "waiting" BY <1>2 DEF Reset, Waits
<1>3. QED BY <1>1, <1>2

\* An answer reaches the client it is for.
LEMMA AnsweredClient ==
    ASSUME NEW c \in Clients
    PROVE  /\ [c EXCEPT !.state = "ok", !.wait = 0] \in Clients
           /\ [c EXCEPT !.state = "ok", !.wait = 0].state = "ok"
           /\ [c EXCEPT !.state = "ok", !.wait = 0].op = c.op
BY DEF Clients

LEMMA AnswerFields ==
    ASSUME script \in Clients, job \in [Jobs -> Clients], NEW from, Answer(from)
    PROVE  /\ script' \in Clients /\ script'.op = script.op
           /\ script'.state = IF from = "script" THEN "ok" ELSE script.state
           /\ job' \in [Jobs -> Clients]
           /\ \A j \in Jobs :
                  job'[j].state = IF from = j THEN "ok" ELSE job[j].state
<1>1. /\ script' \in Clients /\ script'.op = script.op
      /\ script'.state = IF from = "script" THEN "ok" ELSE script.state
   BY AnsweredClient DEF Answer
<1>2. ASSUME NEW j \in Jobs
      PROVE  /\ job'[j] \in Clients
             /\ job'[j].state = IF from = j THEN "ok" ELSE job[j].state
  <2>1. job[j] \in Clients OBVIOUS
  <2>2. job'[j] = IF from = j THEN [job[j] EXCEPT !.state = "ok", !.wait = 0]
                  ELSE job[j]
     BY DEF Answer
  <2>3. QED BY <2>1, <2>2, AnsweredClient
<1>3. job' = [j \in Jobs |-> job'[j]] BY DEF Answer
<1>4. QED BY <1>1, <1>2, <1>3

LEMMA BudgetFields ==
    ASSUME budget \in Budget
    PROVE  /\ budget.crashes \in Int
           /\ [budget EXCEPT !.stalls = @ - 1] \in Budget
           /\ [budget EXCEPT !.stalls = @ - 1].crashes = budget.crashes
           /\ [budget EXCEPT !.toggles = @ - 1] \in Budget
           /\ [budget EXCEPT !.toggles = @ - 1].crashes = budget.crashes
           /\ [budget EXCEPT !.crashes = @ - 1] \in Budget
           /\ [budget EXCEPT !.crashes = @ - 1].crashes = budget.crashes - 1
BY DEF Budget

\* STP is turned on or off.
LEMMA StpStateFields ==
    ASSUME NEW on \in BOOLEAN, StpState(on), script \in Clients,
           stp \in {"none", "user", "kernel"}
    PROVE  /\ script' \in Clients /\ stp' \in {"none", "user", "kernel"}
           /\ \/ stp = "kernel" /\ stp' = "none" /\ script' = script
              \/ /\ stp' = stp /\ script'.state = "begin"
                 /\ script'.op = IF on THEN "add" ELSE "del"
<1>1. CASE ~on /\ stp = "kernel" BY <1>1 DEF StpState
<1>2. CASE ~(~on /\ stp = "kernel")
  <2>1. stp' = stp /\ script' = Client("begin", IF on THEN "add" ELSE "del", 0)
     BY <1>2 DEF StpState
  <2>2. (IF on THEN "add" ELSE "del") \in Ops BY DEF Ops
  <2>3. QED BY <2>1, <2>2, NewClient
<1>3. QED BY <1>1, <1>2

\* bridge-stp exits.
LEMMA ExitFields ==
    ASSUME NEW rc \in {0, 3}, Exit(rc), failed \in BOOLEAN
    PROVE  /\ script' \in Clients /\ script'.state = "none"
           /\ script'.op = "none"
           /\ stp' = IF script.op = "del" THEN "none"
                     ELSE IF rc = 0 THEN "user" ELSE "kernel"
           /\ failed' \in BOOLEAN /\ (rc = 3 => failed')
           /\ (rc = 0 => failed' = failed)
<1>1. /\ script' \in Clients /\ script'.state = "none" /\ script'.op = "none"
      /\ stp' = IF script.op = "del" THEN "none"
                ELSE IF rc = 0 THEN "user" ELSE "kernel"
   BY NoClientFields DEF Exit
<1>2. CASE rc = 3
  <2>1. (failed \/ rc # 0) = TRUE BY <1>2
  <2>2. failed' = TRUE BY <2>1 DEF Exit
  <2>3. QED BY <1>1, <1>2, <2>2
<1>3. CASE rc = 0
  <2>1. (failed \/ rc # 0) = failed BY <1>3
  <2>2. failed' = failed BY <2>1 DEF Exit
  <2>3. QED BY <1>1, <1>3, <2>2
<1>4. QED BY <1>2, <1>3

-----------------------------------------------------------------------------
(* Steps that leave the requests and the clients alone *)

LEMMA KeptSuffices ==
    ASSUME DaemonInv,
           UNCHANGED <<quit, ctl, handling, managed, other, stp, failed>>,
           script' \in Clients, job' \in [Jobs -> Clients], budget' \in Budget,
           script'.state = script.state, script'.op = script.op,
           \A j \in Jobs : job'[j].state = job[j].state,
           budget'.crashes = budget.crashes,
           "ctl" \in ready' => "ctl" \in ready \/ ctl # <<>>,
           \/ loop' = loop
           \/ /\ loop \notin {"off", "handle"}
              /\ loop' \in Positions \ {"off", "handle"}
              /\ loop' = "fini" => quit
    PROVE  DaemonInv'
<1>1. DaemonTypeOK' BY DEF DaemonInv, DaemonTypeOK
<1>2. Process' BY DEF DaemonInv, Process
<1>3. Caller' BY DEF DaemonInv, Caller
<1>4. Queue' BY DEF DaemonInv, Queue
<1>5. NoLateRemoval' BY DEF DaemonInv, NoLateRemoval, Wanted
<1>6. Running' = Running /\ (loop' = "handle") = (loop = "handle")
   BY DEF Running
<1>7. WillManage' BY <1>6 DEF DaemonInv, WillManage, Managing
<1>8. Killed' BY <1>6 DEF DaemonInv, Killed, NoCrash
<1>9. Alone' BY <1>6 DEF DaemonInv, Alone, NoCrash
<1>10. InTurn' BY <1>6 DEF DaemonInv, InTurn, NoCrash, WillBeManaged
<1>11. QED
   BY <1>1, <1>2, <1>3, <1>4, <1>5, <1>7, <1>8, <1>9, <1>10 DEF DaemonInv

\* Most of the main loop.
LEMMA LoopKept ==
    ASSUME DaemonInv,
           \/ Boot \/ FiniBlocks \/ Tick \/ TickBlocks \/ TickGoesOn \/ NoTick
           \/ Wake \/ packet_rcv \/ PacketGoesOn
    PROVE  DaemonInv'
<1>t. /\ script \in Clients /\ job \in [Jobs -> Clients] /\ budget \in Budget
   BY DEF DaemonInv, DaemonTypeOK
<1>1. UNCHANGED <<quit, ctl, handling, managed, other, stp, failed, script,
                  job, budget>>
   BY DEF Boot, FiniBlocks, Tick, TickBlocks, TickGoesOn, NoTick, Wake,
          packet_rcv, PacketGoesOn, ctlVars, clientVars
<1>2. /\ loop \notin {"off", "handle"}
      /\ loop' \in Positions \ {"off", "handle"}
      /\ loop' = "fini" => quit
   BY DEF Boot, FiniBlocks, Tick, TickBlocks, TickGoesOn, NoTick, Wake,
          packet_rcv, PacketGoesOn, Positions, Left
<1>3. "ctl" \in ready' => "ctl" \in ready \/ ctl # <<>>
   BY DEF Boot, FiniBlocks, Tick, TickBlocks, TickGoesOn, NoTick, Wake,
          packet_rcv, PacketGoesOn
<1>4. QED BY <1>t, <1>1, <1>2, <1>3, KeptSuffices

\* Time passes.
LEMMA PassKept ==
    ASSUME DaemonInv, Pass
    PROVE  DaemonInv'
<1>t. /\ script \in Clients /\ job \in [Jobs -> Clients] /\ budget \in Budget
   BY DEF DaemonInv, DaemonTypeOK
<1>1. UNCHANGED <<loop, ready, quit, ctl, handling, managed, other, stp, failed>>
   BY DEF Pass, ctlVars
<1>2. budget' \in Budget /\ budget'.crashes = budget.crashes
   BY <1>t, BudgetFields DEF Pass
<1>3. /\ script' \in Clients /\ script'.state = script.state
      /\ script'.op = script.op
   BY <1>t, OlderClient DEF Pass
<1>4. /\ job' \in [Jobs -> Clients]
      /\ \A j \in Jobs : job'[j].state = job[j].state
  <2>1. job' = [j \in Jobs |-> Older(job[j])] BY DEF Pass
  <2>2. \A j \in Jobs : Older(job[j]) \in Clients
                        /\ Older(job[j]).state = job[j].state
     BY <1>t, OlderClient
  <2>3. QED BY <2>1, <2>2
<1>5. QED BY <1>1, <1>2, <1>3, <1>4, KeptSuffices

-----------------------------------------------------------------------------
(* bridge-stp is called, mstpd ends *)

LEMMA ToggleKept ==
    ASSUME DaemonInv, Toggle
    PROVE  DaemonInv'
<1>t. /\ script \in Clients /\ budget \in Budget
      /\ stp \in {"none", "user", "kernel"}
   BY DEF DaemonInv, DaemonTypeOK
<1>1. UNCHANGED <<loop, ready, quit, ctl, handling, managed, other, job, failed>>
   BY DEF Toggle, loopVars, ctlVars
<1>2. budget' \in Budget /\ budget'.crashes = budget.crashes
   BY <1>t, BudgetFields DEF Toggle
<1>3. script.state = "none" BY DEF Toggle, RtnlHeld
<1>4. /\ script' \in Clients /\ stp' \in {"none", "user", "kernel"}
      /\ \/ stp = "kernel" /\ stp' = "none" /\ script' = script
         \/ /\ stp' = stp /\ script'.state = "begin"
            /\ script'.op = IF stp = "none" THEN "add" ELSE "del"
  <2>1. (stp = "none") \in BOOLEAN OBVIOUS
  <2>2. StpState(stp = "none") BY DEF Toggle
  <2>3. QED BY <1>t, <2>1, <2>2, StpStateFields
<1>5. DaemonTypeOK' BY <1>1, <1>2, <1>4 DEF DaemonInv, DaemonTypeOK
<1>6. Process' BY <1>1 DEF DaemonInv, Process
<1>7. Caller' BY <1>3, <1>4 DEF DaemonInv, Caller
<1>8. Queue' BY <1>1, <1>3 DEF DaemonInv, Queue
<1>9. NoLateRemoval'
   BY <1>1, <1>3, <1>4 DEF DaemonInv, NoLateRemoval, Wanted
<1>10. WillManage' BY <1>1, <1>3, <1>4 DEF DaemonInv, WillManage
<1>11. Killed' BY <1>1, <1>2 DEF DaemonInv, Killed, NoCrash, Running
<1>12. Alone'
   BY <1>1, <1>2, <1>4 DEF DaemonInv, Alone, NoCrash, Running
<1>13. InTurn'
   BY <1>1, <1>2, <1>3, <1>4
   DEF DaemonInv, InTurn, NoCrash, WillBeManaged, Alone
<1>14. QED
   BY <1>5, <1>6, <1>7, <1>8, <1>9, <1>10, <1>11, <1>12, <1>13 DEF DaemonInv

\* The process ends by itself or crashes.
LEMMA EndsKept ==
    ASSUME DaemonInv, Fini \/ Crash
    PROVE  DaemonInv'
<1>t. /\ script \in Clients /\ job \in [Jobs -> Clients] /\ budget \in Budget
      /\ other \in {"none", "managed", "orphan"}
   BY DEF DaemonInv, DaemonTypeOK
<1>1. /\ loop' = "off" /\ ready' = {} /\ quit' = FALSE /\ ctl' = <<>>
      /\ handling' = NoRequest /\ managed' = FALSE /\ stp' = stp
      /\ failed' = failed
      /\ other' = IF other = "none" THEN other ELSE "orphan"
   BY DEF Fini, Crash, Ends
<1>2. script' = Reset(script) /\ job' = [j \in Jobs |-> Reset(job[j])]
   BY DEF Fini, Crash, Ends
<1>3. /\ script' \in Clients /\ script'.op = script.op
      /\ script'.state = IF script.state = "waiting" THEN "failed"
                         ELSE script.state
   BY <1>t, <1>2, ResetClient
<1>4. job' \in [Jobs -> Clients]
  <2>1. \A j \in Jobs : Reset(job[j]) \in Clients BY <1>t, ResetClient
  <2>2. QED BY <1>2, <2>1
<1>5. /\ budget' \in Budget
      /\ \/ Fini /\ budget' = budget
         \/ budget'.crashes = budget.crashes - 1
   BY <1>t, BudgetFields DEF Fini, Crash
<1>6. DaemonTypeOK'
  <2>1. <<>> \in Seq(Requests) /\ loop' \in Positions
     BY <1>1 DEF Positions
  <2>2. QED
     BY <1>1, <1>3, <1>4, <1>5, <2>1 DEF DaemonInv, DaemonTypeOK
<1>7. Process' BY <1>1 DEF Process
<1>8. Caller' BY <1>1, <1>3 DEF DaemonInv, Caller
<1>9. Queue' BY <1>1 DEF Queue
<1>10. NoLateRemoval' BY <1>1 DEF NoLateRemoval, NoRequest
<1>11. WillManage' BY <1>1 DEF WillManage, Running
<1>12. Killed'
  <2>1. budget.crashes <= MaxCrashes /\ MaxCrashes \in Nat
        /\ budget.crashes \in Int
     BY <1>t, BudgetFields, DaemonAssumption DEF DaemonInv, Killed
  <2>2. Fini => other = "none" BY DEF Fini, DaemonInv, Process, Killed
  <2>3. NoCrash' => Fini /\ NoCrash BY <1>5, <2>1 DEF NoCrash
  <2>4. budget'.crashes <= MaxCrashes BY <1>5, <2>1
  <2>5. NoCrash' => other' = "none" BY <1>1, <2>2, <2>3
  <2>6. QED BY <1>1, <2>4, <2>5 DEF Killed
<1>13. Alone' BY <1>1 DEF DaemonInv, Alone, Running
<1>14. InTurn' BY <1>1 DEF InTurn
<1>15. QED
   BY <1>6, <1>7, <1>8, <1>9, <1>10, <1>11, <1>12, <1>13, <1>14 DEF DaemonInv

-----------------------------------------------------------------------------
(* bridge-stp and mstpctl *)

\* bridge-stp starts mstpd, or fails.
LEMMA StartKept ==
    ASSUME DaemonInv, ScriptStartsDaemon
    PROVE  DaemonInv'
<1>t. /\ job \in [Jobs -> Clients] /\ failed \in BOOLEAN
      /\ other \in {"none", "managed", "orphan"}
   BY DEF DaemonInv, DaemonTypeOK
<1>1. UNCHANGED <<ready, quit, ctl, handling, managed, other, budget>>
   BY DEF ScriptStartsDaemon, ctlVars
<1>2. script.state = "begin" /\ script.op = "add" /\ loop = "off"
   BY DEF ScriptStartsDaemon, Running
<1>3. /\ stp = "none" /\ ctl = <<>> /\ handling = NoRequest
      /\ "ctl" \notin ready
   BY <1>2 DEF DaemonInv, Caller, Process
<1>4. CASE MANAGE_MSTPD /\ loop' = "boot" /\ Exit(0)
           /\ \E j \in Jobs : job' = [job EXCEPT ![j] = Client("begin", "add", 1)]
  <2>1. /\ script' \in Clients /\ script'.state = "none"
        /\ script'.op = "none" /\ stp' = "user" /\ failed' = failed
     BY <1>2, <1>4, <1>t, ExitFields
  <2>2. PICK j \in Jobs : job' = [job EXCEPT ![j] = Client("begin", "add", 1)]
     BY <1>4
  <2>3. Client("begin", "add", 1) \in Clients
        /\ Client("begin", "add", 1).state = "begin"
     BY NewClient DEF Ops
  <2>4. job' \in [Jobs -> Clients] /\ job'[j].state = "begin"
     BY <1>t, <2>2, <2>3
  <2>5. DaemonTypeOK'
     BY <1>1, <1>4, <2>1, <2>4 DEF DaemonInv, DaemonTypeOK, Positions
  <2>6. Process' BY <1>1, <1>3, <1>4 DEF Process
  <2>7. Caller' BY <2>1 DEF Caller
  <2>8. Queue' BY <1>1, <1>3 DEF Queue
  <2>9. NoLateRemoval' BY <1>1, <1>3 DEF NoLateRemoval, NoRequest
  <2>10. WillManage' BY <2>1, <2>4 DEF WillManage
  <2>11. NoCrash => other = "none"
     BY <1>2, <1>t DEF DaemonInv, Killed, Running
  <2>12. Killed' BY <1>1, <2>11 DEF DaemonInv, Killed, NoCrash
  <2>13. Alone' BY <1>4, <2>1 DEF Alone
  <2>14. InTurn' BY <1>1, <2>11 DEF InTurn, NoCrash
  <2>15. QED
     BY <2>5, <2>6, <2>7, <2>8, <2>9, <2>10, <2>12, <2>13, <2>14 DEF DaemonInv
<1>5. CASE loop' = loop /\ job' = job /\ Exit(3)
  <2>1. /\ script' \in Clients /\ script'.state = "none"
        /\ script'.op = "none" /\ stp' = "kernel" /\ failed'
        /\ failed' \in BOOLEAN
     BY <1>2, <1>5, <1>t, ExitFields
  <2>2. DaemonTypeOK' BY <1>1, <1>5, <2>1 DEF DaemonInv, DaemonTypeOK
  <2>3. Process' BY <1>1, <1>5 DEF DaemonInv, Process
  <2>4. Caller' BY <2>1 DEF Caller
  <2>5. Queue' BY <1>1, <1>3 DEF Queue
  <2>6. NoLateRemoval' BY <2>1 DEF NoLateRemoval, Wanted
  <2>7. WillManage' BY <2>1 DEF WillManage
  <2>8. Killed' BY <1>1, <1>5 DEF DaemonInv, Killed, NoCrash, Running
  <2>9. Alone' /\ InTurn' BY <2>1 DEF Alone, InTurn
  <2>10. QED
     BY <2>2, <2>3, <2>4, <2>5, <2>6, <2>7, <2>8, <2>9 DEF DaemonInv
<1>6. QED BY <1>4, <1>5 DEF ScriptStartsDaemon

\* A request is put at the end of the control socket.
LEMMA SendFields ==
    ASSUME DaemonTypeOK, NEW op \in Ops, NEW from \in Jobs \cup {"script"},
           Send(op, from)
    PROVE  /\ ctl' \in Seq(Requests) /\ Len(ctl') = Len(ctl) + 1 /\ ctl' # <<>>
           /\ Len(ctl) \in Nat
           /\ ctl'[Len(ctl) + 1].op = op /\ ctl'[Len(ctl) + 1].from = from
           /\ \A i \in 1..Len(ctl) : ctl'[i] = ctl[i]
<1>1. ctl \in Seq(Requests) /\ ctl' = Append(ctl, [op |-> op, from |-> from])
   BY DEF DaemonTypeOK, Send
<1>2. [op |-> op, from |-> from] \in Requests BY DEF Requests
<1>3. QED BY <1>1, <1>2

\* bridge-stp sends its request.
LEMMA ScriptSendsKept ==
    ASSUME DaemonInv, ScriptSends
    PROVE  DaemonInv'
<1>t. /\ DaemonTypeOK /\ script \in Clients /\ failed \in BOOLEAN
   BY DEF DaemonInv, DaemonTypeOK
<1>1. UNCHANGED <<loop, ready, quit, handling, managed, other, job, budget>>
   BY DEF ScriptSends, loopVars
<1>2. script.state = "begin" /\ script.op \in Ops
   BY <1>t, ClientFields DEF ScriptSends, DaemonInv, Caller
<1>3. CASE Listens
  <2>1. Send(script.op, "script") /\ stp' = stp /\ failed' = failed
        /\ script' = Client("waiting", script.op, ClientTimeout)
     BY <1>3 DEF ScriptSends
  <2>2. ClientTimeout \in Nat BY DaemonAssumption
  <2>3. /\ script' \in Clients /\ script'.state = "waiting"
        /\ script'.op = script.op
     BY <1>2, <2>1, <2>2, NewClient
  <2>4. /\ ctl' \in Seq(Requests) /\ Len(ctl') = Len(ctl) + 1 /\ ctl' # <<>>
        /\ Len(ctl) \in Nat
        /\ ctl'[Len(ctl) + 1].op = script.op
        /\ ctl'[Len(ctl) + 1].from = "script"
        /\ \A i \in 1..Len(ctl) : ctl'[i] = ctl[i]
     BY <1>2, <1>t, <2>1, SendFields
  <2>5. DaemonTypeOK' BY <1>1, <2>1, <2>3, <2>4 DEF DaemonInv, DaemonTypeOK
  <2>6. Process' BY <1>1, <1>3, <2>4 DEF DaemonInv, Process, Listens
  <2>7. Caller' BY <1>2, <2>1, <2>3 DEF DaemonInv, Caller, Ops
  <2>8. Queue'
    <3> SUFFICES ASSUME NEW i \in 1..Len(ctl')
                 PROVE  /\ ctl'[i].from \in Jobs => ctl'[i].op = "add"
                        /\ ctl'[i].from = "script" =>
                             /\ script'.state = "waiting"
                             /\ ctl'[i].op = script'.op
                             /\ \A k \in 1..Len(ctl') : k > i =>
                                  /\ ctl'[k].op = "add"
                                  /\ ctl'[k].from # "script"
       BY DEF Queue
    <3>1. CASE i \in 1..Len(ctl)
       BY <1>2, <2>4, <3>1 DEF DaemonInv, Queue
    <3>2. CASE i = Len(ctl) + 1
       BY <2>3, <2>4, <3>2, DaemonAssumption
    <3>3. QED BY <2>4, <3>1, <3>2
  <2>9. NoLateRemoval' /\ WillManage'
     BY <2>3 DEF NoLateRemoval, Wanted, WillManage
  <2>10. Killed'
     BY <1>1, <2>4, DaemonAssumption DEF DaemonInv, Killed, NoCrash, Running
  <2>11. Alone' BY <1>1, <2>1 DEF DaemonInv, Alone, NoCrash, Running
  <2>12. InTurn'
    <3>1. NoCrash /\ ~failed /\ other = "managed" => Len(ctl) = 0
       BY <1>2, <1>t DEF DaemonInv, InTurn
    <3>2. QED BY <1>1, <2>1, <2>3, <2>4, <3>1 DEF InTurn, NoCrash
  <2>13. QED
     BY <2>5, <2>6, <2>7, <2>8, <2>9, <2>10, <2>11, <2>12 DEF DaemonInv
<1>4. CASE ~Listens
  <2>1. ctl' = ctl /\ Exit(3) BY <1>4 DEF ScriptSends
  <2>2. /\ script' \in Clients /\ script'.state = "none"
        /\ script'.op = "none" /\ stp' \in {"none", "kernel"} /\ failed'
        /\ failed' \in BOOLEAN
     BY <1>t, <2>1, ExitFields
  <2>3. DaemonTypeOK' BY <1>1, <2>1, <2>2 DEF DaemonInv, DaemonTypeOK
  <2>4. Process' BY <1>1, <2>1 DEF DaemonInv, Process
  <2>5. Caller' BY <2>2 DEF Caller
  <2>6. Queue' BY <1>2, <2>1 DEF DaemonInv, Queue
  <2>7. NoLateRemoval' /\ WillManage'
     BY <2>2 DEF NoLateRemoval, Wanted, WillManage
  <2>8. Killed' BY <1>1, <2>1 DEF DaemonInv, Killed, NoCrash, Running
  <2>9. Alone' /\ InTurn' BY <2>2 DEF Alone, InTurn
  <2>10. QED BY <2>3, <2>4, <2>5, <2>6, <2>7, <2>8, <2>9 DEF DaemonInv
<1>5. QED BY <1>3, <1>4

\* bridge-stp ends, and kills mstpd after the last bridge is removed.
LEMMA ScriptEndsKept ==
    ASSUME DaemonInv, ScriptEnds
    PROVE  DaemonInv'
<1>t. /\ script \in Clients /\ failed \in BOOLEAN /\ quit \in BOOLEAN
      /\ MANAGE_MSTPD \in BOOLEAN
   BY DaemonAssumption DEF DaemonInv, DaemonTypeOK
<1>1. UNCHANGED <<loop, ready, ctl, handling, managed, other, job, budget>>
   BY DEF ScriptEnds, ctlVars
<1>2. script.state \in {"ok", "failed"} /\ script.op \in Ops
   BY <1>t, ClientFields DEF ScriptEnds, DaemonInv, Caller
<1>3. /\ quit' \in BOOLEAN /\ (quit => quit') /\ (quit' => quit \/ other = "none")
      /\ script.state = "ok" /\ script.op = "del" /\ MANAGE_MSTPD
            /\ other = "none" /\ Running => quit'
   BY <1>t DEF ScriptEnds
<1>4. /\ script' \in Clients /\ script'.state = "none" /\ script'.op = "none"
      /\ failed' \in BOOLEAN
      /\ \/ /\ script.state = "failed" /\ failed'
            /\ stp' \in {"none", "kernel"}
         \/ /\ script.state = "ok" /\ failed' = failed
            /\ stp' = IF script.op = "add" THEN "user" ELSE "none"
  <2>1. CASE script.state = "failed"
    <3>1. Exit(3) BY <2>1 DEF ScriptEnds
    <3>2. QED BY <1>t, <2>1, <3>1, ExitFields
  <2>2. CASE script.state = "ok"
    <3>1. Exit(0) BY <2>2 DEF ScriptEnds
    <3>2. QED BY <1>t, <1>2, <2>2, <3>1, ExitFields DEF Ops
  <2>3. QED BY <1>2, <2>1, <2>2
<1>5. DaemonTypeOK' BY <1>1, <1>3, <1>4 DEF DaemonInv, DaemonTypeOK
<1>6. Process' BY <1>1, <1>3 DEF DaemonInv, Process
<1>7. Caller' BY <1>4 DEF Caller
<1>8. Queue' BY <1>1, <1>2 DEF DaemonInv, Queue
<1>9. NoLateRemoval'
   BY <1>1, <1>4 DEF DaemonInv, NoLateRemoval, Wanted
<1>10. WillManage'
   BY <1>1, <1>3, <1>4 DEF DaemonInv, WillManage, Managing, Running
<1>11. Killed' BY <1>1, <1>3 DEF DaemonInv, Killed, NoCrash, Running
<1>12. Alone'
   BY <1>1, <1>2, <1>3, <1>4 DEF DaemonInv, Alone, NoCrash, Running, Ops
<1>13. InTurn'
   BY <1>1, <1>2, <1>4 DEF DaemonInv, InTurn, NoCrash, WillBeManaged
<1>14. QED
   BY <1>5, <1>6, <1>7, <1>8, <1>9, <1>10, <1>11, <1>12, <1>13 DEF DaemonInv

\* A job sends its request, or fails.
LEMMA JobSendsKept ==
    ASSUME DaemonInv, NEW j \in Jobs, JobSends(j)
    PROVE  DaemonInv'
<1>t. DaemonTypeOK /\ job \in [Jobs -> Clients]
   BY DEF DaemonInv, DaemonTypeOK
<1>1. UNCHANGED <<loop, ready, quit, handling, managed, other, stp, script,
                  failed, budget>>
   BY DEF JobSends, loopVars
<1>2. job[j].state = "begin" BY DEF JobSends
<1>3. ~(NoCrash /\ other = "managed") BY <1>2 DEF DaemonInv, Killed
<1>4. \/ /\ ctl' = ctl /\ job'[j].state = "failed"
      \/ /\ ctl' \in Seq(Requests) /\ Len(ctl') = Len(ctl) + 1 /\ ctl' # <<>>
         /\ Len(ctl) \in Nat /\ loop # "off"
         /\ ctl'[Len(ctl) + 1].op = "add" /\ ctl'[Len(ctl) + 1].from = j
         /\ \A i \in 1..Len(ctl) : ctl'[i] = ctl[i]
  <2>1. CASE Listens
    <3>1. Send("add", j) BY <2>1 DEF JobSends
    <3>2. QED BY <1>t, <2>1, <3>1, SendFields DEF Ops, Listens
  <2>2. CASE ~Listens
    <3>1. ctl' = ctl /\ job' = [job EXCEPT ![j] = Client("failed", "add", 0)]
       BY <2>2 DEF JobSends
    <3>2. QED BY <1>t, <3>1, NewClient DEF Ops
  <2>3. QED BY <2>1, <2>2
<1>5. /\ job' \in [Jobs -> Clients]
      /\ \A k \in Jobs \ {j} : job'[k] = job[k]
  <2>1. PICK c \in Clients : job' = [job EXCEPT ![j] = c]
    <3>1. /\ Client("waiting", "add", ClientTimeout) \in Clients
          /\ Client("failed", "add", 0) \in Clients
       BY NewClient, DaemonAssumption DEF Ops
    <3>2. QED BY <3>1 DEF JobSends
  <2>2. QED BY <1>t, <2>1
<1>6. DaemonTypeOK' BY <1>1, <1>4, <1>5 DEF DaemonInv, DaemonTypeOK
<1>7. Process' BY <1>1, <1>4 DEF DaemonInv, Process
<1>8. Caller' BY <1>1 DEF DaemonInv, Caller
<1>9. j # "script" BY DaemonAssumption
<1>10. Queue'
  <2>1. CASE ctl' = ctl BY <1>1, <2>1 DEF DaemonInv, Queue
  <2>2. CASE ctl' # ctl
    <3> SUFFICES ASSUME NEW i \in 1..Len(ctl')
                 PROVE  /\ ctl'[i].from \in Jobs => ctl'[i].op = "add"
                        /\ ctl'[i].from = "script" =>
                             /\ script'.state = "waiting"
                             /\ ctl'[i].op = script'.op
                             /\ \A k \in 1..Len(ctl') : k > i =>
                                  /\ ctl'[k].op = "add"
                                  /\ ctl'[k].from # "script"
       BY DEF Queue
    <3>1. CASE i \in 1..Len(ctl)
       BY <1>1, <1>4, <1>9, <2>2, <3>1 DEF DaemonInv, Queue
    <3>2. CASE i = Len(ctl) + 1 BY <1>4, <1>9, <2>2, <3>2
    <3>3. QED BY <1>4, <2>2, <3>1, <3>2
  <2>3. QED BY <2>1, <2>2
<1>11. NoLateRemoval' BY <1>1, <1>4 DEF DaemonInv, NoLateRemoval, Wanted
<1>12. WillManage'
   BY <1>1, <1>4 DEF DaemonInv, WillManage, Managing, Running
<1>13. Killed' BY <1>1, <1>3 DEF DaemonInv, Killed, NoCrash
<1>14. Alone' BY <1>1 DEF DaemonInv, Alone, NoCrash, Running
<1>15. InTurn' BY <1>1, <1>3 DEF InTurn, NoCrash
<1>16. QED
   BY <1>6, <1>7, <1>8, <1>10, <1>11, <1>12, <1>13, <1>14, <1>15 DEF DaemonInv

\* A job ends; when addbridge has failed it turns STP off.
LEMMA JobEndsKept ==
    ASSUME DaemonInv, NEW j \in Jobs, JobEnds(j)
    PROVE  DaemonInv'
<1>t. /\ job \in [Jobs -> Clients] /\ script \in Clients /\ failed \in BOOLEAN
      /\ stp \in {"none", "user", "kernel"}
   BY DEF DaemonInv, DaemonTypeOK
<1>1. UNCHANGED <<loop, ready, quit, ctl, handling, managed, other, budget>>
   BY DEF JobEnds, loopVars, ctlVars
<1>2. job[j].state \in {"ok", "failed"} BY DEF JobEnds
<1>3. ~(NoCrash /\ other = "managed") BY <1>2 DEF DaemonInv, Killed
<1>4. /\ job' \in [Jobs -> Clients]
      /\ \A k \in Jobs \ {j} : job'[k] = job[k]
   BY <1>t, NoClientFields DEF JobEnds
<1>5. failed' \in BOOLEAN /\ (failed => failed') BY <1>t DEF JobEnds
<1>6. \/ stp' = stp /\ script' = script /\ (job[j].state = "ok" \/ stp = "none")
      \/ /\ script.state = "none" /\ script' \in Clients
         /\ stp' \in {"none", "user", "kernel"}
         /\ \/ stp = "kernel" /\ stp' = "none" /\ script' = script
            \/ /\ stp' = stp /\ script'.state = "begin" /\ script'.op = "del"
  <2>1. CASE job[j].state = "failed" /\ stp # "none"
    <3>1. StpState(FALSE) /\ script.state = "none"
       BY <2>1 DEF JobEnds, RtnlHeld
    <3>2. QED BY <1>t, <3>1, StpStateFields
  <2>2. CASE ~(job[j].state = "failed" /\ stp # "none")
     BY <1>2, <2>2 DEF JobEnds
  <2>3. QED BY <2>1, <2>2
<1>7. DaemonTypeOK'
   BY <1>1, <1>4, <1>5, <1>6, <1>t DEF DaemonInv, DaemonTypeOK
<1>8. Process' BY <1>1 DEF DaemonInv, Process
<1>9. Caller' BY <1>6 DEF DaemonInv, Caller
<1>10. Queue' BY <1>1, <1>6 DEF DaemonInv, Queue
<1>11. NoLateRemoval' BY <1>1, <1>6 DEF DaemonInv, NoLateRemoval, Wanted
<1>12. WillManage'
   BY <1>1, <1>2, <1>4, <1>6
   DEF DaemonInv, WillManage, Managing, Running
<1>13. Killed' BY <1>1, <1>3 DEF DaemonInv, Killed, NoCrash
<1>14. Alone' BY <1>1, <1>5, <1>6 DEF DaemonInv, Alone, NoCrash, Running
<1>15. InTurn' BY <1>1, <1>3 DEF InTurn, NoCrash
<1>16. QED
   BY <1>7, <1>8, <1>9, <1>10, <1>11, <1>12, <1>13, <1>14, <1>15 DEF DaemonInv

\* An mstpctl gives up; its request stays where it is.
LEMMA GiveUpKept ==
    ASSUME DaemonInv, NEW c \in Jobs \cup {"script"}, GiveUp(c)
    PROVE  DaemonInv'
<1>t. /\ job \in [Jobs -> Clients] /\ script \in Clients
      /\ ctl \in Seq(Requests)
   BY DEF DaemonInv, DaemonTypeOK
<1>1. UNCHANGED <<loop, ready, quit, handling, managed, other, stp, failed,
                  budget>>
   BY DEF GiveUp, loopVars
<1>2. /\ ctl' \in Seq(Requests) /\ Len(ctl') = Len(ctl) /\ Len(ctl) \in Nat
      /\ \A i \in 1..Len(ctl) :
             /\ ctl'[i].op = ctl[i].op
             /\ ctl'[i].from = IF ctl[i].from = c THEN "gone" ELSE ctl[i].from
  <2> DEFINE gone(i) == IF ctl[i].from = c THEN [ctl[i] EXCEPT !.from = "gone"]
                        ELSE ctl[i]
  <2>1. \A i \in 1..Len(ctl) :
            /\ gone(i) \in Requests /\ gone(i).op = ctl[i].op
            /\ gone(i).from = IF ctl[i].from = c THEN "gone" ELSE ctl[i].from
    <3> TAKE i \in 1..Len(ctl)
    <3>1. ctl[i] \in Requests BY <1>t
    <3>2. QED BY <3>1 DEF Requests
  <2>2. ctl' = [i \in 1..Len(ctl) |-> gone(i)] BY DEF GiveUp
  <2> HIDE DEF gone
  <2>3. Len(ctl) \in Nat BY <1>t
  <2>4. ctl' \in Seq(Requests) /\ Len(ctl') = Len(ctl)
     BY <2>1, <2>2, <2>3
  <2>5. QED BY <2>1, <2>2, <2>3, <2>4
<1>3. (ctl' = <<>>) = (ctl = <<>>)
   BY <1>2, <1>t, EmptySeq
<1>4. CASE c = "script"
  <2>1. script.state = "waiting" /\ job' = job
        /\ script' = [script EXCEPT !.state = "failed"]
     BY <1>4 DEF GiveUp, Waits
  <2>2. script' \in Clients /\ script'.state = "failed" /\ script'.op = script.op
     BY <1>t, <2>1, ClientFields
  <2>3. DaemonTypeOK' BY <1>1, <1>2, <2>1, <2>2 DEF DaemonInv, DaemonTypeOK
  <2>4. Process' BY <1>1, <1>3 DEF DaemonInv, Process
  <2>5. Caller' BY <1>1, <2>1, <2>2 DEF DaemonInv, Caller
  <2>6. Queue' BY <1>2, <1>4, DaemonAssumption DEF DaemonInv, Queue
  <2>7. NoLateRemoval' /\ WillManage'
     BY <2>2 DEF NoLateRemoval, Wanted, WillManage
  <2>8. Killed'
     BY <1>1, <1>2, <2>1, DaemonAssumption
     DEF DaemonInv, Killed, NoCrash, Running
  <2>9. Alone' BY <1>1 DEF DaemonInv, Alone, NoCrash, Running
  <2>10. InTurn' BY <2>2 DEF InTurn
  <2>11. QED
     BY <2>3, <2>4, <2>5, <2>6, <2>7, <2>8, <2>9, <2>10 DEF DaemonInv
<1>5. CASE c \in Jobs
  <2>1. c # "script" BY <1>5, DaemonAssumption
  <2>2. job[c].state = "waiting" /\ script' = script
        /\ job' = [job EXCEPT ![c].state = "failed"]
     BY <1>5, <2>1 DEF GiveUp, Waits
  <2>3. /\ job' \in [Jobs -> Clients] /\ job'[c].state = "failed"
        /\ \A k \in Jobs \ {c} : job'[k] = job[k]
    <3>0. job[c] \in Clients BY <1>5, <1>t
    <3>1. [job[c] EXCEPT !.state = "failed"] \in Clients
          /\ [job[c] EXCEPT !.state = "failed"].state = "failed"
       BY <3>0 DEF Clients
    <3>2. QED BY <1>5, <1>t, <2>2, <3>1
  <2>4. ~(NoCrash /\ other = "managed") BY <1>5, <2>2 DEF DaemonInv, Killed
  <2>5. DaemonTypeOK' BY <1>1, <1>2, <2>2, <2>3 DEF DaemonInv, DaemonTypeOK
  <2>6. Process' BY <1>1, <1>3 DEF DaemonInv, Process
  <2>7. Caller' BY <1>1, <2>2 DEF DaemonInv, Caller
  <2>8. Queue'
     BY <1>2, <2>1, <2>2, DaemonAssumption DEF DaemonInv, Queue
  <2>9. NoLateRemoval'
     BY <1>1, <1>2, <2>2 DEF DaemonInv, NoLateRemoval, Wanted
  <2>10. WillManage'
     BY <1>1, <1>3, <1>5, <2>2, <2>3
     DEF DaemonInv, WillManage, Managing, Running
  <2>11. Killed' BY <1>1, <2>4 DEF DaemonInv, Killed, NoCrash
  <2>12. Alone' BY <1>1 DEF DaemonInv, Alone, NoCrash, Running
  <2>13. InTurn' BY <1>1, <2>4 DEF InTurn, NoCrash
  <2>14. QED
     BY <2>5, <2>6, <2>7, <2>8, <2>9, <2>10, <2>11, <2>12, <2>13 DEF DaemonInv
<1>6. QED BY <1>4, <1>5

-----------------------------------------------------------------------------
(* The control handler *)

LEMMA AnswerKept ==
    ASSUME DaemonInv, ctl_rcv_handler
    PROVE  DaemonInv'
<1>t. /\ job \in [Jobs -> Clients] /\ script \in Clients
      /\ ctl \in Seq(Requests)
   BY DEF DaemonInv, DaemonTypeOK
<1>1. UNCHANGED <<quit, other, stp, failed, budget>>
   BY DEF ctl_rcv_handler
<1>2. loop = "events" /\ ctl # <<>> /\ handling = NoRequest
   BY DEF ctl_rcv_handler, DaemonInv, Process
<1>3. /\ Len(ctl) \in Nat \ {0} /\ Head(ctl) = ctl[1] /\ ctl[1] \in Requests
      /\ ctl' \in Seq(Requests) /\ Len(ctl') = Len(ctl) - 1
      /\ \A i \in 1..Len(ctl') : ctl'[i] = ctl[i + 1] /\ i + 1 \in 1..Len(ctl)
  <2>1. ctl' = Tail(ctl) BY DEF ctl_rcv_handler
  <2>2. QED BY <1>t, <1>2, <2>1, EmptySeq
<1>4. ctl[1].op \in Ops /\ ctl[1].from \in Jobs \cup {"script", "gone"}
   BY <1>3 DEF Requests
<1> DEFINE from == ctl[1].from
           op == ctl[1].op
<1>5. /\ script' \in Clients /\ script'.op = script.op
      /\ script'.state = IF from = "script" THEN "ok" ELSE script.state
      /\ job' \in [Jobs -> Clients]
      /\ \A j \in Jobs : job'[j].state = IF from = j THEN "ok" ELSE job[j].state
  <2>1. Answer(from) BY <1>3 DEF ctl_rcv_handler
  <2>2. QED BY <1>t, <2>1, AnswerFields
<1>6. \/ /\ managed' = (op = "add") /\ loop' \in {"top", "events"}
         /\ handling' = NoRequest
      \/ /\ handling' = ctl[1] /\ loop' = "handle" /\ managed' = managed
   BY <1>2, <1>3 DEF ctl_rcv_handler, Left
<1>7. "ctl" \notin ready' BY DEF ctl_rcv_handler
<1>8. handling'.op # "del" \/ handling' = ctl[1] BY <1>6 DEF NoRequest
<1>9. /\ from \in Jobs => op = "add"
      /\ from = "script" =>
             /\ script.state = "waiting" /\ op = script.op
             /\ \A k \in 1..Len(ctl') :
                    ctl'[k].op = "add" /\ ctl'[k].from # "script"
  <2>1. 1 \in 1..Len(ctl) BY <1>3
  <2>2. QED BY <1>3, <2>1 DEF DaemonInv, Queue
<1>10. (op = "add") \in BOOLEAN /\ NoRequest \notin Requests
   BY DEF NoRequest, Requests, Ops
<1>11. DaemonTypeOK'
   BY <1>1, <1>3, <1>5, <1>6, <1>10 DEF DaemonInv, DaemonTypeOK, Positions
<1>12. Process'
   BY <1>3, <1>6, <1>7, <1>10 DEF Process
<1>13. Caller' BY <1>1, <1>5, <1>9 DEF DaemonInv, Caller
<1>14. Queue'
  <2> SUFFICES ASSUME NEW i \in 1..Len(ctl')
               PROVE  /\ ctl'[i].from \in Jobs => ctl'[i].op = "add"
                      /\ ctl'[i].from = "script" =>
                           /\ script'.state = "waiting"
                           /\ ctl'[i].op = script'.op
                           /\ \A k \in 1..Len(ctl') : k > i =>
                                /\ ctl'[k].op = "add"
                                /\ ctl'[k].from # "script"
     BY DEF Queue
  <2>1. ctl'[i].from \in Jobs => ctl'[i].op = "add"
     BY <1>3 DEF DaemonInv, Queue
  <2>2. ASSUME ctl'[i].from = "script"
        PROVE  /\ script'.state = "waiting" /\ ctl'[i].op = script'.op
               /\ \A k \in 1..Len(ctl') : k > i =>
                      ctl'[k].op = "add" /\ ctl'[k].from # "script"
    <3>1. from # "script" BY <1>9, <2>2
    <3>2. i + 1 \in 1..Len(ctl) /\ ctl[i + 1].from = "script"
       BY <1>3, <2>2
    <3>3. /\ script.state = "waiting" /\ ctl[i + 1].op = script.op
          /\ \A k \in 1..Len(ctl) : k > i + 1 =>
                 ctl[k].op = "add" /\ ctl[k].from # "script"
       BY <3>2 DEF DaemonInv, Queue
    <3>4. ASSUME NEW k \in 1..Len(ctl'), k > i
          PROVE  ctl'[k].op = "add" /\ ctl'[k].from # "script"
      <4>1. k + 1 \in 1..Len(ctl) /\ ctl'[k] = ctl[k + 1] /\ k + 1 > i + 1
         BY <1>3, <3>4
      <4>2. QED BY <3>3, <4>1
    <3>5. QED BY <1>3, <1>5, <3>1, <3>3, <3>4
  <2>3. QED BY <2>1, <2>2
<1>15. Wanted' => op = "add" /\ \A i \in 1..Len(ctl') : ctl'[i].op = "add"
  <2>1. CASE from = "script"
     BY <1>1, <1>4, <1>5, <1>9, <2>1 DEF Wanted, Ops, DaemonInv, Caller
  <2>2. CASE from # "script"
    <3>1. Wanted' => Wanted BY <1>1, <1>5, <2>2 DEF Wanted
    <3>2. 1 \in 1..Len(ctl) BY <1>3
    <3>3. QED BY <1>3, <3>1, <3>2 DEF DaemonInv, NoLateRemoval
  <2>3. QED BY <2>1, <2>2
<1>16. NoLateRemoval' BY <1>8, <1>15 DEF NoLateRemoval
<1>17. WillManage'
  <2>1. Wanted' => managed' \/ loop' = "handle" BY <1>6, <1>15
  <2>2. QED BY <2>1 DEF WillManage, Managing, Wanted
<1>18. Running' /\ Running BY <1>2, <1>6 DEF Running
<1>19. NoCrash' = NoCrash BY <1>1 DEF NoCrash
<1>20. Killed'
  <2>1. 1 \in 1..Len(ctl) BY <1>3
  <2>2. NoCrash /\ other = "managed" =>
            /\ \A j \in Jobs : job[j].state = "none" /\ from # j
            /\ \A i \in 1..Len(ctl') : ctl'[i].from \notin Jobs
     BY <1>3, <2>1 DEF DaemonInv, Killed
  <2>3. QED BY <1>1, <1>5, <1>18, <1>19, <2>2 DEF DaemonInv, Killed
<1>21. Alone' BY <1>1, <1>18, <1>19 DEF DaemonInv, Alone
<1>22. InTurn'
  <2> SUFFICES ASSUME NoCrash, ~failed, other = "managed"
               PROVE  /\ script'.state \in {"none", "begin", "ok"} => ctl' = <<>>
                      /\ script'.state # "waiting"
                      /\ script'.state \in {"none", "begin"} => FALSE
                      /\ script'.state = "ok" =>
                             (WillBeManaged' <=> script'.op = "add")
     BY <1>1, <1>19 DEF InTurn
  <2>1. script.state \notin {"none", "begin", "ok"}
     BY <1>2 DEF DaemonInv, InTurn
  <2>2. CASE script.state = "waiting"
    <3>1. Len(ctl) = 1 /\ from = "script" BY <2>2 DEF DaemonInv, InTurn
    <3>2. ctl' = <<>> BY <1>3, <3>1, EmptySeq
    <3>3. script'.state = "ok" /\ script'.op = op BY <1>5, <1>9, <3>1
    <3>4. WillBeManaged' <=> op = "add"
       BY <1>6 DEF WillBeManaged
    <3>5. QED BY <3>2, <3>3, <3>4
  <2>3. CASE script.state = "failed"
    <3>1. from # "script" BY <1>9, <2>3
    <3>2. QED BY <1>5, <2>3, <3>1
  <2>4. QED BY <1>t, <2>1, <2>2, <2>3, ClientFields
<1>23. QED
   BY <1>11, <1>12, <1>13, <1>14, <1>16, <1>17, <1>20, <1>21, <1>22
   DEF DaemonInv

\* The request that waited for the lock is executed.
LEMMA HandleKept ==
    ASSUME DaemonInv, HandleGoesOn
    PROVE  DaemonInv'
<1>1. UNCHANGED <<ready, quit, ctl, other, stp, script, job, failed, budget>>
   BY DEF HandleGoesOn, clientVars
<1>2. /\ loop = "handle" /\ loop' \in {"top", "events"}
      /\ handling' = NoRequest /\ managed' = (handling.op = "add")
   BY DEF HandleGoesOn, Left
<1>3. handling.op \in Ops
   BY <1>2 DEF DaemonInv, DaemonTypeOK, Process, Requests
<1>4. managed' \in BOOLEAN BY <1>2
<1>5. DaemonTypeOK'
   BY <1>1, <1>2, <1>4 DEF DaemonInv, DaemonTypeOK, Positions
<1>6. Process' BY <1>1, <1>2 DEF DaemonInv, Process
<1>7. Caller' BY <1>1 DEF DaemonInv, Caller
<1>8. Queue' BY <1>1 DEF DaemonInv, Queue
<1>9. NoLateRemoval'
   BY <1>1, <1>2 DEF DaemonInv, NoLateRemoval, Wanted, NoRequest
<1>10. WillManage'
  <2>1. Wanted => managed' BY <1>2, <1>3 DEF DaemonInv, NoLateRemoval, Ops
  <2>2. QED BY <1>1, <2>1 DEF WillManage, Managing, Wanted
<1>11. Running' /\ Running /\ NoCrash' = NoCrash
   BY <1>1, <1>2 DEF Running, NoCrash
<1>12. Killed' BY <1>1, <1>11 DEF DaemonInv, Killed
<1>13. Alone' BY <1>1, <1>11 DEF DaemonInv, Alone
<1>14. InTurn'
  <2>1. WillBeManaged' <=> WillBeManaged BY <1>2 DEF WillBeManaged
  <2>2. QED BY <1>1, <1>11, <2>1 DEF DaemonInv, InTurn
<1>15. QED
   BY <1>5, <1>6, <1>7, <1>8, <1>9, <1>10, <1>12, <1>13, <1>14 DEF DaemonInv

-----------------------------------------------------------------------------
(* The theorem *)

LEMMA DaemonInvInit == DaemonInit => DaemonInv
<1> SUFFICES ASSUME DaemonInit PROVE DaemonInv OBVIOUS
<1>1. /\ other \in {"none", "managed"} /\ ready = {} /\ quit = FALSE
      /\ loop = (IF other = "none" THEN "off" ELSE "top")
      /\ ctl = <<>> /\ handling = NoRequest /\ managed = FALSE
      /\ stp = "none" /\ failed = FALSE
      /\ script = NoClient /\ job = [j \in Jobs |-> NoClient]
   BY DEF DaemonInit
<1>2. budget \in Budget /\ budget.crashes = MaxCrashes /\ MaxCrashes \in Nat
   BY DaemonAssumption DEF DaemonInit, Budget
<1>3. <<>> \in Seq(Requests) /\ Len(ctl) = 0 BY <1>1
<1>4. DaemonTypeOK
   BY <1>1, <1>2, <1>3, NoClientFields DEF DaemonTypeOK, Positions
<1>5. Process /\ Caller BY <1>1, NoClientFields DEF Process, Caller
<1>6. Queue BY <1>3 DEF Queue
<1>7. NoLateRemoval /\ WillManage
   BY <1>1, NoClientFields DEF NoLateRemoval, WillManage, Wanted
<1>8. Killed
   BY <1>1, <1>2, <1>3, NoClientFields DEF Killed, Running
<1>9. Alone BY <1>1 DEF Alone, Running
<1>10. InTurn BY <1>1, NoClientFields DEF InTurn, WillBeManaged
<1>11. QED BY <1>4, <1>5, <1>6, <1>7, <1>8, <1>9, <1>10 DEF DaemonInv

\* For every number of ports, jobs, stalls, crashes and calls of bridge-stp:
\* when nothing is under way, a running mstpd manages the bridge that the
\* kernel leaves to user space, although it answers a request before it
\* executes it and mstpctl may have given up in between; and it manages no
\* other, unless an mstpctl has failed or mstpd has crashed.
THEOREM ModesAlwaysAgree == DaemonSpec => []ModesAgree
<1>1. DaemonInv /\ [DaemonNext]_daemonVars => DaemonInv'
  <2> SUFFICES ASSUME DaemonInv, [DaemonNext]_daemonVars PROVE DaemonInv'
     OBVIOUS
  <2>1. CASE Pass BY <2>1, PassKept
  <2>2. CASE Toggle BY <2>2, ToggleKept
  <2>3. CASE Crash BY <2>3, EndsKept
  <2>4. CASE LoopStep
     BY <2>4, EndsKept, LoopKept, AnswerKept, HandleKept DEF LoopStep
  <2>5. CASE ClientStep
     BY <2>5, StartKept, ScriptSendsKept, ScriptEndsKept, JobSendsKept,
        JobEndsKept, GiveUpKept
     DEF ClientStep
  <2>6. CASE UNCHANGED daemonVars
    <3>1. UNCHANGED <<loop, ready, quit, ctl, handling, managed, other, stp,
                      failed, script, job, budget>>
       BY <2>6 DEF daemonVars, loopVars, ctlVars, clientVars
    <3>2. /\ script \in Clients /\ job \in [Jobs -> Clients]
          /\ budget \in Budget
       BY DEF DaemonInv, DaemonTypeOK
    <3>3. QED BY <3>1, <3>2, KeptSuffices
  <2>7. QED BY <2>1, <2>2, <2>3, <2>4, <2>5, <2>6 DEF DaemonNext
<1>2. DaemonInv => ModesAgree
  <2> SUFFICES ASSUME DaemonInv, AtRest
               PROVE  /\ stp = "user" => managed
                      /\ managed /\ ~failed /\ NoCrash => stp = "user"
     BY DEF ModesAgree, NoCrash
  <2>1. /\ script.state = "none" /\ \A j \in Jobs : job[j].state = "none"
        /\ ctl = <<>> /\ loop = "wait" /\ ~quit
     BY NoClientFields DEF AtRest
  <2>2. stp = "user" => managed
     BY <2>1 DEF DaemonInv, WillManage, Managing, Running
  <2>3. ASSUME managed, ~failed, NoCrash PROVE stp = "user"
    <3>1. CASE other = "none"
       BY <2>1, <2>3, <3>1 DEF DaemonInv, Alone, Running
    <3>2. CASE other = "managed"
       BY <2>1, <2>3, <3>2 DEF DaemonInv, InTurn, WillBeManaged
    <3>3. QED BY <2>3, <3>1, <3>2 DEF DaemonInv, DaemonTypeOK, Killed
  <2>4. QED BY <2>2, <2>3
<1>3. QED BY <1>1, <1>2, DaemonInvInit, PTL DEF DaemonSpec
=============================================================================

------------------------------ MODULE WanControl -----------------------------
(***************************************************************************)
(* The operations that switch the WAN link: wan.Up, wan.Down and           *)
(* wifi.Reload, each in its own goroutine of pispot-authd, and the         *)
(* wan-up / wan-down commands of pispotctl, each a process of its own.     *)
(* Nothing serialises them.  Each runs systemctl on wpa_supplicant@wlan1   *)
(* and dhcpcd on wlan1, one after the other, and gives up at the first     *)
(* error (Reload ignores a failed release).  Up and Down share one         *)
(* ten-second context over both commands; the others wait for ever.        *)
(*                                                                         *)
(* systemd and dhcpcd are external: the unit has one job at a time, a      *)
(* systemctl client waits for the job it submitted, a client that is       *)
(* killed leaves its job behind, and a job of the other verb replaces it   *)
(* and fails those who wait for it.  dhcpcd acts at once.                  *)
(***************************************************************************)
EXTENDS Naturals

CONSTANTS
    Caller,     \* connections to the daemon and runs of pispotctl, one op each
    Ops,        \* the operations they may request
    Faults      \* TRUE: commands fail or time out and the daemon may stop

Kind == {"up", "down", "reload", "ctl_up", "ctl_down"}
UpKind == {"up", "ctl_up"}
DownKind == {"down", "ctl_down"}
Timed == {"up", "down"}                 \* run under context.WithTimeout
ByDaemon == {"up", "down", "reload"}    \* run inside pispot-authd

ASSUME WanAssumption == /\ Ops \subseteq Kind
                        /\ Faults \in BOOLEAN

VARIABLES
    adapter,    \* what sysfs says of wlan1
    supplicant, \* wpa_supplicant@wlan1 is active
    dhcp,       \* dhcpcd runs on wlan1 (has or seeks a lease)
    job,        \* systemd's job on the unit and the clients waiting for it
    client,     \* the answer to each caller's systemctl
    pc,         \* where each caller is
    op,         \* the operation it requested
    result      \* what it was answered

host == <<supplicant, dhcp, job, client>>
vars == <<adapter, supplicant, dhcp, job, client, pc, op, result>>

InSystemctl == {"start", "starting", "stop", "stopping"}
Running == {"check", "stop", "stopping", "release", "start", "starting", "lease"}
InFlight == Running \cup {"reply"}
Pc == {"idle", "done", "dead"} \cup InFlight

NoJob == [verb |-> "none", waiters |-> {}]

Init ==
    /\ adapter \in {"absent", "wired", "wireless"}
    /\ supplicant \in BOOLEAN /\ dhcp \in BOOLEAN
    /\ job = NoJob
    /\ client = [c \in Caller |-> "none"]
    /\ pc = [c \in Caller |-> "idle"]
    /\ op \in [Caller -> Ops]
    /\ result = [c \in Caller |-> "none"]

Goto(c, label) == pc' = [pc EXCEPT ![c] = label]

Reply(c, r) == Goto(c, "reply") /\ result' = [result EXCEPT ![c] = r]

-----------------------------------------------------------------------------
\* The request arrives; Down goes straight to its first command.
Begin(c) ==
    /\ pc[c] = "idle"
    /\ Goto(c, IF op[c] \in DownKind THEN "stop" ELSE "check")
    /\ UNCHANGED <<adapter, host, op, result>>

\* Up refuses without a wireless wlan1; Reload without any wlan1 has nothing
\* to apply and answers ok.
CheckUp(c) ==
    /\ pc[c] = "check"
    /\ op[c] \in UpKind
    /\ IF adapter = "wireless" THEN Goto(c, "start") /\ UNCHANGED result
                               ELSE Reply(c, "error")
    /\ UNCHANGED <<adapter, host, op>>

CheckReload(c) ==
    /\ pc[c] = "check"
    /\ op[c] = "reload"
    /\ IF adapter # "absent" THEN Goto(c, "stop") /\ UNCHANGED result
                             ELSE Reply(c, "skipped")
    /\ UNCHANGED <<adapter, host, op>>

\* systemctl start or stop: a job of the same verb is joined, the other one is
\* replaced and its waiters are told that it was cancelled.
Submit(c) ==
    /\ pc[c] \in {"start", "stop"}
    /\ IF job.verb = pc[c]
         THEN /\ job' = [job EXCEPT !.waiters = @ \cup {c}]
              /\ UNCHANGED client
         ELSE /\ job' = [verb |-> pc[c], waiters |-> {c}]
              /\ client' = [d \in Caller |-> IF d \in job.waiters THEN "failed"
                                                                  ELSE client[d]]
    /\ Goto(c, IF pc[c] = "start" THEN "starting" ELSE "stopping")
    /\ UNCHANGED <<adapter, supplicant, dhcp, op, result>>

\* systemd completes or gives up the job, and tells the clients that wait.
JobEnds(answer) ==
    /\ job.verb # "none"
    /\ job' = NoJob
    /\ client' = [d \in Caller |-> IF d \in job.waiters THEN answer ELSE client[d]]
    /\ UNCHANGED <<adapter, dhcp, pc, op, result>>

JobDone == JobEnds("done") /\ supplicant' = (job.verb = "start")
JobFails == Faults /\ JobEnds("failed") /\ UNCHANGED supplicant

\* Mutants: the systemctl's error is passed on as it is, is ignored, or is never
\* seen.
ReturnRaw(c) ==
    /\ pc[c] \in {"starting", "stopping"}
    /\ client[c] # "none"
    /\ client' = [client EXCEPT ![c] = "none"]
    /\ Reply(c, client[c])
    /\ UNCHANGED <<adapter, supplicant, dhcp, job, op>>

ReturnIgnoring(c) ==
    /\ pc[c] \in {"starting", "stopping"}
    /\ client[c] # "none"
    /\ client' = [client EXCEPT ![c] = "none"]
    /\ Goto(c, IF pc[c] = "starting" THEN "lease" ELSE "release")
    /\ UNCHANGED <<adapter, supplicant, dhcp, job, op, result>>

ReturnDoneOnly(c) == client[c] = "done" /\ ReturnIgnoring(c)

\* systemctl returns to the operation.
Return(c) ==
    /\ pc[c] \in {"starting", "stopping"}
    /\ client[c] # "none"
    /\ client' = [client EXCEPT ![c] = "none"]
    /\ IF client[c] = "done"
         THEN /\ Goto(c, IF pc[c] = "starting" THEN "lease" ELSE "release")
              /\ UNCHANGED result
         ELSE Reply(c, "error")
    /\ UNCHANGED <<adapter, supplicant, dhcp, job, op>>

\* dhcpcd wlan1, the last command of Up and Reload.
Lease(c) ==
    /\ pc[c] = "lease"
    /\ dhcp' = TRUE
    /\ Reply(c, "ok")
    /\ UNCHANGED <<adapter, supplicant, job, client, op>>

LeaseFails(c) ==
    /\ Faults
    /\ pc[c] = "lease"
    /\ dhcp' \in {dhcp, TRUE}
    /\ Reply(c, "error")
    /\ UNCHANGED <<adapter, supplicant, job, client, op>>

\* dhcpcd --release wlan1: Reload goes on whether or not it worked.
Release(c) ==
    /\ pc[c] = "release"
    /\ dhcp' = FALSE
    /\ IF op[c] = "reload" THEN Goto(c, "start") /\ UNCHANGED result
                           ELSE Reply(c, "ok")
    /\ UNCHANGED <<adapter, supplicant, job, client, op>>

ReleaseFails(c) ==
    /\ Faults
    /\ pc[c] = "release"
    /\ dhcp' \in {dhcp, FALSE}
    /\ IF op[c] = "reload" THEN Goto(c, "start") /\ UNCHANGED result
                           ELSE Reply(c, "error")
    /\ UNCHANGED <<adapter, supplicant, job, client, op>>

\* A killed systemctl no longer waits for its job, which goes on without it.
Forget(dropped) ==
    /\ job' = [job EXCEPT !.waiters = @ \ dropped]
    /\ client' = [d \in Caller |-> IF d \in dropped THEN "none" ELSE client[d]]

\* Mutants: an operation out of time counts as done; the context covers systemctl
\* only.
TimeoutOk(c) ==
    /\ Faults
    /\ op[c] \in Timed
    /\ pc[c] \in Running \ {"check"}
    /\ Forget({c})
    /\ Reply(c, "ok")
    /\ UNCHANGED <<adapter, supplicant, dhcp, op>>

TimeoutSystemctlOnly(c) ==
    /\ Faults
    /\ op[c] \in Timed
    /\ pc[c] \in InSystemctl
    /\ Forget({c})
    /\ Reply(c, "error")
    /\ UNCHANGED <<adapter, supplicant, dhcp, op>>

\* Up or Down returns with the error of its context, ten seconds after its first
\* command began or later: a command that is killed is waited for until nobody
\* holds its output any more (CombinedOutput, and no WaitDelay), and what dhcpcd
\* has forked may go on holding it.  Until then the caller stays in "lease" or
\* "release", where what dhcpcd does is a step of its own.
Timeout(c) ==
    /\ Faults
    /\ op[c] \in Timed
    /\ pc[c] \in Running \ {"check"}
    /\ Forget({c})
    /\ Reply(c, "error")
    /\ UNCHANGED <<adapter, supplicant, dhcp, op>>

\* writeResponse; pispotctl exits.
Respond(c) ==
    /\ pc[c] = "reply"
    /\ Goto(c, "done")
    /\ UNCHANGED <<adapter, host, op, result>>

\* The daemon stops or is killed: its operations end unanswered, their commands
\* die with it, and what they had submitted to systemd stays.
DaemonStops ==
    /\ Faults
    /\ LET dying == {c \in Caller : pc[c] \in InFlight /\ op[c] \in ByDaemon}
       IN  /\ dying # {}
           /\ pc' = [c \in Caller |-> IF c \in dying THEN "dead" ELSE pc[c]]
           /\ Forget(dying)
    /\ UNCHANGED <<adapter, supplicant, dhcp, op, result>>

\* Every caller of the instance has been served and systemd has nothing to do.
Idle ==
    /\ \A c \in Caller : pc[c] \in {"done", "dead"}
    /\ job = NoJob
    /\ UNCHANGED vars

\* What the operation itself does next, and what it waits for.
Proceed(c) == \/ Begin(c) \/ CheckUp(c) \/ CheckReload(c) \/ Submit(c)
              \/ Return(c) \/ Respond(c)
Dhcpcd(c) == Lease(c) \/ LeaseFails(c) \/ Release(c) \/ ReleaseFails(c)
Systemd == JobDone \/ JobFails

Next == \/ \E c \in Caller : Proceed(c) \/ Dhcpcd(c) \/ Timeout(c)
        \/ Systemd \/ DaemonStops \/ Idle

Spec == Init /\ [][Next]_vars

\* Goroutines are scheduled, and a systemctl out of time is killed and leaves no
\* process behind.  systemd and dhcpcd may hang.
FairSpec == /\ Spec
            /\ \A c \in Caller : /\ WF_vars(Proceed(c))
                                 /\ WF_vars(pc[c] \in InSystemctl /\ Timeout(c))

\* What FairSpec leaves open: systemd and dhcpcd answer what they are asked; the
\* output of a killed dhcpcd is closed.
HostAnswers == WF_vars(Systemd) /\ \A c \in Caller : WF_vars(Dhcpcd(c))
OutputCloses == \A c \in Caller : WF_vars(Timeout(c))

-----------------------------------------------------------------------------
(***************************************************************************)
(* Properties.                                                             *)
(***************************************************************************)
TypeOK ==
    /\ adapter \in {"absent", "wired", "wireless"}
    /\ supplicant \in BOOLEAN /\ dhcp \in BOOLEAN
    /\ job \in [verb : {"none", "start", "stop"}, waiters : SUBSET Caller]
    /\ client \in [Caller -> {"none", "done", "failed"}]
    /\ pc \in [Caller -> Pc]
    /\ op \in [Caller -> Ops]
    /\ result \in [Caller -> {"none", "ok", "error", "skipped"}]

\* The operations of the daemon that ask systemd for each verb.
Asks(verb) == IF verb = "start" THEN {"up", "reload"} ELSE {"down", "reload"}

\* The unit changes behind everyone's back only in the way that an operation
\* asked for which ran out of time and said so, or died with the daemon: of that
\* kind are all the jobs that nobody waits for (ops.go:75-81).
LateJobAfterFailure ==
    job.verb # "none" /\ job.waiters = {} =>
        \E c \in Caller : /\ op[c] \in Asks(job.verb)
                          /\ \/ pc[c] = "dead"
                             \/ op[c] \in Timed /\ result[c] = "error"

\* Whatever systemd does, Up and Down do not wait for it for ever; and whatever
\* dhcpcd does, they are answered unless the daemon stops, as long as a killed
\* dhcpcd has its output closed: one context covers both commands
\* (ops.go:31-32, 55-56).
WanOpAnswered ==
    /\ \A c \in Caller :
         op[c] \in Timed /\ pc[c] \in InSystemctl ~> pc[c] \notin InSystemctl
    /\ OutputCloses =>
         \A c \in Caller :
            op[c] \in Timed /\ pc[c] \in InFlight ~> pc[c] \in {"done", "dead"}

\* When systemd and dhcpcd answer, every operation ends, also Reload and
\* pispotctl, which have no timeout, and also while others cancel their jobs.
EveryOpEnds ==
    HostAnswers => \A c \in Caller : pc[c] \in InFlight ~> pc[c] \in {"done", "dead"}

\* When every Up and Down was answered ok and nothing is running, the link is
\* up or down as a whole (ops.go:18 "Up starts the WAN connection", ops.go:51
\* "Down stops the WAN connection: stops wpa_supplicant@wlan1 then releases the
\* wlan1 DHCP lease").
OkRepliesAgree ==
    (\A c \in Caller : pc[c] = "done" /\ result[c] = "ok") => supplicant = dhcp
=============================================================================

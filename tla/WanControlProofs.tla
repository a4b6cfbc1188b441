--------------------------- MODULE WanControlProofs ---------------------------
(***************************************************************************)
(* Proofs about WanControl, for any set of callers and of operations, and  *)
(* about WanSolo: what an operation that no other overlapped has achieved, *)
(* for any number of others before and after it.                           *)
(***************************************************************************)
EXTENDS WanSolo, TLAPS

LEMMA TypeInit == Init => TypeOK
  BY DEF Init, TypeOK, NoJob, Pc

Job == [verb : {"none", "start", "stop"}, waiters : SUBSET Caller]

\* What Submit and Forget do to the job and to the clients, field by field.
LEMMA SubmitFacts ==
    ASSUME TypeOK, NEW c \in Caller, Submit(c)
    PROVE  /\ job' \in Job /\ client' \in [Caller -> {"none", "done", "failed"}]
           /\ job'.verb = pc[c] /\ c \in job'.waiters
           /\ job'.waiters \subseteq job.waiters \cup {c}
           /\ \A d \in Caller : d \in job.waiters \/ client'[d] = client[d]
           /\ \A d \in Caller : client'[d] \in {client[d], "failed"}
<1>0. /\ job.verb \in {"none", "start", "stop"} /\ job.waiters \subseteq Caller
      /\ pc[c] \in {"start", "stop"}
      /\ client \in [Caller -> {"none", "done", "failed"}]
  BY DEF TypeOK, Submit
<1>1. CASE job.verb = pc[c]
  <2>1. job' = [verb |-> job.verb, waiters |-> job.waiters \cup {c}]
        /\ client' = client
    BY <1>1 DEF Submit, TypeOK
  <2>2. job'.verb = pc[c] /\ job'.waiters = job.waiters \cup {c}
    BY <2>1, <1>1
  <2>3. job' \in Job
    BY <2>1, <1>0 DEF Job
  <2> QED BY <2>1, <2>2, <2>3, <1>0
<1>2. CASE job.verb # pc[c]
  <2>1. /\ job' = [verb |-> pc[c], waiters |-> {c}]
        /\ client' = [d \in Caller |-> IF d \in job.waiters THEN "failed"
                                                            ELSE client[d]]
    BY <1>2 DEF Submit
  <2>2. job'.verb = pc[c] /\ job'.waiters = {c}
    BY <2>1
  <2>3. job' \in Job
    BY <2>1, <1>0 DEF Job
  <2>4. client' \in [Caller -> {"none", "done", "failed"}]
    BY <2>1, <1>0
  <2>5. \A d \in Caller : client'[d] = IF d \in job.waiters THEN "failed" ELSE client[d]
    BY <2>1
  <2> QED BY <2>2, <2>3, <2>4, <2>5
<1> QED BY <1>1, <1>2

LEMMA ForgetFacts ==
    ASSUME TypeOK, NEW dropped \in SUBSET Caller, Forget(dropped)
    PROVE  /\ job' \in Job /\ client' \in [Caller -> {"none", "done", "failed"}]
           /\ job'.verb = job.verb /\ job'.waiters = job.waiters \ dropped
           /\ job' = [verb |-> job.verb, waiters |-> job.waiters \ dropped]
           /\ \A d \in Caller : client'[d] = IF d \in dropped THEN "none" ELSE client[d]
  BY DEF Forget, TypeOK, Job

LEMMA JobEndsFacts ==
    ASSUME TypeOK, NEW a \in {"done", "failed"}, JobEnds(a)
    PROVE  /\ job' \in Job /\ client' \in [Caller -> {"none", "done", "failed"}]
           /\ job' = NoJob /\ job'.verb = "none" /\ job'.waiters = {}
           /\ \A d \in Caller : client'[d] = IF d \in job.waiters THEN a ELSE client[d]
           /\ UNCHANGED <<adapter, dhcp, pc, op, result>>
  BY DEF JobEnds, NoJob, Job, TypeOK

\* A stopping daemon takes its own operations with it.
Dying == {c \in Caller : pc[c] \in InFlight /\ op[c] \in ByDaemon}

LEMMA StopFacts ==
    ASSUME DaemonStops
    PROVE  /\ pc' = [c \in Caller |-> IF c \in Dying THEN "dead" ELSE pc[c]]
           /\ Forget(Dying) /\ Dying \in SUBSET Caller
           /\ UNCHANGED <<adapter, supplicant, dhcp, op, result>>
  BY DEF DaemonStops, Dying

LEMMA TypeStep == TypeOK /\ [Next]_vars => TypeOK'
<1> SUFFICES ASSUME TypeOK, [Next]_vars PROVE TypeOK'
  OBVIOUS
<1> USE DEF TypeOK, Goto, Reply, host, Pc, InFlight, Running
<1>1. ASSUME NEW c \in Caller, Proceed(c) PROVE TypeOK'
  <2>1. CASE Begin(c) BY <2>1 DEF Begin
  <2>2. CASE CheckUp(c) BY <2>2 DEF CheckUp
  <2>3. CASE CheckReload(c) BY <2>3 DEF CheckReload
  <2>4. CASE Submit(c)
    <3>1. job' \in Job /\ client' \in [Caller -> {"none", "done", "failed"}]
      BY <2>4, SubmitFacts
    <3> QED BY <2>4, <3>1 DEF Submit, Job
  <2>5. CASE Return(c) BY <2>5 DEF Return
  <2>6. CASE Respond(c) BY <2>6 DEF Respond
  <2> QED BY <1>1, <2>1, <2>2, <2>3, <2>4, <2>5, <2>6 DEF Proceed
<1>2. ASSUME NEW c \in Caller, Dhcpcd(c) PROVE TypeOK'
  BY <1>2 DEF Dhcpcd, Lease, LeaseFails, Release, ReleaseFails
<1>3. ASSUME NEW c \in Caller, Timeout(c) PROVE TypeOK'
  BY <1>3, ForgetFacts DEF Timeout, Job
<1>4. CASE Systemd
  BY <1>4, JobEndsFacts DEF Systemd, JobDone, JobFails, Job
<1>5. CASE DaemonStops
  BY <1>5, StopFacts, ForgetFacts DEF Job
<1>6. CASE Idle \/ UNCHANGED vars BY <1>6 DEF Idle, vars
<1> QED BY <1>1, <1>2, <1>3, <1>4, <1>5, <1>6 DEF Next

\* Types, for any number of callers.
THEOREM TypeCorrect == Spec => []TypeOK
  BY TypeInit, TypeStep, PTL DEF Spec

-----------------------------------------------------------------------------
(***************************************************************************)
(* Who waits for systemd: a waiter of the job has no answer yet, and only  *)
(* a caller inside systemctl has one.                                      *)
(***************************************************************************)
Waiting == {"starting", "stopping"}

Attended ==
    /\ TypeOK
    /\ \A c \in Caller : c \in job.waiters => pc[c] \in Waiting /\ client[c] = "none"
    /\ \A c \in Caller : client[c] # "none" => pc[c] \in Waiting

LEMMA AttendedInit == Init => Attended
  BY TypeInit DEF Init, Attended, NoJob

LEMMA AttendedStep == Attended /\ [Next]_vars => Attended'
<1> SUFFICES ASSUME Attended, [Next]_vars PROVE Attended'
  OBVIOUS
<1>0. TypeOK /\ TypeOK'
  BY TypeStep DEF Attended
<1> USE <1>0 DEF Attended, Waiting, Goto, Reply, host, InFlight, Running
<1>1. ASSUME NEW c \in Caller, Proceed(c) PROVE Attended'
  <2>1. CASE Begin(c) BY <2>1 DEF Begin, TypeOK
  <2>2. CASE CheckUp(c) BY <2>2 DEF CheckUp, TypeOK
  <2>3. CASE CheckReload(c) BY <2>3 DEF CheckReload, TypeOK
  <2>4. CASE Submit(c)
    <3>1. \A d \in Caller : d # c => pc'[d] = pc[d]
      BY <2>4 DEF Submit, TypeOK
    <3>2. pc'[c] \in Waiting /\ client[c] = "none" /\ c \notin job.waiters
      BY <2>4 DEF Submit, TypeOK
    <3>3. CASE job.verb = pc[c]
      <4>1. job'.waiters = job.waiters \cup {c} /\ client' = client
        BY <2>4, <3>3 DEF Submit, TypeOK
      <4> QED BY <4>1, <3>1, <3>2
    <3>4. CASE job.verb # pc[c]
      <4>1. /\ job'.waiters = {c}
            /\ \A d \in Caller :
                 client'[d] = IF d \in job.waiters THEN "failed" ELSE client[d]
        BY <2>4, <3>4 DEF Submit
      <4> QED BY <4>1, <3>1, <3>2
    <3> QED BY <3>3, <3>4
  <2>5. CASE Return(c)
    <3>1. /\ client[c] # "none" /\ job' = job
          /\ client' = [client EXCEPT ![c] = "none"]
          /\ \A d \in Caller : d # c => pc'[d] = pc[d]
      BY <2>5 DEF Return, TypeOK
    <3>2. \A d \in Caller : client'[d] = IF d = c THEN "none" ELSE client[d]
      BY <3>1 DEF TypeOK
    <3> QED BY <3>1, <3>2
  <2>6. CASE Respond(c) BY <2>6 DEF Respond, TypeOK
  <2> QED BY <1>1, <2>1, <2>2, <2>3, <2>4, <2>5, <2>6 DEF Proceed
<1>2. ASSUME NEW c \in Caller, Dhcpcd(c) PROVE Attended'
  <2>1. /\ pc[c] \notin Waiting /\ UNCHANGED <<job, client>>
        /\ \A d \in Caller : d # c => pc'[d] = pc[d]
    BY <1>2, ZenonT(60) DEF Dhcpcd, Lease, LeaseFails, Release, ReleaseFails, TypeOK
  <2> QED BY <2>1
<1>3. ASSUME NEW c \in Caller, Timeout(c) PROVE Attended'
  <2>1. job'.waiters = job.waiters \ {c}
    BY <1>3, ForgetFacts DEF Timeout
  <2>2. \A d \in Caller : client'[d] = IF d = c THEN "none" ELSE client[d]
    BY <1>3, ForgetFacts DEF Timeout
  <2>3. \A d \in Caller : d # c => pc'[d] = pc[d]
    BY <1>3 DEF Timeout, TypeOK
  <2> QED BY <2>1, <2>2, <2>3
<1>4. CASE Systemd
  BY <1>4, JobEndsFacts DEF Systemd, JobDone, JobFails
<1>5. CASE DaemonStops
  <2>1. /\ job'.waiters = job.waiters \ Dying
        /\ \A d \in Caller : client'[d] = IF d \in Dying THEN "none" ELSE client[d]
        /\ \A d \in Caller : d \notin Dying => pc'[d] = pc[d]
    BY <1>5, StopFacts, ForgetFacts
  <2> QED BY <2>1
<1>6. CASE Idle \/ UNCHANGED vars BY <1>6 DEF Idle, vars
<1> QED BY <1>1, <1>2, <1>3, <1>4, <1>5, <1>6 DEF Next

-----------------------------------------------------------------------------
(***************************************************************************)
(* A job nobody waits for is what an operation of that kind left.          *)
(***************************************************************************)
\* What c's systemctl has been asked, and that c's operation asks that.
Verb(c) == IF pc[c] = "starting" THEN "start" ELSE "stop"

Matching(c) ==
    /\ c \in job.waiters => job.verb = Verb(c)
    /\ pc[c] \in {"check", "start", "starting", "lease"} => op[c] \notin DownKind
    /\ pc[c] \in {"stop", "stopping", "release"} => op[c] \notin UpKind
    /\ pc[c] \in Running \cup {"idle"} => result[c] = "none"

LateInv ==
    /\ Attended
    /\ LateJobAfterFailure
    /\ \A c \in Caller : Matching(c)

\* The operation that left the job in the lurch.
Left(c) == /\ op[c] \in Asks(job.verb)
           /\ \/ pc[c] = "dead"
              \/ op[c] \in Timed /\ result[c] = "error"

LEMMA LateInit == Init => LateInv
<1> SUFFICES ASSUME Init PROVE LateInv
  OBVIOUS
<1>1. job.verb = "none" /\ job.waiters = {}
  BY DEF Init, NoJob
<1> QED BY <1>1, AttendedInit
        DEF Init, LateInv, LateJobAfterFailure, Matching, Running

\* A caller whose waiting ends unheard was of a kind that asks for the job.
LEMMA WaiterAsks ==
    ASSUME LateInv, NEW c \in Caller, c \in job.waiters, op[c] \in ByDaemon
    PROVE  op[c] \in Asks(job.verb)
<1>1. pc[c] \in Waiting /\ job.verb = Verb(c) /\ Matching(c)
  BY DEF LateInv, Attended, Matching
<1>2. CASE pc[c] = "starting"
  BY <1>1, <1>2 DEF Verb, Asks, Matching, ByDaemon, DownKind
<1>3. CASE pc[c] = "stopping"
  BY <1>1, <1>3 DEF Verb, Asks, Matching, ByDaemon, UpKind
<1> QED BY <1>1, <1>2, <1>3 DEF Waiting

\* What has ended badly stays so.
LEMMA LeftStays ==
    ASSUME LateInv, [Next]_vars, NEW c \in Caller, Left(c), job'.verb = job.verb
    PROVE  Left(c)'
<1> USE DEF Goto, Reply, host, InFlight, Running
<1>0. TypeOK /\ Matching(c)
  BY DEF LateInv, Attended
<1>1. /\ op'[c] = op[c]
      /\ pc[c] = "dead" => pc'[c] = "dead"
      /\ result[c] = "error" => result'[c] = "error"
  <2>1. ASSUME NEW d \in Caller, Proceed(d) PROVE <1>1!:
    BY <2>1, <1>0 DEF Proceed, Begin, CheckUp, CheckReload, Submit, Return, Respond,
                      TypeOK, Matching
  <2>2. ASSUME NEW d \in Caller, Dhcpcd(d) PROVE <1>1!:
    <3>1. /\ pc[d] \in {"lease", "release"} /\ op' = op
          /\ \/ Goto(d, "start") /\ UNCHANGED result
             \/ \E r \in {"ok", "error"} : Reply(d, r)
      BY <2>2 DEF Dhcpcd, Lease, LeaseFails, Release, ReleaseFails
    <3> QED BY <3>1, <1>0 DEF TypeOK, Matching
  <2>3. ASSUME NEW d \in Caller, Timeout(d) PROVE <1>1!:
    BY <2>3, <1>0 DEF Timeout, TypeOK, Matching
  <2>4. CASE Systemd
    BY <2>4, <1>0, JobEndsFacts DEF Systemd, JobDone, JobFails
  <2>5. CASE DaemonStops
    BY <2>5, StopFacts
  <2>6. CASE Idle \/ UNCHANGED vars BY <2>6 DEF Idle, vars
  <2> QED BY <2>1, <2>2, <2>3, <2>4, <2>5, <2>6 DEF Next
<1> QED BY <1>1 DEF Left

LEMMA LateStep == LateInv /\ [Next]_vars => LateInv'
<1> SUFFICES ASSUME LateInv, [Next]_vars PROVE LateInv'
  OBVIOUS
<1>0. TypeOK /\ TypeOK' /\ Attended /\ Attended'
  BY AttendedStep DEF LateInv, Attended
<1>a. \A c \in Caller : Matching(c)
  BY DEF LateInv
<1>b. job.verb # "none" /\ job.waiters = {} => \E c \in Caller : Left(c)
  BY DEF LateInv, LateJobAfterFailure, Left
<1> DEFINE Explained == job'.verb # "none" /\ job'.waiters = {} =>
                          \E c \in Caller : Left(c)'
           Goal == (\A c \in Caller : Matching(c)') /\ Explained
\* Nobody stopped waiting in the step.
<1>c. job'.verb = job.verb /\ job.waiters \subseteq job'.waiters => Explained
  BY <1>b, LeftStays
\* The callers that the step does not move.
<1>d. ASSUME NEW c \in Caller, pc'[c] = pc[c], op'[c] = op[c], result'[c] = result[c],
             c \in job'.waiters => c \in job.waiters /\ job'.verb = job.verb
      PROVE  Matching(c)'
  BY <1>d, <1>a DEF Matching, Verb
<1> SUFFICES Goal
  BY <1>0 DEF LateInv, LateJobAfterFailure, Left
<1> USE DEF Goto, Reply, host, InFlight, Running
<1> HIDE DEF Goal, Explained
<1>1. ASSUME NEW c \in Caller, Begin(c) \/ CheckUp(c) \/ CheckReload(c) \/ Respond(c)
      PROVE  Goal
  <2>1. /\ UNCHANGED <<job, client, op>> /\ pc[c] \in {"idle", "check", "reply"}
        /\ \A d \in Caller : d # c => pc'[d] = pc[d] /\ result'[d] = result[d]
    BY <1>1, <1>0 DEF Begin, CheckUp, CheckReload, Respond, TypeOK
  <2>2. c \notin job.waiters
    BY <2>1, <1>0 DEF Attended, Waiting
  <2>3. Matching(c)'
    <3>1. CASE Begin(c)
      BY <3>1, <2>1, <2>2, <1>0, <1>a DEF Begin, TypeOK, Matching, UpKind, DownKind
    <3>2. CASE CheckUp(c)
      BY <3>2, <2>1, <2>2, <1>0, <1>a DEF CheckUp, TypeOK, Matching, UpKind, DownKind
    <3>3. CASE CheckReload(c)
      BY <3>3, <2>1, <2>2, <1>0, <1>a DEF CheckReload, TypeOK, Matching, UpKind, DownKind
    <3>4. CASE Respond(c)
      BY <3>4, <2>1, <2>2, <1>0, <1>a DEF Respond, TypeOK, Matching
    <3> QED BY <1>1, <3>1, <3>2, <3>3, <3>4
  <2> QED BY <2>1, <2>3, <1>c, <1>d DEF Goal
<1>2. ASSUME NEW c \in Caller, Submit(c) PROVE Goal
  <2>1. /\ c \in job'.waiters /\ job'.verb = pc[c] /\ pc[c] \in {"start", "stop"}
        /\ pc'[c] = IF pc[c] = "start" THEN "starting" ELSE "stopping"
        /\ UNCHANGED <<op, result>>
        /\ \A d \in Caller : d # c => pc'[d] = pc[d]
    BY <1>2, <1>0, SubmitFacts DEF Submit, TypeOK
  <2>2. Matching(c)'
    BY <2>1, <1>a DEF Matching, Verb
  <2>3. ASSUME NEW d \in Caller, d # c PROVE Matching(d)'
    <3>1. d \in job'.waiters => d \in job.waiters /\ job'.verb = job.verb
      <4>1. CASE job.verb = pc[c]
        BY <4>1, <2>1, <2>3, <1>2, <1>0, SubmitFacts
      <4>2. CASE job.verb # pc[c]
        BY <4>2, <2>3, <1>2 DEF Submit
      <4> QED BY <4>1, <4>2
    <3> QED BY <3>1, <2>1, <2>3, <1>d
  <2>4. Explained
    BY <2>1 DEF Explained
  <2> QED BY <2>2, <2>3, <2>4 DEF Goal
<1>3. ASSUME NEW c \in Caller, Return(c) PROVE Goal
  <2>1. /\ job' = job /\ op' = op /\ pc[c] \in Waiting /\ client[c] # "none"
        /\ \A d \in Caller : d # c => pc'[d] = pc[d] /\ result'[d] = result[d]
        /\ pc'[c] \in {"reply", IF pc[c] = "starting" THEN "lease" ELSE "release"}
        /\ pc'[c] = "reply" \/ result'[c] = result[c]
    BY <1>3, <1>0 DEF Return, TypeOK, Waiting
  <2>2. c \notin job'.waiters
    BY <2>1, <1>0 DEF Attended
  <2>3. Matching(c)'
    BY <2>1, <2>2, <1>a DEF Matching, Waiting
  <2> QED BY <2>1, <2>3, <1>c, <1>d DEF Goal
<1>4. ASSUME NEW c \in Caller, Dhcpcd(c) PROVE Goal
  <2>0. /\ job' = job /\ op' = op /\ pc[c] \in {"lease", "release"}
        /\ \/ Goto(c, "start") /\ UNCHANGED result /\ op[c] = "reload"
           \/ \E r \in {"ok", "error"} : Reply(c, r)
    BY <1>4 DEF Dhcpcd, Lease, LeaseFails, Release, ReleaseFails
  <2>1. /\ \A d \in Caller : d # c => pc'[d] = pc[d] /\ result'[d] = result[d]
        /\ \/ pc'[c] = "start" /\ op[c] = "reload" /\ result'[c] = result[c]
           \/ pc'[c] = "reply"
    BY <2>0, <1>0 DEF TypeOK
  <2>2. c \notin job.waiters
    BY <2>0, <1>0 DEF Attended, Waiting
  <2>3. Matching(c)'
    BY <2>0, <2>1, <2>2, <1>a DEF Matching, DownKind
  <2> QED BY <2>0, <2>1, <2>3, <1>c, <1>d DEF Goal
<1>5. ASSUME NEW c \in Caller, Timeout(c) PROVE Goal
  <2>1. /\ job'.verb = job.verb /\ job'.waiters = job.waiters \ {c} /\ op' = op
        /\ op[c] \in Timed /\ result'[c] = "error" /\ pc'[c] = "reply"
        /\ \A d \in Caller : d # c => pc'[d] = pc[d] /\ result'[d] = result[d]
    BY <1>5, <1>0, ForgetFacts DEF Timeout, TypeOK
  <2>2. Matching(c)'
    BY <2>1 DEF Matching
  <2>3. \A d \in Caller : d # c => Matching(d)'
    BY <2>1, <1>d
  <2>4. CASE c \in job.waiters
    <3>1. op[c] \in Asks(job.verb)
      BY <2>1, <2>4, WaiterAsks DEF Timed, ByDaemon
    <3>2. Left(c)'
      BY <3>1, <2>1 DEF Left, Asks
    <3> QED BY <3>2, <2>2, <2>3 DEF Goal, Explained
  <2>5. CASE c \notin job.waiters
    <3>1. Explained
      BY <2>1, <2>5, <1>c
    <3> QED BY <3>1, <2>2, <2>3 DEF Goal
  <2> QED BY <2>4, <2>5
<1>6. CASE Systemd
  <2>1. job'.verb = "none" /\ job'.waiters = {} /\ UNCHANGED <<pc, op, result>>
    BY <1>6, <1>0, JobEndsFacts DEF Systemd, JobDone, JobFails
  <2> QED BY <2>1, <1>d DEF Goal, Explained
<1>7. CASE DaemonStops
  <2>1. /\ job'.verb = job.verb /\ job'.waiters = job.waiters \ Dying
        /\ UNCHANGED <<op, result>>
        /\ \A d \in Caller : pc'[d] = IF d \in Dying THEN "dead" ELSE pc[d]
    BY <1>7, <1>0, StopFacts, ForgetFacts
  <2>2. \A d \in Caller : Matching(d)'
    <3> SUFFICES ASSUME NEW d \in Caller PROVE Matching(d)'
      OBVIOUS
    <3>1. CASE d \in Dying BY <3>1, <2>1 DEF Matching
    <3>2. CASE d \notin Dying BY <3>2, <2>1, <1>d
    <3> QED BY <3>1, <3>2
  <2>3. ASSUME NEW c \in Caller, c \in Dying, c \in job.waiters PROVE Explained
    <3>1. op[c] \in Asks(job.verb)
      BY <2>3, WaiterAsks DEF Dying
    <3>2. Left(c)'
      BY <3>1, <2>1, <2>3 DEF Left, Asks
    <3> QED BY <3>2 DEF Explained
  <2>4. Explained
    <3>1. CASE job.waiters \cap Dying = {}
      BY <3>1, <2>1, <1>c
    <3>2. CASE job.waiters \cap Dying # {}
      BY <3>2, <2>3 DEF Dying
    <3> QED BY <3>1, <3>2
  <2> QED BY <2>2, <2>4 DEF Goal
<1>8. CASE Idle \/ UNCHANGED vars
  <2>1. UNCHANGED <<job, pc, op, result>> BY <1>8 DEF Idle, vars
  <2> QED BY <2>1, <1>c, <1>d DEF Goal
<1> QED BY <1>1, <1>2, <1>3, <1>4, <1>5, <1>6, <1>7, <1>8 DEF Next, Proceed

\* For any number of concurrent operations: the unit has an unattended job only
\* after an operation of the daemon that asked for it, ran out of time or died.
THEOREM LateJobsExplained == Spec => []LateJobAfterFailure
<1>1. LateInv => LateJobAfterFailure BY DEF LateInv
<1> QED BY <1>1, LateInit, LateStep, PTL DEF Spec

-----------------------------------------------------------------------------
\* What an operation has achieved at each of its labels while it is alone: a job
\* left by an earlier one was replaced by its own, or joined by it.
Achieved(c) ==
    /\ pc[c] \in Waiting =>
         \/ client[c] = "none" /\ job.verb = Verb(c) /\ c \in job.waiters
         \/ client[c] = "done" /\ job = NoJob /\ supplicant = (Verb(c) = "start")
         \/ client[c] = "failed"
    /\ pc[c] = "lease" => job = NoJob /\ supplicant
    /\ pc[c] = "release" => job = NoJob /\ ~supplicant
    /\ pc[c] = "reply" /\ result[c] = "ok" =>
         /\ job = NoJob
         /\ IF op[c] \in DownKind THEN ~supplicant /\ ~dhcp ELSE supplicant /\ dhcp
    /\ pc[c] \in {"check", "start", "starting", "lease"} => op[c] \notin DownKind
    /\ pc[c] \in {"stop", "stopping", "release"} => op[c] \notin UpKind

Alone(c) == \A d \in Caller : d # c => pc[d] \notin InFlight

SoloInv ==
    /\ Attended
    /\ \A c \in Caller \ met : pc[c] \in InFlight => Alone(c) /\ Achieved(c)

LEMMA SoloInitial == SoloInit => SoloInv
  BY AttendedInit DEF SoloInit, Init, SoloInv, InFlight, Running

\* The first step of an operation: all it has achieved is to know its way.
LEMMA BeginAchieves ==
    ASSUME TypeOK, NEW c \in Caller, Begin(c)
    PROVE  Achieved(c)'
<1>1. /\ op' = op
      /\ IF op[c] \in DownKind THEN pc'[c] = "stop" ELSE pc'[c] = "check"
  BY DEF Begin, TypeOK, Goto
<1>2. op[c] \in DownKind => op[c] \notin UpKind
  BY DEF UpKind, DownKind
<1> QED BY <1>1, <1>2 DEF Achieved, Waiting

\* The other steps of the operation itself.
LEMMA ProceedAchieves ==
    ASSUME TypeOK, TypeOK', Attended', NEW c \in Caller, Achieved(c),
           Proceed(c), ~Begin(c)
    PROVE  Achieved(c)'
<1> USE DEF Goto, Reply, host
<1>2. CASE CheckUp(c)
  <2>1. /\ pc'[c] \in {"start", "reply"} /\ op' = op /\ op[c] \notin DownKind
        /\ pc'[c] = "reply" => result'[c] = "error"
    BY <1>2 DEF CheckUp, TypeOK, UpKind, DownKind
  <2> QED BY <2>1 DEF Achieved, Waiting
<1>3. CASE CheckReload(c)
  <2>1. /\ pc'[c] \in {"stop", "reply"} /\ op' = op /\ op[c] \notin UpKind
        /\ pc'[c] = "reply" => result'[c] = "skipped"
    BY <1>3 DEF CheckReload, TypeOK, UpKind
  <2> QED BY <2>1 DEF Achieved, Waiting
<1>4. CASE Submit(c)
  <2>1. /\ c \in job'.waiters /\ job'.verb = pc[c]
        /\ pc[c] \in {"start", "stop"} /\ op' = op
        /\ pc'[c] = IF pc[c] = "start" THEN "starting" ELSE "stopping"
    BY <1>4, SubmitFacts DEF Submit, TypeOK
  <2>2. client'[c] = "none"
    BY <2>1 DEF Attended
  <2>3. /\ pc[c] = "start" => op[c] \notin DownKind
        /\ pc[c] = "stop" => op[c] \notin UpKind
    BY <2>1 DEF Achieved
  <2> QED BY <2>1, <2>2, <2>3 DEF Achieved, Waiting, Verb
<1>5. CASE Return(c)
  <2>1. /\ pc[c] \in Waiting /\ client[c] # "none"
        /\ UNCHANGED <<supplicant, dhcp, job, op>>
        /\ client[c] = "done" =>
             pc'[c] = IF pc[c] = "starting" THEN "lease" ELSE "release"
        /\ client[c] # "done" => pc'[c] = "reply" /\ result'[c] = "error"
    BY <1>5 DEF Return, TypeOK, Waiting
  <2> QED BY <2>1 DEF Achieved, Waiting, Verb
<1>6. CASE Respond(c)
  <2>1. pc'[c] = "done"
    BY <1>6 DEF Respond, TypeOK
  <2> QED BY <2>1 DEF Achieved, Waiting
<1> QED BY <1>2, <1>3, <1>4, <1>5, <1>6 DEF Proceed

\* dhcpcd's answers to it.
LEMMA DhcpcdAchieves ==
    ASSUME TypeOK, TypeOK', NEW c \in Caller, Achieved(c), Dhcpcd(c)
    PROVE  Achieved(c)'
<1> USE DEF Goto, Reply, host
<1>0. UNCHANGED <<supplicant, job, op>> /\ pc[c] \in {"lease", "release"}
  BY DEF Dhcpcd, Lease, LeaseFails, Release, ReleaseFails, TypeOK
<1>1. CASE Lease(c)
  <2>1. dhcp' = TRUE /\ pc[c] = "lease" /\ pc'[c] = "reply"
    BY <1>1 DEF Lease, TypeOK
  <2> QED BY <2>1, <1>0 DEF Achieved, Waiting
<1>2. CASE LeaseFails(c) \/ ReleaseFails(c)
  <2>1. CASE op[c] = "reload" /\ Goto(c, "start")
    BY <2>1, <1>0 DEF Achieved, Waiting, DownKind, TypeOK
  <2>2. CASE Reply(c, "error")
    BY <2>2, <1>0 DEF Achieved, Waiting, TypeOK
  <2> QED BY <2>1, <2>2, <1>2 DEF LeaseFails, ReleaseFails
<1>3. CASE Release(c)
  <2>1. /\ dhcp' = FALSE /\ pc[c] = "release"
        /\ IF op[c] = "reload" THEN pc'[c] = "start" ELSE pc'[c] = "reply"
    BY <1>3 DEF Release, TypeOK
  <2>2. op[c] = "reload" \/ op[c] \in DownKind
    BY <2>1, WanAssumption DEF Achieved, TypeOK, Kind, UpKind, DownKind
  <2> QED BY <2>1, <2>2, <1>0 DEF Achieved, Waiting, DownKind
<1> QED BY <1>1, <1>2, <1>3 DEF Dhcpcd

\* The job that it waits for, or one it has not joined, ends.
LEMMA SystemdAchieves ==
    ASSUME TypeOK, Attended, NEW c \in Caller, Achieved(c), Systemd
    PROVE  Achieved(c)'
<1>0. /\ UNCHANGED <<dhcp, pc, op, result>> /\ job' = NoJob /\ job # NoJob
  BY JobEndsFacts DEF Systemd, JobDone, JobFails, JobEnds, NoJob
<1>1. CASE pc[c] \notin Waiting
  BY <1>0, <1>1 DEF Achieved
<1>2. CASE pc[c] \in Waiting /\ client[c] # "none"
  <2>1. client[c] = "failed" /\ c \notin job.waiters
    BY <1>2, <1>0 DEF Achieved, Attended, TypeOK
  <2>2. client'[c] = "failed"
    BY <2>1, JobEndsFacts DEF Systemd, JobDone, JobFails
  <2> QED BY <2>2, <1>0, <1>2 DEF Achieved, Waiting
<1>3. CASE pc[c] \in Waiting /\ client[c] = "none"
  <2>1. job.verb = Verb(c) /\ c \in job.waiters
    BY <1>3 DEF Achieved
  <2>2. CASE JobDone
    <3>1. client'[c] = "done" /\ supplicant' = (Verb(c) = "start")
      BY <2>1, <2>2, JobEndsFacts DEF JobDone
    <3>2. Verb(c)' = Verb(c)
      BY <1>0 DEF Verb
    <3> QED BY <3>1, <3>2, <1>0, <1>3 DEF Achieved, Waiting
  <2>3. CASE JobFails
    <3>1. client'[c] = "failed"
      BY <2>1, <2>3, JobEndsFacts DEF JobFails
    <3> QED BY <3>1, <1>0, <1>3 DEF Achieved, Waiting
  <2> QED BY <2>2, <2>3 DEF Systemd
<1> QED BY <1>1, <1>2, <1>3

LEMMA SoloStep == SoloInv /\ [SoloNext]_svars => SoloInv'
<1> SUFFICES ASSUME SoloInv, [SoloNext]_svars PROVE SoloInv'
  OBVIOUS
<1>0. TypeOK /\ TypeOK' /\ Attended /\ Attended'
  BY AttendedStep DEF SoloInv, SoloNext, Attended, svars
<1>1. CASE UNCHANGED svars
  BY <1>0, <1>1 DEF svars, vars, SoloInv, Achieved, Alone, Verb
<1>2. CASE Next /\ Meet
  <2> SUFFICES ASSUME NEW c \in Caller, c \notin met', pc'[c] \in InFlight
               PROVE  Alone(c)' /\ Achieved(c)'
    BY <1>0 DEF SoloInv
  <2>1. Alone(c)' /\ c \notin met
    BY <1>2 DEF Alone, Meet
  <2> SUFFICES Achieved(c)'
    BY <2>1
  <2>2. pc[c] \in InFlight => Alone(c) /\ Achieved(c)
    BY <2>1 DEF SoloInv
  \* Another caller that moves would be in flight before or after its step.
  <2>3. ASSUME NEW d \in Caller, Proceed(d) \/ Dhcpcd(d) \/ Timeout(d) PROVE d = c
    <3> SUFFICES ASSUME d # c PROVE FALSE
      OBVIOUS
    <3>1. pc[d] \in InFlight \/ Begin(d)
      BY <2>3 DEF Proceed, Dhcpcd, Timeout, CheckUp, CheckReload, Submit, Return,
                  Respond, Lease, LeaseFails, Release, ReleaseFails, InFlight, Running
    <3>2. pc'[c] = pc[c]
      BY <2>3, <1>0, ZenonT(60) DEF Proceed, Dhcpcd, Timeout, Begin, CheckUp, CheckReload, Submit,
                  Return, Respond, Lease, LeaseFails, Release, ReleaseFails, Goto, Reply,
                  TypeOK
    <3>3. Begin(d) => pc'[d] \in InFlight
      BY <1>0 DEF Begin, Goto, TypeOK, InFlight, Running
    <3> QED BY <3>1, <3>2, <3>3, <2>1, <2>2 DEF Alone
  <2>4. ASSUME NEW d \in Caller, Proceed(d) PROVE Achieved(c)'
    <3>1. d = c
      BY <2>4, <2>3
    <3>2. CASE Begin(c)
      BY <3>2, <1>0, BeginAchieves
    <3>3. CASE ~Begin(c)
      <4>1. pc[c] \in InFlight
        BY <3>1, <3>3, <2>4 DEF Proceed, CheckUp, CheckReload, Submit, Return, Respond,
                                InFlight, Running
      <4> QED BY <4>1, <3>1, <3>3, <2>2, <2>4, <1>0, ProceedAchieves
    <3> QED BY <3>2, <3>3
  <2>5. ASSUME NEW d \in Caller, Dhcpcd(d) PROVE Achieved(c)'
    <3>1. d = c
      BY <2>5, <2>3
    <3>2. pc[c] \in InFlight
      BY <3>1, <2>5 DEF Dhcpcd, Lease, LeaseFails, Release, ReleaseFails, InFlight, Running
    <3> QED BY <3>1, <3>2, <2>2, <2>5, <1>0, DhcpcdAchieves
  <2>6. ASSUME NEW d \in Caller, Timeout(d) PROVE Achieved(c)'
    <3>1. d = c
      BY <2>6, <2>3
    <3>2. pc'[c] = "reply" /\ result'[c] = "error"
      BY <3>1, <2>6, <1>0 DEF Timeout, Reply, Goto, TypeOK
    <3> QED BY <3>2 DEF Achieved, Waiting
  <2>7. CASE Systemd
    <3>1. pc' = pc
      BY <2>7 DEF Systemd, JobDone, JobFails, JobEnds
    <3>2. Achieved(c)
      BY <3>1, <2>2
    <3> QED BY <3>2, <2>7, <1>0, SystemdAchieves
  <2>8. CASE DaemonStops
    <3>1. \A d \in Caller : pc'[d] = IF d \in Dying THEN "dead" ELSE pc[d]
      BY <2>8, <1>0, StopFacts
    <3>2. PICK z \in Caller : z \in Dying
      BY <2>8 DEF DaemonStops, Dying
    <3>3. pc[z] \in InFlight /\ z # c /\ pc[c] \in InFlight
      BY <3>1, <3>2 DEF Dying, InFlight, Running
    <3> QED BY <3>3, <2>2 DEF Alone
  <2>9. CASE Idle
    BY <2>9, <2>2 DEF Idle, vars, Achieved, Verb
  <2> QED BY <1>2, <2>4, <2>5, <2>6, <2>7, <2>8, <2>9 DEF Next
<1> QED BY <1>1, <1>2 DEF SoloNext

\* For any number of operations, before, after and around each other: one that no
\* other overlapped and that answers ok has brought supplicant and DHCP client into
\* the state asked for, after any failures, timeouts and restarts of the daemon.
THEOREM SoloOkIsTrue == SoloSpec => []OkMeansReached
<1>1. SoloInv => OkMeansReached
  BY DEF SoloInv, Achieved, OkMeansReached, InFlight
<1> QED BY <1>1, SoloInitial, SoloStep, PTL DEF SoloSpec
===============================================================================

------------------------------- MODULE WanSolo --------------------------------
(***************************************************************************)
(* WanControl with a record of which operations have overlapped another,   *)
(* so that what the code promises of an operation that had the link to     *)
(* itself can be stated while others come and go around it.                *)
(***************************************************************************)
EXTENDS WanControl

VARIABLE met    \* the callers that were in flight together with another

svars == <<vars, met>>

\* met is computed from the step that WanControl takes.
Meet == met' = met \cup {c \in Caller : pc'[c] \in InFlight
                           /\ \E d \in Caller \ {c} : pc'[d] \in InFlight}

SoloInit == Init /\ met = {}
SoloNext == Next /\ Meet

SoloSpec == SoloInit /\ [][SoloNext]_svars

\* FairSpec of WanControl, step for step.
FairSolo == /\ SoloSpec
            /\ \A c \in Caller : /\ WF_vars(Proceed(c))
                                 /\ WF_vars(pc[c] \in InSystemctl /\ Timeout(c))

-----------------------------------------------------------------------------
\* An operation that no other overlapped tells the truth with its ok: both the
\* supplicant and the DHCP client are up, or both are down, when it is sent, even
\* when operations before it overlapped, timed out or died and left a systemd job
\* behind (ops.go:31-72, config.go:96-113).
OkMeansReached ==
    \A c \in Caller \ met :
        pc[c] = "reply" /\ result[c] = "ok" =>
            IF op[c] \in DownKind THEN ~supplicant /\ ~dhcp
                                  ELSE supplicant /\ dhcp
===============================================================================

---------------------------- MODULE LazyCollector -----------------------------
(***************************************************************************)
(* The collectors behind /api/stats that run commands on demand: hotspot,  *)
(* wan and admin.  Each keeps one snapshot, which a request refreshes when *)
(* it is older than TTL; a mutex is taken once to look at the age and once *)
(* more to refresh, and the refresh looks at the age again.  A refresh     *)
(* asks the host several things one after the other, and a failure leaves  *)
(* some of what was known before next to the error.                        *)
(*                                                                         *)
(* A reading is known by the start of the refresh that took it, 0 stands   *)
(* for a blank one: what the host answers is left out, and when it was     *)
(* asked is kept.  A request whose client has gone away cancels its        *)
(* commands; that, too, is a command that fails.  Time is a counter of     *)
(* ticks.  It stands still in reads of files and between the steps of a    *)
(* refresh, not in commands.                                               *)
(***************************************************************************)
EXTENDS Integers

CONSTANTS
    Req,        \* requests for /api/stats that are served at once
    Kinds,      \* the collectors of the instance, one per behaviour
    TTL,        \* cacheTTL
    Exec,       \* execTimeout
    Horizon,    \* no request arrives later
    End,        \* the clock of the instance ends, after its last refresh
    Faults      \* TRUE: the interface may be absent, probes fail, commands hang

Kind == {"hotspot", "wan", "admin"}

ASSUME CollectorAssumption == /\ Kinds \subseteq Kind
                              /\ TTL \in Nat \ {0}
                              /\ {Exec, Horizon, End} \subseteq Nat
                              /\ Faults \in BOOLEAN

\* What the host is asked.  The commands run under the context's timeout, the
\* others are files.
Command == {"iw", "addr", "route"}
Probe == {"exists", "supplicant", "operstate", "leases"} \cup Command

\* The order of a refresh; wan stops early when the link is not connected.
After(k, p) ==
    CASE k = "hotspot" -> ( CASE p = "exists" -> {"iw"}
                              [] p = "iw" -> {"leases"}
                              [] OTHER -> {"end"} )
      [] k = "wan" ->     ( CASE p = "exists" -> {"iw"}
                              [] p = "iw" -> {"supplicant"}
                              [] p = "supplicant" -> {"addr", "end"}
                              [] p = "addr" -> {"route"}
                              [] OTHER -> {"end"} )
      [] OTHER ->         ( CASE p = "exists" -> {"operstate"}
                              [] p = "operstate" -> {"addr"}
                              [] p = "addr" -> {"route"}
                              [] OTHER -> {"end"} )

\* A failure that ends the refresh, one that is reported with its result, and one
\* that is passed over.
Fatal(k) == IF k = "admin" THEN {"addr"} ELSE Command
Reported(k) == IF k = "admin" THEN {"operstate"} ELSE {"leases"}
PassedOver(k) == {"supplicant", "leases"} \cup (IF k = "admin" THEN {"route"} ELSE {})

VARIABLES
    kind,       \* the collector
    now,
    snap,       \* the published snapshot
    lastAt,     \* when the last refresh started
    draft,      \* the refresh under way: start, next probe, readings, error
    pc, since,  \* where each request is, and when it arrived
    good        \* history: the readings of the last refresh without a failure

cache == <<snap, lastAt, good>>
vars == <<kind, now, cache, draft, pc, since>>

Blank == [p \in Probe |-> 0]
NoDraft(t) == [at |-> t, probe |-> "end", info |-> Blank, noted |-> ""]

Init ==
    /\ kind \in Kinds
    /\ now = TTL
    /\ snap = [at |-> TTL, info |-> Blank, err |-> ""]
    /\ lastAt = 0 /\ draft = NoDraft(0)
    /\ pc = [r \in Req |-> "idle"] /\ since = [r \in Req |-> 0]
    /\ good = Blank

Goto(r, label) == pc' = [pc EXCEPT ![r] = label]
Stale == now - lastAt >= TTL
Free == \A r \in Req : pc[r] # "refreshing"

\* Mutant: the commands run without a timeout.
NeverExpired == FALSE

\* The context of the refresh is over.
Expired == now >= draft.at + Exec

-----------------------------------------------------------------------------
Tick ==
    /\ now < IF Free THEN Horizon ELSE End
    /\ ~Free => ~Expired /\ draft.probe \in Command
    /\ now' = now + 1
    /\ UNCHANGED <<kind, cache, draft, pc, since>>

\* The handler of /api/stats calls Snapshot.
Arrive(r) ==
    /\ pc[r] = "idle" /\ now < Horizon
    /\ Goto(r, "check")
    /\ since' = [since EXCEPT ![r] = now]
    /\ UNCHANGED <<kind, now, cache, draft>>

Check(r) ==
    /\ pc[r] = "check" /\ Free
    /\ Goto(r, IF Stale THEN "refresh" ELSE "load")
    /\ UNCHANGED <<kind, now, cache, draft, since>>

\* Mutant: refresh trusts the look that Snapshot took at the age.
StartUnchecked(r) ==
    /\ pc[r] = "refresh" /\ Free
    /\ Goto(r, "refreshing")
    /\ draft' = [NoDraft(now) EXCEPT !.probe = "exists"]
    /\ UNCHANGED <<kind, now, cache, since>>

\* refresh, under the mutex: somebody else may have done it meanwhile.
Start(r) ==
    /\ pc[r] = "refresh" /\ Free
    /\ IF Stale THEN /\ Goto(r, "refreshing")
                     /\ draft' = [NoDraft(now) EXCEPT !.probe = "exists"]
                ELSE Goto(r, "load") /\ UNCHANGED draft
    /\ UNCHANGED <<kind, now, cache, since>>

\* Mutant: the age counts from the end of the refresh.
PublishAtEnd(r, info, err) ==
    /\ snap' = [at |-> draft.at, info |-> info, err |-> err]
    /\ lastAt' = now
    /\ draft' = NoDraft(draft.at)
    /\ Goto(r, "load")
    /\ UNCHANGED <<kind, now, since>>

\* A refresh ends: its snapshot is stored, dated from its start, and the mutex
\* released.
Publish(r, info, err) ==
    /\ snap' = [at |-> draft.at, info |-> info, err |-> err]
    /\ lastAt' = draft.at
    /\ draft' = NoDraft(draft.at)
    /\ Goto(r, "load")
    /\ UNCHANGED <<kind, now, since>>

Absent(r) ==
    /\ Faults
    /\ pc[r] = "refreshing" /\ draft.probe = "exists"
    /\ Publish(r, Blank, "absent")
    /\ good' = Blank

\* A probe answers.
Read(r) ==
    /\ pc[r] = "refreshing" /\ draft.probe # "end"
    /\ \E p \in After(kind, draft.probe) :
         draft' = [draft EXCEPT !.probe = p, !.info[draft.probe] = draft.at]
    /\ UNCHANGED <<kind, now, cache, pc, since>>

\* A probe fails and the refresh goes on without it.
GoOn(r) ==
    /\ Faults
    /\ pc[r] = "refreshing"
    /\ \E p \in After(kind, draft.probe), noted \in BOOLEAN :
         /\ draft.probe \in IF noted THEN Reported(kind) ELSE PassedOver(kind)
         /\ draft' = [draft EXCEPT !.probe = p,
                                   !.noted = IF noted THEN draft.probe ELSE @]
    /\ UNCHANGED <<kind, now, cache, pc, since>>

\* Mutants: a failure stores no readings at all; it blanks those there were.
KeptNil == [p \in {} |-> 0]
KeptNone == Blank

\* What is shown after a failure: what was there before, in admin next to the
\* new state of the link.
Kept == [p \in Probe |-> IF kind # "admin" \/ p \in {"addr", "route"}
                           THEN snap.info[p] ELSE draft.info[p]]

\* Mutant: the error is logged and not stored.
GiveUpQuietly(r) ==
    /\ Faults
    /\ pc[r] = "refreshing" /\ draft.probe \in Fatal(kind)
    /\ Publish(r, Kept, "")
    /\ UNCHANGED good

\* A command fails, is killed by the timeout or by the client that went away.
GiveUp(r) ==
    /\ Faults
    /\ pc[r] = "refreshing" /\ draft.probe \in Fatal(kind)
    /\ Publish(r, Kept, draft.probe)
    /\ UNCHANGED good

Finish(r) ==
    /\ pc[r] = "refreshing" /\ draft.probe = "end"
    /\ Publish(r, draft.info, draft.noted)
    /\ good' = draft.info

\* Snapshot returns what is published by now, and the handler answers with it.
Load(r) ==
    /\ pc[r] = "load"
    /\ Goto(r, "idle")
    /\ since' = [since EXCEPT ![r] = 0]
    /\ UNCHANGED <<kind, now, cache, draft>>

Refresh(r) == Absent(r) \/ Read(r) \/ GoOn(r) \/ GiveUp(r) \/ Finish(r)

\* The last request of the instance has been answered.
Over == now >= Horizon /\ (\A r \in Req : pc[r] = "idle") /\ UNCHANGED vars

Next == Tick \/ Over \/ \E r \in Req : \/ Arrive(r) \/ Check(r) \/ Start(r)
                                       \/ Refresh(r) \/ Load(r)

Spec == Init /\ [][Next]_vars

\* The clock runs, files are read at once and a command is killed when the context
\* is over; the mutex does not starve anybody, and a command may hang until then.
Prompt(r) == (draft.probe \in Command => Expired) /\ Refresh(r)

FairSpec == /\ Spec
            /\ WF_vars(Tick)
            /\ \A r \in Req : /\ WF_vars(Prompt(r)) /\ WF_vars(Load(r))
                              /\ SF_vars(Check(r)) /\ SF_vars(Start(r))
-----------------------------------------------------------------------------
(***************************************************************************)
(* Properties.                                                             *)
(***************************************************************************)
Info == [Probe -> Nat]
Err == {"", "absent"} \cup Probe

TypeOK ==
    /\ kind \in Kinds /\ now \in Nat /\ lastAt \in Nat
    /\ snap \in [at : Nat, info : Info, err : Err]
    /\ draft \in [at : Nat, probe : Probe \cup {"end"}, info : Info, noted : Err]
    /\ pc \in [Req -> {"idle", "check", "refresh", "refreshing", "load"}]
    /\ since \in [Req -> Nat]
    /\ good \in Info

\* However requests overlap, and however long the refresh of another one took, what
\* a request is about to be answered with was, when it arrived, not yet as old as
\* the lifetime of the cache: nobody gets the snapshot that made him refresh, nor
\* the placeholder of New (collector.go:99-130, wan/collector.go:94-116).
FreshWhenAsked ==
    \A r \in Req : pc[r] = "load" => snap.at = lastAt /\ snap.at + TTL > since[r]

\* A reading that is not of the snapshot's own refresh is only ever shown under the
\* error of a command that ended the refresh (handlers.go:298-300 "Last-good data is preserved on error and the
\* error text is surfaced").
OldOnlyUnderError ==
    snap.err \notin Fatal(kind) =>
        \A p \in Probe : snap.info[p] \in {0, snap.at}

\* However many refreshes in a row fail, what is shown of the last one that did not
\* is all of it, for admin its address and gateway; an absent interface alone wipes
\* it (hotspot/collector.go:30 "the cached result of a successful (or last-good)
\* refresh").
LastGood ==
    snap.err \in Fatal(kind) =>
        \A p \in (IF kind = "admin" THEN {"addr", "route"} ELSE Probe) :
            snap.info[p] = good[p]

\* However many requests poll, two refreshes never start less than the lifetime of
\* the cache apart (hotspot/collector.go:19-20 "cacheTTL bounds iw exec frequency
\* even under rapid polling").
RefreshesPaced ==
    [][\A r \in Req : pc[r] = "refresh" /\ pc'[r] = "refreshing"
                        => now >= draft.at + TTL]_vars

\* A command that hangs holds up every poll, and none for ever: each is answered
\* (hotspot/collector.go:20-21 "execTimeout prevents a hung iw from wedging the
\* handler").
EveryPollAnswered == \A r \in Req : pc[r] # "idle" ~> pc[r] = "idle"
===============================================================================

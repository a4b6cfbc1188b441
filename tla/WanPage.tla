-------------------------------- MODULE WanPage --------------------------------
(***************************************************************************)
(* The WAN buttons of the dashboard (app.js) for a user with the admin     *)
(* role, over the operations of WanControl.  The page learns about the     *)
(* link from polls alone.  Polls are started by a timer, are not           *)
(* cancelled, may be lost, and are rendered in any order; what they show   *)
(* is the collector's snapshot, which may be old.  A click is a request of *)
(* its own whose answer may be lost too.  wanPending is meant to keep the  *)
(* buttons locked while a click is under way.                              *)
(***************************************************************************)
EXTENDS WanControl

CONSTANTS
    Poll        \* polls in flight at once

\* What a snapshot says of wlan1 and of its supplicant.
Sight == {"absent", "inactive", "active"}
Button == {"up", "down"}

VARIABLES
    seen,       \* the collector's snapshot
    poll,       \* the snapshot each poll in flight brings
    web,        \* the page's request for each caller
    pending,    \* wanPending, "" for null
    active,     \* lastSupplicantActive
    shown,      \* the buttons are visible
    disabled    \* the buttons that are disabled

page == <<pending, active, shown, disabled>>
pvars == <<vars, seen, poll, web, page>>

PageInit ==
    /\ Init
    /\ seen = "absent"
    /\ poll = [p \in Poll |-> "idle"]
    /\ web = [c \in Caller |-> "none"]
    /\ pending = "" /\ active = FALSE /\ shown = FALSE /\ disabled = {}

\* The buttons that make no sense for the supplicant's state.
Pointless(on) == IF on THEN {"up"} ELSE {"down"}

-----------------------------------------------------------------------------
(***************************************************************************)
(* The host: operations run as in WanControl, those of the page once they  *)
(* were clicked; the adapter is pulled and plugged, wpa_supplicant exits.  *)
(***************************************************************************)
Serve(c) ==
    /\ pc[c] = "idle" /\ op[c] \in Button => web[c] = "sent"
    /\ Proceed(c)
    /\ UNCHANGED <<seen, poll, web, page>>

Work == /\ Systemd \/ DaemonStops \/ \E c \in Caller : Dhcpcd(c) \/ Timeout(c)
        /\ UNCHANGED <<seen, poll, web, page>>

Replug ==
    /\ Faults
    /\ adapter' \in IF adapter = "absent" THEN {"wired", "wireless"} ELSE {"absent"}
    /\ UNCHANGED <<host, pc, op, result, seen, poll, web, page>>

SupplicantExits ==
    /\ Faults
    /\ supplicant' = FALSE
    /\ UNCHANGED <<adapter, dhcp, job, client, pc, op, result, seen, poll, web, page>>

\* Mutant: the snapshot says what the adapter is and not what it does.
CollectAdapter == seen' = adapter /\ UNCHANGED <<vars, poll, web, page>>

\* A refresh of the WAN collector that gets as far as the supplicant.  On a wired
\* wlan1 iw fails, and the snapshot keeps what it says of adapter and supplicant.
Collect ==
    /\ adapter # "wired"
    /\ seen' = IF adapter = "absent" THEN "absent"
               ELSE IF supplicant THEN "active" ELSE "inactive"
    /\ UNCHANGED <<vars, poll, web, page>>

-----------------------------------------------------------------------------
(***************************************************************************)
(* The refresh loop: tick and render.                                      *)
(***************************************************************************)

\* The timer starts a poll, which /api/stats answers with what the collector has.
Tick(p) ==
    /\ poll[p] = "idle"
    /\ poll' = [poll EXCEPT ![p] = seen]
    /\ UNCHANGED <<vars, seen, web, page>>

TickFails(p) ==
    /\ Faults
    /\ poll[p] # "idle"
    /\ poll' = [poll EXCEPT ![p] = "idle"]
    /\ UNCHANGED <<vars, seen, web, page>>

\* Mutant: the pending operation is never confirmed.
Unconfirmed(w) == FALSE

\* The snapshot shows what the pending operation was after.
Confirmed(w) == pending = IF w = "active" THEN "up" ELSE "down"

\* renderWAN: without an adapter the buttons go and nothing is pending; while
\* something is, also in the pass that confirms it, both stay locked.
Render(p) ==
    /\ poll[p] \in Sight
    /\ poll' = [poll EXCEPT ![p] = "idle"]
    /\ active' = (poll[p] = "active")
    /\ shown' = (poll[p] # "absent")
    /\ pending' = IF poll[p] = "absent" \/ Confirmed(poll[p]) THEN "" ELSE pending
    /\ disabled' = IF poll[p] = "absent" THEN disabled
                   ELSE IF pending # "" THEN Button
                   ELSE Pointless(poll[p] = "active")
    /\ UNCHANGED <<vars, seen, web>>

-----------------------------------------------------------------------------
\* wanOp: the click of a visible button that is not disabled sends a request.
Click(c) ==
    /\ op[c] \in Button /\ web[c] = "none"
    /\ shown /\ op[c] \notin disabled
    /\ pending' = op[c]
    /\ web' = [web EXCEPT ![c] = "sent"]
    /\ UNCHANGED <<vars, seen, poll, active, shown, disabled>>

Succeeds(c) ==
    /\ web[c] = "sent"
    /\ pc[c] = "done" /\ result[c] = "ok"
    /\ web' = [web EXCEPT ![c] = "ok"]
    /\ UNCHANGED <<vars, seen, poll, page>>

\* Mutants: the buttons come back and the operation stays pending; both buttons
\* are unlocked.
FailsPending(c) ==
    /\ web[c] = "sent"
    /\ Faults \/ pc[c] = "dead" \/ (pc[c] = "done" /\ result[c] # "ok")
    /\ web' = [web EXCEPT ![c] = "failed"]
    /\ disabled' = Pointless(active)
    /\ UNCHANGED <<vars, seen, poll, active, pending, shown>>

FailsUnlocked(c) ==
    /\ web[c] = "sent"
    /\ Faults \/ pc[c] = "dead" \/ (pc[c] = "done" /\ result[c] # "ok")
    /\ web' = [web EXCEPT ![c] = "failed"]
    /\ pending' = "" /\ disabled' = {}
    /\ UNCHANGED <<vars, seen, poll, active, shown>>

\* The operation failed, the helper stopped, or the answer was lost: whatever is
\* pending is not any more, and the buttons are those of the last render.
Fails(c) ==
    /\ web[c] = "sent"
    /\ Faults \/ pc[c] = "dead" \/ (pc[c] = "done" /\ result[c] # "ok")
    /\ web' = [web EXCEPT ![c] = "failed"]
    /\ pending' = "" /\ disabled' = Pointless(active)
    /\ UNCHANGED <<vars, seen, poll, active, shown>>

PageNext ==
    \/ Work \/ Replug \/ SupplicantExits \/ Collect
    \/ \E c \in Caller : Serve(c) \/ Click(c) \/ Succeeds(c) \/ Fails(c)
    \/ \E p \in Poll : Tick(p) \/ TickFails(p) \/ Render(p)

PageSpec == PageInit /\ [][PageNext]_pvars

\* The timer fires, the collector is asked and refreshes, and polls get through
\* again and again; clicks, the host and the adapter are nobody's duty.
FairPage ==
    /\ PageSpec
    /\ WF_pvars(Collect)
    /\ \A p \in Poll : WF_pvars(Tick(p)) /\ SF_pvars(Render(p))
-----------------------------------------------------------------------------
(***************************************************************************)
(* Properties.                                                             *)
(***************************************************************************)
PageTypeOK ==
    /\ TypeOK
    /\ seen \in Sight
    /\ poll \in [Poll -> {"idle"} \cup Sight]
    /\ web \in [Caller -> {"none", "sent", "ok", "failed"}]
    /\ pending \in {""} \cup Button
    /\ active \in BOOLEAN /\ shown \in BOOLEAN
    /\ disabled \subseteq Button

\* However polls, answers and failures cross, a button that can be clicked is the
\* one the last rendered snapshot calls for, and never both at once
\* (app.js:334-352, 207-238).
OneWay == shown => Pointless(active) \subseteq disabled

\* Something is pending only as long as a click on that button is under way or
\* has succeeded: no failure, of whichever click, leaves the page waiting
\* (app.js:364-381).
PendingHasCause ==
    pending # "" => \E c \in Caller : op[c] = pending /\ web[c] \in {"sent", "ok"}

\* Whatever was lost or rendered out of order, once the link stays as it is and
\* does not contradict what is pending, the buttons come to agree with it and stay
\* so (app.js:209-237).
ButtonsSettle ==
    \A on \in BOOLEAN :
        <>[](/\ adapter = "wireless" /\ supplicant = on
             /\ pending \in {"", IF on THEN "up" ELSE "down"})
        => <>[](shown /\ disabled = Pointless(on))

\* A poll that is rendered while a click is under way leaves both buttons locked
\* (app.js:360-362 "any tick() that fires while the request is in-flight sees the
\* pending state and keeps both buttons locked").
LockedInFlight ==
    [][\A p \in Poll : Render(p) /\ shown' /\ (\E c \in Caller : web[c] = "sent")
                         => disabled' = Button]_pvars
===============================================================================

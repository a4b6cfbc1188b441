----------------------------- MODULE WanPageProofs -----------------------------
(***************************************************************************)
(* Proofs about WanPage, for any number of clicks and of polls in flight,  *)
(* over any operations of WanControl.                                      *)
(***************************************************************************)
EXTENDS WanPage, WanControlProofs

\* What the host does leaves the operations as they were asked for.
LEMMA OpKept == [Next]_vars => op' = op
  BY DEF Next, vars, Proceed, Begin, CheckUp, CheckReload, Submit, Return, Respond,
         Dhcpcd, Lease, LeaseFails, Release, ReleaseFails, Timeout, Systemd, JobDone,
         JobFails, JobEnds, DaemonStops, Idle

PageInv == PageTypeOK /\ OneWay /\ PendingHasCause

LEMMA PageInitInv == PageInit => PageInv
<1> SUFFICES ASSUME PageInit PROVE PageInv
  OBVIOUS
<1>1. TypeOK
  BY TypeInit DEF PageInit
<1>2. PageTypeOK
  BY <1>1 DEF PageInit, PageTypeOK, Sight, Button
<1> QED BY <1>2 DEF PageInit, PageInv, OneWay, PendingHasCause

\* The host's steps, which the page does not see.
LEMMA HostStep ==
    ASSUME PageInv, TypeOK', op' = op, UNCHANGED <<poll, web, page>>, seen' \in Sight
    PROVE  PageInv'
<1>1. UNCHANGED <<pending, active, shown, disabled>>
  BY DEF page
<1>2. PageTypeOK'
  BY <1>1 DEF PageInv, PageTypeOK
<1>3. OneWay' /\ PendingHasCause'
  BY <1>1 DEF PageInv, OneWay, PendingHasCause
<1> QED BY <1>2, <1>3 DEF PageInv

LEMMA PageStep == PageInv /\ [PageNext]_pvars => PageInv'
<1> SUFFICES ASSUME PageInv, [PageNext]_pvars PROVE PageInv'
  OBVIOUS
<1>0. /\ TypeOK /\ seen \in Sight /\ pending \in {""} \cup Button
      /\ poll \in [Poll -> {"idle"} \cup Sight]
      /\ web \in [Caller -> {"none", "sent", "ok", "failed"}]
      /\ active \in BOOLEAN /\ shown \in BOOLEAN /\ disabled \subseteq Button
  BY DEF PageInv, PageTypeOK
<1>1. ASSUME [Next]_vars PROVE TypeOK' /\ op' = op
  BY <1>0, <1>1, TypeStep, OpKept
<1>2. ASSUME NEW c \in Caller, Serve(c) PROVE PageInv'
  <2>1. Next
    BY <1>2 DEF Serve, Next
  <2> QED BY <1>0, <1>1, <1>2, <2>1, HostStep DEF Serve
<1>3. CASE Work
  <2>1. Next
    BY <1>3 DEF Work, Next
  <2> QED BY <1>0, <1>1, <1>3, <2>1, HostStep DEF Work
<1>4. CASE Replug \/ SupplicantExits
  <2>1. TypeOK' /\ op' = op /\ UNCHANGED <<seen, poll, web, page>>
    BY <1>0, <1>4 DEF Replug, SupplicantExits, TypeOK, host
  <2> QED BY <1>0, <2>1, HostStep
<1>5. CASE Collect
  <2>1. seen' \in Sight /\ UNCHANGED <<vars, poll, web, page>>
    BY <1>5 DEF Collect, Sight
  <2> QED BY <1>1, <2>1, HostStep
<1>6. ASSUME NEW p \in Poll, Tick(p) \/ TickFails(p) PROVE PageInv'
  <2>1. /\ UNCHANGED vars /\ UNCHANGED <<seen, web, pending, active, shown, disabled>>
        /\ poll' \in [Poll -> {"idle"} \cup Sight]
    BY <1>0, <1>6 DEF Tick, TickFails, page
  <2>2. TypeOK' /\ op' = op
    BY <1>1, <2>1
  <2> QED BY <1>0, <2>1, <2>2 DEF PageInv, PageTypeOK, OneWay, PendingHasCause
<1>7. ASSUME NEW p \in Poll, Render(p) PROVE PageInv'
  <2>1. /\ UNCHANGED vars /\ seen' = seen /\ web' = web
        /\ poll' = [poll EXCEPT ![p] = "idle"]
        /\ active' = (poll[p] = "active") /\ shown' = (poll[p] # "absent")
        /\ pending' \in {"", pending}
    BY <1>7 DEF Render
  <2>2. TypeOK' /\ op' = op
    BY <1>1, <2>1
  <2>3. disabled' \subseteq Button
    BY <1>0, <1>7 DEF Render, Pointless, Button
  <2>4. PageTypeOK'
    BY <1>0, <2>1, <2>2, <2>3 DEF PageTypeOK
  <2>5. OneWay'
    <3>1. CASE poll[p] = "absent" BY <2>1, <3>1 DEF OneWay
    <3>2. CASE poll[p] # "absent" /\ pending # ""
      <4>1. disabled' = Button
        BY <1>7, <3>2 DEF Render
      <4> QED BY <4>1 DEF OneWay, Pointless, Button
    <3>3. CASE poll[p] # "absent" /\ pending = ""
      <4>1. disabled' = Pointless(active')
        BY <1>7, <2>1, <3>3 DEF Render
      <4> QED BY <4>1 DEF OneWay, Pointless
    <3> QED BY <3>1, <3>2, <3>3
  <2>6. PendingHasCause'
    BY <2>1, <2>2 DEF PageInv, PendingHasCause
  <2> QED BY <2>4, <2>5, <2>6 DEF PageInv
<1>8. ASSUME NEW c \in Caller, Click(c) PROVE PageInv'
  <2>1. /\ UNCHANGED vars /\ UNCHANGED <<seen, poll, active, shown, disabled>>
        /\ op[c] \in Button /\ pending' = op[c]
        /\ web' = [web EXCEPT ![c] = "sent"]
    BY <1>8 DEF Click
  <2>2. TypeOK' /\ op' = op
    BY <1>1, <2>1
  <2>3. web'[c] = "sent"
    BY <1>0, <2>1
  <2>4. PageTypeOK'
    BY <1>0, <2>1, <2>2 DEF PageTypeOK
  <2>5. OneWay' /\ PendingHasCause'
    BY <2>1, <2>2, <2>3 DEF PageInv, OneWay, PendingHasCause
  <2> QED BY <2>4, <2>5 DEF PageInv
<1>9. ASSUME NEW c \in Caller, Succeeds(c) PROVE PageInv'
  <2>1. /\ UNCHANGED vars /\ UNCHANGED <<seen, poll, pending, active, shown, disabled>>
        /\ web' = [web EXCEPT ![c] = "ok"]
    BY <1>9 DEF Succeeds, page
  <2>2. TypeOK' /\ op' = op
    BY <1>1, <2>1
  <2>3. \A d \in Caller : web[d] \in {"sent", "ok"} => web'[d] \in {"sent", "ok"}
    BY <1>0, <2>1
  <2>4. PageTypeOK'
    BY <1>0, <2>1, <2>2 DEF PageTypeOK
  <2>5. OneWay' /\ PendingHasCause'
    BY <2>1, <2>2, <2>3 DEF PageInv, OneWay, PendingHasCause
  <2> QED BY <2>4, <2>5 DEF PageInv
<1>10. ASSUME NEW c \in Caller, Fails(c) PROVE PageInv'
  <2>1. /\ UNCHANGED vars /\ UNCHANGED <<seen, poll, active, shown>>
        /\ web' = [web EXCEPT ![c] = "failed"]
        /\ pending' = "" /\ disabled' = Pointless(active)
    BY <1>10 DEF Fails
  <2>2. TypeOK' /\ op' = op
    BY <1>1, <2>1
  <2>3. Pointless(active) \subseteq Button
    BY DEF Pointless, Button
  <2>4. PageTypeOK'
    BY <1>0, <2>1, <2>2, <2>3 DEF PageTypeOK
  <2>5. OneWay' /\ PendingHasCause'
    BY <2>1 DEF OneWay, PendingHasCause, Pointless
  <2> QED BY <2>4, <2>5 DEF PageInv
<1>11. CASE UNCHANGED pvars
  BY <1>0, <1>1, <1>11, HostStep DEF pvars
<1> QED BY <1>2, <1>3, <1>4, <1>5, <1>6, <1>7, <1>8, <1>9, <1>10, <1>11 DEF PageNext

LEMMA PageInvHolds == PageSpec => []PageInv
  BY PageInitInv, PageStep, PTL DEF PageSpec

-----------------------------------------------------------------------------
\* Types hold throughout, of the page and of the host below it.
THEOREM PageTypeCorrect == PageSpec => []PageTypeOK
<1>1. PageInv => PageTypeOK BY DEF PageInv
<1> QED BY <1>1, PageInvHolds, PTL

\* For any number of clicks and of polls rendered in any order, a button that can
\* be clicked is the one the last rendered snapshot calls for (renderWAN, wanOp).
THEOREM ButtonsOneWay == PageSpec => []OneWay
<1>1. PageInv => OneWay BY DEF PageInv
<1> QED BY <1>1, PageInvHolds, PTL

\* Whichever clicks fail, and in whatever order their answers come, the page only
\* waits for a click that is under way or has succeeded (wanOp).
THEOREM PendingExplained == PageSpec => []PendingHasCause
<1>1. PageInv => PendingHasCause BY DEF PageInv
<1> QED BY <1>1, PageInvHolds, PTL
===============================================================================

-------------------------- MODULE LazyCollectorProofs --------------------------
(***************************************************************************)
(* Proofs about LazyCollector: the ages a request can be answered with, the *)
(* pace of the refreshes and what is shown after failures, for any number  *)
(* of requests, any lifetime of the cache and any timeout.                 *)
(***************************************************************************)
EXTENDS LazyCollector, TLAPS

\* At most one request refreshes: the mutex.
OneRefresher ==
    \A r, s \in Req : pc[r] = "refreshing" /\ pc[s] = "refreshing" => r = s

\* The refresh under way is the latest start, at least a lifetime after the one
\* before; without one, the latest start is that of the published snapshot.
Clock ==
    /\ now >= TTL /\ lastAt <= now /\ draft.at <= now
    /\ lastAt = 0 \/ snap.at = lastAt
    /\ Free => draft.at = lastAt
    /\ ~Free => draft.at >= lastAt + TTL

\* A request that refreshes came before the refresh.
Arrivals ==
    \A r \in Req : /\ since[r] <= now
                   /\ pc[r] = "refreshing" => since[r] <= draft.at

\* A draft holds nothing that its refresh has not read.
OwnReadings == \A p \in Probe : draft.info[p] \in {0, draft.at}

\* The readings that outlast a failure are those of the last refresh without one.
Lasting == IF kind = "admin" THEN {"addr", "route"} ELSE Probe
Remembered == \A p \in Lasting : snap.info[p] = good[p]

Inv ==
    /\ TypeOK /\ OneRefresher /\ Clock /\ Arrivals
    /\ FreshWhenAsked
    /\ OwnReadings /\ OldOnlyUnderError /\ Remembered

-----------------------------------------------------------------------------
\* The order of a refresh leads from a probe to a probe or to its end.
LEMMA AfterProbe ==
    ASSUME NEW k, NEW p \in Probe, NEW q \in After(k, p)
    PROVE  q \in Probe \cup {"end"}
<1>1. CASE k = "hotspot" BY <1>1 DEF After, Probe, Command
<1>2. CASE k = "wan" BY <1>2 DEF After, Probe, Command
<1>3. CASE k # "hotspot" /\ k # "wan" BY <1>3 DEF After, Probe, Command
<1> QED BY <1>1, <1>2, <1>3

LEMMA InitInv == Init => Inv
<1> SUFFICES ASSUME Init PROVE Inv
  OBVIOUS
<1> USE CollectorAssumption
<1>1. Blank \in Info
  BY DEF Blank, Info
<1>2. TypeOK
  BY <1>1 DEF Init, TypeOK, NoDraft, Err
<1>3. OneRefresher /\ Clock /\ Arrivals /\ FreshWhenAsked
  <2>1. /\ now = TTL /\ lastAt = 0 /\ draft.at = 0
        /\ \A r \in Req : pc[r] = "idle" /\ since[r] = 0
    BY DEF Init, NoDraft
  <2>2. OneRefresher /\ Free /\ FreshWhenAsked
    BY <2>1 DEF OneRefresher, Free, FreshWhenAsked
  <2>3. Clock
    BY <2>1, <2>2 DEF Clock
  <2>4. Arrivals
    <3>1. 0 <= now
      BY <2>1
    <3>2. \A r \in Req : since[r] <= now /\ pc[r] # "refreshing"
      BY <2>1, <3>1
    <3> QED BY <3>2 DEF Arrivals
  <2> QED BY <2>2, <2>3, <2>4
<1>4. OwnReadings /\ OldOnlyUnderError /\ Remembered
  BY DEF Init, OwnReadings, OldOnlyUnderError, Remembered, Lasting, NoDraft, Blank, Probe, Command
<1> QED BY <1>2, <1>3, <1>4 DEF Inv

\* What a refresh that ends with readings info and error err needs for Inv.
LEMMA PublishStep ==
    ASSUME Inv, NEW r \in Req, pc[r] = "refreshing",
           NEW info \in Info, NEW err \in Err, Publish(r, info, err),
           good' \in Info,
           err \notin Fatal(kind) => \A p \in Probe : info[p] \in {0, draft.at},
           \A p \in Lasting : info[p] = good'[p]
    PROVE  Inv'
<1> USE CollectorAssumption
<1>1. TypeOK'
  BY DEF Inv, TypeOK, Publish, NoDraft, Goto, Blank, Info, Err
<1>2. /\ pc' = [pc EXCEPT ![r] = "load"] /\ UNCHANGED <<kind, now, since>>
      /\ snap'.at = draft.at /\ snap'.info = info /\ snap'.err = err
      /\ lastAt' = draft.at /\ draft'.at = draft.at /\ draft'.info = Blank
  BY DEF Publish, Goto, NoDraft
<1>3. /\ now \in Nat /\ lastAt \in Nat /\ draft.at \in Nat /\ TTL \in Nat /\ TTL > 0
      /\ since \in [Req -> Nat] /\ pc \in [Req -> {"idle", "check", "refresh", "refreshing", "load"}]
  BY DEF Inv, TypeOK
<1>4. Free' /\ ~Free
  BY <1>2, <1>3 DEF Free, Inv, OneRefresher
<1>5. OneRefresher' /\ Clock' /\ Arrivals'
  <2>1. OneRefresher' BY <1>2, <1>3, <1>4 DEF OneRefresher, Free
  <2>2. Clock' BY <1>2, <1>3, <1>4 DEF Clock, Inv
  <2>3. Arrivals' BY <1>2, <1>3, <1>4 DEF Arrivals, Inv, Free
  <2> QED BY <2>1, <2>2, <2>3
<1>6. FreshWhenAsked'
  <2> SUFFICES ASSUME NEW s \in Req, pc'[s] = "load"
               PROVE  draft.at + TTL > since[s]
    BY <1>2 DEF FreshWhenAsked
  <2>1. CASE s = r
    BY <2>1, <1>2, <1>3 DEF Inv, Arrivals
  <2>2. CASE s # r
    BY <2>2, <1>2, <1>3, <1>4 DEF Inv, FreshWhenAsked, Clock
  <2> QED BY <2>1, <2>2
<1>7. OwnReadings' /\ OldOnlyUnderError'
  <2>1. OwnReadings' BY <1>2 DEF OwnReadings, Blank
  <2>2. OldOnlyUnderError' BY <1>2 DEF OldOnlyUnderError
  <2> QED BY <2>1, <2>2
<1>8. Remembered'
  BY <1>2 DEF Remembered, Lasting
<1> QED BY <1>1, <1>5, <1>6, <1>7, <1>8 DEF Inv

\* A refresh that goes on keeps Inv if it only adds readings of its own.
LEMMA DraftStep ==
    ASSUME Inv, UNCHANGED <<kind, now, cache, pc, since>>,
           draft' \in [at : Nat, probe : Probe \cup {"end"}, info : Info, noted : Err],
           draft'.at = draft.at,
           \A q \in Probe : draft'.info[q] \in {0, draft.at}
    PROVE  Inv'
<1>1. TypeOK'
  BY DEF cache, Inv, TypeOK
<1>2. OneRefresher' /\ Clock' /\ Arrivals' /\ FreshWhenAsked'
  BY DEF cache, Inv, OneRefresher, Clock, Free, Arrivals, FreshWhenAsked
<1>3. OwnReadings' /\ OldOnlyUnderError' /\ Remembered'
  BY DEF cache, Inv, OwnReadings, OldOnlyUnderError, Remembered, Lasting
<1> QED BY <1>1, <1>2, <1>3 DEF Inv

LEMMA InvStep == Inv /\ [Next]_vars => Inv'
<1> SUFFICES ASSUME Inv, [Next]_vars PROVE Inv'
  OBVIOUS
<1> USE CollectorAssumption
<1>0. /\ kind \in Kinds /\ now \in Nat /\ lastAt \in Nat
      /\ draft.at \in Nat /\ draft.probe \in Probe \cup {"end"} /\ draft.info \in Info
      /\ snap.at \in Nat /\ snap.info \in Info
      /\ pc \in [Req -> {"idle", "check", "refresh", "refreshing", "load"}]
      /\ since \in [Req -> Nat]
  BY DEF Inv, TypeOK
<1>1. CASE UNCHANGED vars
  BY <1>1 DEF vars, cache, Inv, TypeOK, OneRefresher, Clock, Free, Arrivals,
              FreshWhenAsked, OwnReadings, OldOnlyUnderError, Remembered, Lasting
<1>2. CASE Tick
  <2>1. TypeOK' /\ OneRefresher' /\ OwnReadings' /\ OldOnlyUnderError' /\ Remembered'
    BY <1>2 DEF Tick, cache, Inv, TypeOK, OneRefresher, OwnReadings, OldOnlyUnderError,
                Remembered, Lasting
  <2>2. Clock' /\ Arrivals' /\ FreshWhenAsked'
    BY <1>0, <1>2 DEF Tick, cache, Inv, Clock, Free, Arrivals, FreshWhenAsked
  <2> QED BY <2>1, <2>2 DEF Inv
<1>3. ASSUME NEW r \in Req, Arrive(r) \/ Check(r) \/ Load(r) \/ (Start(r) /\ ~Stale)
      PROVE  Inv'
  <2>1. /\ UNCHANGED <<kind, now, cache, draft>>
        /\ pc' = [pc EXCEPT ![r] = pc'[r]] /\ pc[r] # "refreshing"
        /\ pc'[r] \in {"idle", "check", "refresh", "load"}
        /\ since' = [since EXCEPT ![r] = since'[r]] /\ since'[r] \in Nat
        /\ since'[r] <= now
    BY <1>0, <1>3 DEF Arrive, Check, Load, Start, Goto, Inv, Arrivals
  <2>2. Free' <=> Free
    BY <1>0, <2>1 DEF Free
  <2>3. pc'[r] = "load" => snap.at = lastAt /\ snap.at + TTL > since'[r]
    BY <1>0, <1>3 DEF Arrive, Check, Load, Start, Goto, Stale, Inv, Clock, Arrivals
  <2>4. TypeOK'
    BY <1>0, <2>1 DEF cache, Inv, TypeOK
  <2>5. OneRefresher' /\ Clock' /\ Arrivals'
    BY <1>0, <2>1, <2>2 DEF cache, Inv, OneRefresher, Clock, Arrivals
  <2>6. FreshWhenAsked'
    BY <1>0, <2>1, <2>3 DEF cache, Inv, FreshWhenAsked
  <2>7. OwnReadings' /\ OldOnlyUnderError' /\ Remembered'
    BY <2>1 DEF cache, Inv, OwnReadings, OldOnlyUnderError, Remembered, Lasting
  <2> QED BY <2>4, <2>5, <2>6, <2>7 DEF Inv
<1>4. ASSUME NEW r \in Req, Start(r), Stale
      PROVE  Inv'
  <2>1. /\ UNCHANGED <<kind, now, cache, since>> /\ Free
        /\ pc' = [pc EXCEPT ![r] = "refreshing"]
        /\ draft' = [at |-> now, probe |-> "exists", info |-> Blank, noted |-> ""]
    BY <1>4 DEF Start, Goto, NoDraft
  <2>2. TypeOK'
    BY <1>0, <2>1 DEF cache, Inv, TypeOK, Blank, Info, Err, Probe
  <2>3. OneRefresher' /\ ~Free'
    BY <1>0, <2>1 DEF OneRefresher, Free
  <2>4. Clock' /\ Arrivals'
    <3>1. /\ lastAt' = lastAt /\ now' = now /\ snap' = snap /\ draft'.at = now
          /\ now >= lastAt + TTL
      <4>1. lastAt' = lastAt /\ now' = now /\ snap' = snap
        BY <2>1 DEF cache
      <4>2. draft'.at = now
        BY <2>1
      <4>3. TTL \in Nat
        OBVIOUS
      <4>4. now >= lastAt + TTL
        BY <1>0, <1>4, <4>3 DEF Stale
      <4> QED BY <4>1, <4>2, <4>4
    <3>2. Clock'
      BY <1>0, <3>1, <2>3 DEF Inv, Clock
    <3>3. Arrivals'
      BY <1>0, <2>1, <3>1 DEF Inv, Arrivals
    <3> QED BY <3>2, <3>3
  <2>5. FreshWhenAsked'
    BY <1>0, <2>1 DEF cache, Inv, FreshWhenAsked
  <2>6. OwnReadings' /\ OldOnlyUnderError' /\ Remembered'
    BY <2>1 DEF cache, Inv, OwnReadings, OldOnlyUnderError, Remembered, Lasting, Blank
  <2> QED BY <2>2, <2>3, <2>4, <2>5, <2>6 DEF Inv
<1>5. ASSUME NEW r \in Req, Read(r)
      PROVE  Inv'
  <2>1. PICK p \in After(kind, draft.probe) :
          draft' = [draft EXCEPT !.probe = p, !.info[draft.probe] = draft.at]
    BY <1>5 DEF Read
  <2>2. draft.probe \in Probe /\ p \in Probe \cup {"end"}
    BY <1>0, <1>5, AfterProbe DEF Read
  <2>3. /\ draft'.at = draft.at /\ draft'.probe = p /\ draft'.noted = draft.noted
        /\ draft'.info = [draft.info EXCEPT ![draft.probe] = draft.at]
        /\ draft' \in [at : Nat, probe : Probe \cup {"end"}, info : Info, noted : Err]
    BY <1>0, <2>1, <2>2 DEF Inv, TypeOK, Info
  <2>4. \A q \in Probe : draft'.info[q] \in {0, draft.at}
    BY <1>0, <2>2, <2>3 DEF Inv, OwnReadings, Info
  <2> QED BY <1>5, <2>3, <2>4, DraftStep DEF Read
<1>6. ASSUME NEW r \in Req, GoOn(r)
      PROVE  Inv'
  <2>1. PICK p \in After(kind, draft.probe), noted \in BOOLEAN :
          /\ draft.probe \in IF noted THEN Reported(kind) ELSE PassedOver(kind)
          /\ draft' = [draft EXCEPT !.probe = p,
                                    !.noted = IF noted THEN draft.probe ELSE @]
    BY <1>6 DEF GoOn
  <2>2. draft.probe \in Probe /\ p \in Probe \cup {"end"}
    <3>1. draft.probe \in Probe
      BY <2>1 DEF Reported, PassedOver, Probe, Command
    <3> QED BY <3>1, AfterProbe
  <2>3. /\ draft'.at = draft.at /\ draft'.info = draft.info
        /\ draft' \in [at : Nat, probe : Probe \cup {"end"}, info : Info, noted : Err]
    BY <1>0, <2>1, <2>2 DEF Inv, TypeOK, Err
  <2>4. \A q \in Probe : draft'.info[q] \in {0, draft.at}
    BY <2>3 DEF Inv, OwnReadings
  <2> QED BY <1>6, <2>3, <2>4, DraftStep DEF GoOn
<1>7. ASSUME NEW r \in Req, Absent(r)
      PROVE  Inv'
  <2>1. Blank \in Info /\ "absent" \in Err
    BY DEF Blank, Info, Err
  <2>2. \A p \in Probe : Blank[p] = 0
    BY DEF Blank
  <2>3. Lasting \subseteq Probe
    BY DEF Lasting, Probe, Command
  <2> QED BY <1>7, <2>1, <2>2, <2>3, PublishStep DEF Absent
<1>8. ASSUME NEW r \in Req, GiveUp(r)
      PROVE  Inv'
  <2>1. Kept \in Info
    BY <1>0 DEF Kept, Info
  <2>2. draft.probe \in Err /\ draft.probe \in Fatal(kind)
    BY <1>8 DEF GiveUp, Fatal, Err, Probe, Command
  <2>3. good' = good /\ good \in Info
    BY <1>8 DEF GiveUp, Inv, TypeOK
  <2>4. \A p \in Lasting : Kept[p] = good[p]
    BY DEF Kept, Lasting, Inv, Remembered, Probe, Command
  <2> QED BY <1>8, <2>1, <2>2, <2>3, <2>4, PublishStep DEF GiveUp
<1>9. ASSUME NEW r \in Req, Finish(r)
      PROVE  Inv'
  <2>1. draft.noted \in Err
    BY DEF Inv, TypeOK
  <2>2. \A p \in Probe : draft.info[p] \in {0, draft.at}
    BY DEF Inv, OwnReadings
  <2> QED BY <1>0, <1>9, <2>1, <2>2, PublishStep DEF Finish
<1> QED
  BY <1>1, <1>2, <1>3, <1>4, <1>5, <1>6, <1>7, <1>8, <1>9 DEF Next, Over, Refresh

LEMMA InvHolds == Spec => []Inv
  BY InitInv, InvStep, PTL DEF Spec

-----------------------------------------------------------------------------
\* Types hold throughout.
THEOREM TypeCorrect == Spec => []TypeOK
<1>1. Inv => TypeOK BY DEF Inv
<1> QED BY <1>1, InvHolds, PTL

\* No request is answered with a snapshot that had reached the lifetime of the
\* cache when it arrived, whatever the others were doing (Snapshot, refresh).
THEOREM AnswersAreFresh == Spec => []FreshWhenAsked
<1>1. Inv => FreshWhenAsked BY DEF Inv
<1> QED BY <1>1, InvHolds, PTL

\* Readings of an earlier refresh are never shown without the error of a command
\* (storeFailure and its like in the three collectors).
THEOREM OldIsFlagged == Spec => []OldOnlyUnderError
<1>1. Inv => OldOnlyUnderError BY DEF Inv
<1> QED BY <1>1, InvHolds, PTL

\* However many refreshes fail in a row, the readings kept are those of the last
\* one that did not (storeFailure and its like in the three collectors).
THEOREM LastGoodKept == Spec => []LastGood
<1>1. Inv => LastGood BY DEF Inv, LastGood, Remembered, Lasting
<1> QED BY <1>1, InvHolds, PTL

\* Two refreshes never start less than the lifetime of the cache apart, for any
\* number of requests that poll (the age is looked at again under the mutex).
THEOREM RefreshesArePaced == Spec => RefreshesPaced
<1> DEFINE Paced == \A r \in Req : pc[r] = "refresh" /\ pc'[r] = "refreshing"
                                     => now >= draft.at + TTL
<1>1. Inv /\ [Next]_vars => [Paced]_vars
  <2> SUFFICES ASSUME Inv, Next, NEW r \in Req, pc[r] = "refresh", pc'[r] = "refreshing"
               PROVE  now >= draft.at + TTL
    BY DEF vars
  <2>1. Start(r)
    BY DEF Next, Tick, Over, vars, cache, Arrive, Check, Start, Load, Refresh, Absent, Read,
           GoOn, GiveUp, Finish, Publish, Goto, Inv, TypeOK
  <2> QED
    BY <2>1, CollectorAssumption DEF Start, Stale, Goto, Inv, Clock, TypeOK
<1> QED BY <1>1, InvHolds, PTL DEF Spec, RefreshesPaced
===============================================================================

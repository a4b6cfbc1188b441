---------------------------- MODULE SamplersProofs ----------------------------
(***************************************************************************)
(* Proofs about Samplers: what a rate stands for and how old a sample can  *)
(* be, for any interfaces, requests, word, line, interval and lateness.    *)
(***************************************************************************)
EXTENDS Samplers, TLAPS

\* Where the sampler is in its cycle, by the clock: what is due was due at most a
\* Delay ago, and by then the published sample was at most Interval + Delay old.
Timing ==
    /\ stopped <= now /\ Published <= now
    /\ pc = "stopped" => stopped # 0 /\ stopped <= Published + Interval + 2 * Delay
    /\ pc # "stopped" =>
         /\ due <= now
         /\ fire # 0 => now < fire /\ fire <= now + Interval
         /\ fire = 0 => Busy /\ pc # "select"
         /\ Busy => now <= due + Delay /\ due <= Published + Interval + Delay
         /\ ~Busy => fire <= Published + Interval + Delay
    /\ pc \in {"read", "publish"} => due <= stamp /\ Published <= stamp /\ stamp <= now

\* What each open request has seen was recent enough when it came.
Seen ==
    \A r \in Req : req[r] # NoReq =>
        /\ req[r].at <= req[r].seen + Interval + 3 * Delay
        /\ req[r].seen <= Published

\* The counter of an interface since the last reading, and the last reading since the
\* one before.
Counting ==
    \A i \in If :
        /\ pc # "publish" \/ kind # "netstats" => cur[i] = prev[i]
        /\ cur[i].present =>
             /\ counter[i] <= cur[i].bytes + carried[i]
             /\ intact[i] => counter[i] = cur[i].bytes + carried[i]
        /\ pc = "publish" /\ kind = "netstats" /\ prev[i].present /\ cur[i].present =>
             /\ cur[i].bytes <= prev[i].bytes + cur[i].moved
             /\ cur[i].intact => cur[i].bytes = prev[i].bytes + cur[i].moved

\* The bytes carried since the last reading, by the clock.
Carrying ==
    \A i \in If :
        /\ cur[i].at <= now /\ prev[i].at <= now
        /\ carried[i] <= Line * (now - cur[i].at)
        /\ pc = "publish" /\ kind = "netstats" =>
             /\ cur[i].at = stamp
             /\ cur[i].at >= prev[i].at => cur[i].moved <= Line * (cur[i].at - prev[i].at + Delay)

-----------------------------------------------------------------------------
\* The numbers that SamplerAssumption speaks of.
LEMMA Constants ==
    /\ Word \in Nat /\ Word > 0 /\ Interval \in Nat /\ Interval > 0 /\ Hot \in Nat /\ Hot > 0
    /\ Line \in Nat /\ Line <= Word /\ Delay \in Nat /\ Wait \in Nat /\ Temps \subseteq Nat
BY SamplerAssumption DEF SamplerAssumption

\* What the guard of computeMbps leaves is a rate of non-negative numbers.
LEMMA RateType ==
    ASSUME NEW p \in Sample, NEW c \in Sample
    PROVE  /\ Rate(p, c) \in [bytes : Nat, per : Nat]
           /\ Rate(p, c).per = 0 => Rate(p, c) = NoRate
<1> USE Constants
<1>1. CASE c.present /\ p.present /\ c.at > p.at /\ c.bytes >= p.bytes
  <2>1. /\ c.bytes - p.bytes \in Nat /\ c.at - p.at \in Nat /\ c.at - p.at # 0
    BY <1>1 DEF Sample
  <2>2. Minus(c.bytes, p.bytes) = c.bytes - p.bytes
    BY <1>1 DEF Minus
  <2> QED BY <1>1, <2>1, <2>2 DEF Rate
<1> QED BY <1>1 DEF Rate, NoRate

LEMMA InitType == Init => TypeOK
<1> SUFFICES ASSUME Init PROVE TypeOK
  OBVIOUS
<1> USE SamplerAssumption
<1>1. NoSample \in Sample /\ NoStats \in Stats
  BY DEF NoSample, NoStats, NoRate, Sample, Stats
<1>2. net \in [at : Nat, ifs : [If -> Stats]]
  BY <1>1 DEF Init
<1>3. /\ sys \in [at : Nat, throttled : BOOLEAN, err : SUBSET Reading]
      /\ taken \in [ok : SUBSET Reading, temp : Nat]
  BY DEF Init, Unsampled, Untaken
<1>4. counter \in [If -> (0..Word - 1) \cup {Gone}]
  BY DEF Init, Gone
<1>5. /\ cur \in [If -> Sample] /\ prev \in [If -> Sample]
      /\ req \in [Req -> [at : Nat, seen : Nat]]
      /\ carried \in [If -> Nat] /\ intact \in [If -> BOOLEAN]
  BY <1>1 DEF Init, NoReq
<1> QED BY <1>2, <1>3, <1>4, <1>5 DEF Init, TypeOK

LEMMA TypeStep == TypeOK /\ [Next]_vars => TypeOK'
<1> SUFFICES ASSUME TypeOK, [Next]_vars PROVE TypeOK'
  OBVIOUS
<1> USE Constants DEF TypeOK, host, links, heat, timer, samples
<1>1. CASE Tick
  <2>1. PICK d \in [If -> 0..Line] :
           /\ counter' = [i \in If |-> IF counter[i] = Gone THEN Gone
                                       ELSE Plus(counter[i], d[i])]
           /\ carried' = [i \in If |-> IF counter[i] = Gone THEN carried[i]
                                       ELSE carried[i] + d[i]]
           /\ intact' = [i \in If |-> intact[i] /\ counter[i] + d[i] < Word]
    BY <1>1 DEF Tick
  <2>2. \A i \in If : counter[i] # Gone => Plus(counter[i], d[i]) \in 0..Word - 1
    BY DEF Gone, Plus
  <2>3. counter' \in [If -> (0..Word - 1) \cup {Gone}]
    BY <2>1, <2>2
  <2>4. carried' \in [If -> Nat] /\ intact' \in [If -> BOOLEAN]
    BY <2>1
  <2>5. now' \in Nat /\ due' \in Nat /\ fire' \in Nat /\ pending' \in BOOLEAN
    <3>1. /\ now' = now + 1
          /\ \/ /\ pending' = TRUE /\ fire' = fire + Interval
                /\ due' = due \/ due' = now + 1
             \/ UNCHANGED <<due, fire, pending>>
      BY <1>1 DEF Tick
    <3>2. now' \in Nat /\ due' \in Nat /\ fire' \in Nat
      BY <3>1
    <3>3. pending' \in BOOLEAN
      BY <3>1, Zenon
    <3> QED BY <3>2, <3>3
  <2>6. UNCHANGED <<kind, temp, since, pc, stamp, cur, prev, taken, net, sys, stopped, req>>
    BY <1>1 DEF Tick
  <2> QED BY <2>3, <2>4, <2>5, <2>6
<1>2. CASE \E i \in If : Replug(i)
  BY <1>2 DEF Replug, Gone
<1>10. CASE \E t \in Temps : Warm(t)
  BY <1>10 DEF Warm
<1>11. CASE ReadFiles
  <2>1. PICK ok \in SUBSET Reading : taken' = [ok |-> ok, temp |-> IF "temp" \in ok THEN temp ELSE 0]
    BY <1>11 DEF ReadFiles
  <2>2. /\ pc' = "publish"
        /\ UNCHANGED <<kind, now, host, timer, stamp, cur, prev, net, sys, stopped, req>>
    BY <1>11 DEF ReadFiles
  <2>3. taken' \in [ok : SUBSET Reading, temp : Nat]
    BY <2>1
  <2> QED BY <2>2, <2>3
<1>3. CASE Stop \/ Stamp
  <2>1. /\ stopped' \in Nat /\ stamp' \in Nat /\ pc' \in {"select", "tick", "read", "publish", "stopped"}
        /\ UNCHANGED <<kind, now, host, timer, samples, net, sys, req>>
    BY <1>3 DEF Stop, Stamp
  <2> QED BY <2>1
<1>9. CASE Take \/ Done
  <2>1. /\ fire' \in Nat /\ pc' \in {"tick", "stopped"}
        /\ UNCHANGED <<kind, now, host, due, stamp, samples, net, sys, stopped, req>>
    BY <1>9 DEF Take, Done
  <2>2. pending' \in BOOLEAN
    BY <1>9, Zenon DEF Take, Done
  <2> QED BY <2>1, <2>2
<1>4. CASE ReadSource
  <2>1. cur' \in [If -> Sample]
    BY <1>4 DEF ReadSource, Sample, Gone
  <2> QED BY <1>4, <2>1 DEF ReadSource
<1>5. CASE PublishNet
  <2>1. PICK up \in [If -> BOOLEAN] :
          net' = [at |-> stamp,
                  ifs |-> [i \in If |->
                             [up |-> up[i], total |-> cur[i].bytes,
                              rate |-> Rate(prev[i], cur[i]),
                              span |-> cur[i].at - prev[i].at, moved |-> cur[i].moved,
                              intact |-> prev[i].present /\ cur[i].present /\ cur[i].intact]]]
    BY <1>5 DEF PublishNet
  <2>2. \A i \in If : net'.ifs[i] \in Stats
    BY <2>1, RateType DEF Stats, Sample
  <2>3. net' \in [at : Nat, ifs : [If -> Stats]]
    BY <2>1, <2>2
  <2>4. /\ pc' = "select" /\ fire' \in Nat /\ due' \in Nat /\ pending' \in BOOLEAN
        /\ prev' \in [If -> Sample]
        /\ UNCHANGED <<kind, now, host, stamp, cur, taken, sys, stopped, req>>
    BY <1>5 DEF PublishNet, EndTick, NextPrev
  <2> QED BY <2>3, <2>4
<1>6. CASE PublishSys
  <2>1. /\ sys' = [at |-> stamp, throttled |-> Throttled(taken.ok, taken.temp),
                   err |-> Errors(taken.ok)]
        /\ taken' = Untaken
    BY <1>6 DEF PublishSys
  <2>2. Throttled(taken.ok, taken.temp) \in BOOLEAN
    BY DEF Throttled
  <2>3. /\ pc' = "select" /\ fire' \in Nat /\ due' \in Nat /\ pending' \in BOOLEAN
        /\ UNCHANGED <<kind, now, host, stamp, cur, prev, net, stopped, req>>
    BY <1>6 DEF PublishSys, EndTick
  <2>4. sys' \in [at : Nat, throttled : BOOLEAN, err : SUBSET Reading]
    BY <2>1, <2>2 DEF Errors
  <2>5. taken' \in [ok : SUBSET Reading, temp : Nat]
    BY <2>1 DEF Untaken
  <2> QED BY <2>3, <2>4, <2>5
<1>7. CASE \E r \in Req : Arrive(r) \/ Answer(r)
  BY <1>7 DEF Arrive, Answer, Published, NoReq
<1>8. CASE Over \/ UNCHANGED vars
  BY <1>8 DEF Over, vars
<1> QED BY <1>1, <1>2, <1>3, <1>4, <1>5, <1>6, <1>7, <1>8, <1>9, <1>10, <1>11
   DEF Next

\* THEOREM: every variable keeps its type.
THEOREM TypeCorrect == Spec => []TypeOK
BY InitType, TypeStep, PTL DEF Spec

-----------------------------------------------------------------------------
LEMMA PublishedType == TypeOK => Published \in Nat
BY DEF TypeOK, Published

LEMMA InitTiming == Init => Timing /\ Seen
BY Constants DEF Init, Timing, Seen, Published, Busy, Unsampled

\* The end of a tick: the sample it publishes is dated after it was due.
LEMMA EndTickTiming ==
    ASSUME TypeOK, Timing, pc = "publish", EndTick, UNCHANGED <<now, stopped, stamp, kind>>,
           Published' = stamp
    PROVE  Timing'
<1> USE Constants
<1>1. /\ now \in Nat /\ due \in Nat /\ fire \in Nat /\ stamp \in Nat /\ stopped \in Nat
  BY DEF TypeOK
<1>2. /\ stopped <= now /\ due <= stamp /\ stamp <= now /\ now <= due + Delay
      /\ fire # 0 => now < fire /\ fire <= now + Interval
  BY DEF Timing, Busy
<1>3. /\ pc' = "select" /\ due' = now /\ fire' \in Nat
      /\ fire' # 0 /\ now < fire' /\ fire' <= now + Interval
      /\ now' = now /\ stopped' = stopped
  BY <1>1, <1>2 DEF EndTick
<1>4. due' <= Published' + Interval + Delay /\ fire' <= Published' + Interval + Delay
  BY <1>1, <1>2, <1>3
<1>5. stopped' <= now' /\ Published' <= now'
  BY <1>1, <1>2, <1>3
<1>6. due' <= now' /\ now' <= due' + Delay
  BY <1>1, <1>2, <1>3
<1> QED BY <1>3, <1>4, <1>5, <1>6 DEF Timing

LEMMA TimingStep == TypeOK /\ Timing /\ [Next]_vars => Timing'
<1> SUFFICES ASSUME TypeOK, Timing, [Next]_vars PROVE Timing'
  OBVIOUS
<1> USE Constants
<1>1. /\ now \in Nat /\ due \in Nat /\ fire \in Nat /\ stamp \in Nat /\ stopped \in Nat
      /\ Published \in Nat
      /\ pc \in {"select", "tick", "read", "publish", "stopped"}
      /\ now' \in Nat /\ due' \in Nat /\ fire' \in Nat
  BY PublishedType, TypeStep DEF TypeOK
<1>2. CASE Tick
  <2>1. /\ now' = now + 1 /\ (Busy => now < due + Delay)
        /\ UNCHANGED <<kind, pc, stamp, net, sys, stopped>>
    BY <1>2 DEF Tick
  <2>2. Published' = Published
    BY <2>1 DEF Published
  <2>3. CASE fire = now + 1
    <3>1. pending' = TRUE /\ fire' = fire + Interval /\ due' = IF Busy THEN due ELSE now + 1
      BY <1>2, <2>3 DEF Tick
    <3>2. pc # "stopped" => Busy'
      BY <1>1, <2>1, <3>1 DEF Busy
    <3>3. CASE Busy
      <4>0. pc # "stopped"
        BY <3>3 DEF Busy
      <4>2. due' = due
        BY <3>1, <3>3
      <4>3. now < due + Delay
        BY <2>1, <3>3
      <4>4. due <= now /\ due <= Published + Interval + Delay
        BY <1>1, <3>3, <4>0 DEF Timing
      <4>1. /\ due' = due /\ now + 1 <= due + Delay
            /\ due <= now /\ due <= Published + Interval + Delay
        BY <1>1, <4>2, <4>3, <4>4
      <4> QED BY <1>1, <2>1, <2>2, <2>3, <3>1, <3>2, <4>1 DEF Timing
    <3>4. CASE ~Busy
      <4>1. due' = now + 1 /\ pc \notin {"read", "publish"}
        BY <3>1, <3>4 DEF Busy
      <4>2. pc # "stopped" => now + 1 <= Published + Interval + Delay
        BY <2>3, <3>4 DEF Timing
      <4> QED BY <1>1, <2>1, <2>2, <2>3, <3>1, <3>2, <4>1, <4>2 DEF Timing
    <3> QED BY <3>3, <3>4
  <2>4. CASE fire # now + 1
    <3>1. UNCHANGED <<due, fire, pending>>
      BY <1>2, <2>4 DEF Tick, timer
    <3>2. Busy' <=> Busy
      BY <2>1, <3>1 DEF Busy
    <3>3. pc # "stopped" /\ fire # 0 => now + 1 < fire
      BY <1>1, <2>4 DEF Timing
    <3> QED BY <1>1, <2>1, <2>2, <3>1, <3>2, <3>3 DEF Timing
  <2> QED BY <2>3, <2>4
<1>3. CASE Stop
  <2>1. /\ stopped' = now /\ UNCHANGED <<kind, now, pc, due, fire, pending, stamp, net, sys>>
    BY <1>3 DEF Stop, timer
  <2>2. Published' = Published /\ Busy' = Busy /\ stopped = 0
    BY <1>3, <2>1 DEF Published, Busy, Stop
  <2>3. pc # "stopped"
    BY <2>2 DEF Timing
  <2> QED BY <1>1, <2>1, <2>2, <2>3 DEF Timing
<1>4. CASE Take
  <2>1. /\ pc = "select" /\ pending /\ pc' = "tick"
        /\ UNCHANGED <<kind, now, due, fire, stamp, net, sys, stopped>>
    BY <1>4 DEF Take
  <2>2. Published' = Published /\ Busy /\ Busy'
    BY <2>1 DEF Published, Busy
  <2> QED BY <1>1, <2>1, <2>2 DEF Timing
<1>5. CASE Done
  <2>1. /\ pc = "select" /\ stopped # 0 /\ pc' = "stopped"
        /\ UNCHANGED <<kind, now, stamp, net, sys, stopped>>
    BY <1>5 DEF Done
  <2>2. Published' = Published
    BY <2>1 DEF Published
  <2>3. now <= Published + Interval + 2 * Delay
    <3>1. CASE Busy
      BY <1>1, <2>1, <3>1 DEF Timing
    <3>2. CASE ~Busy
      BY <1>1, <2>1, <3>2 DEF Timing
    <3> QED BY <3>1, <3>2
  <2> QED BY <1>1, <2>1, <2>2, <2>3 DEF Timing
<1>6. CASE Stamp
  <2>1. /\ pc = "tick" /\ pc' = "read" /\ stamp' = now
        /\ UNCHANGED <<kind, now, due, fire, pending, net, sys, stopped>>
    BY <1>6 DEF Stamp, timer
  <2>2. Published' = Published /\ Busy /\ Busy'
    BY <2>1 DEF Published, Busy
  <2> QED BY <1>1, <2>1, <2>2 DEF Timing
<1>7. CASE ReadSource \/ ReadFiles
  <2>1. /\ pc = "read" /\ pc' = "publish"
        /\ UNCHANGED <<kind, now, due, fire, pending, stamp, net, sys, stopped>>
    BY <1>7 DEF ReadSource, ReadFiles, timer
  <2>2. Published' = Published /\ Busy /\ Busy'
    BY <2>1 DEF Published, Busy
  <2> QED BY <1>1, <2>1, <2>2 DEF Timing
<1>8. CASE PublishNet \/ PublishSys
  <2>1. /\ pc = "publish" /\ EndTick /\ UNCHANGED <<kind, now, stopped, stamp>>
    BY <1>8 DEF PublishNet, PublishSys
  <2>2. Published' = stamp
    BY <1>8 DEF PublishNet, PublishSys, Published
  <2> QED BY <2>1, <2>2, EndTickTiming
<1>9. CASE \/ \E i \in If : Replug(i)
           \/ \E t \in Temps : Warm(t)
           \/ \E r \in Req : Arrive(r) \/ Answer(r)
           \/ Over \/ UNCHANGED vars
  <2>1. UNCHANGED <<kind, now, pc, due, fire, pending, stamp, net, sys, stopped>>
    BY <1>9 DEF Replug, Warm, Arrive, Answer, Over, vars, timer
  <2>2. Published' = Published /\ Busy' = Busy
    BY <2>1 DEF Published, Busy
  <2> QED BY <1>1, <2>1, <2>2 DEF Timing
<1> QED BY <1>2, <1>3, <1>4, <1>5, <1>6, <1>7, <1>8, <1>9 DEF Next

\* What is published is never replaced by something older.
LEMMA Newer == TypeOK /\ Timing /\ [Next]_vars => Published' >= Published
<1> SUFFICES ASSUME TypeOK, Timing, [Next]_vars PROVE Published' >= Published
  OBVIOUS
<1>1. Published \in Nat /\ stamp \in Nat
  BY PublishedType DEF TypeOK
<1>2. CASE PublishNet \/ PublishSys
  <2>1. pc = "publish" /\ Published' = stamp
    BY <1>2 DEF PublishNet, PublishSys, Published
  <2> QED BY <1>1, <2>1 DEF Timing
<1>3. CASE ~(PublishNet \/ PublishSys)
  <2>1. UNCHANGED <<kind, net, sys>>
    BY <1>3 DEF Next, Tick, Stop, Take, Done, Stamp, ReadSource, ReadFiles, Replug, Warm,
       Arrive, Answer, Over, vars
  <2> QED BY <1>1, <2>1 DEF Published
<1> QED BY <1>2, <1>3

LEMMA SeenStep == TypeOK /\ Timing /\ Seen /\ [Next]_vars => Seen'
<1> SUFFICES ASSUME TypeOK, Timing, Seen, [Next]_vars PROVE Seen'
  OBVIOUS
<1> USE Constants
<1>1. /\ Published \in Nat /\ Published' \in Nat /\ Published' >= Published
      /\ now \in Nat /\ stopped \in Nat /\ due \in Nat /\ fire \in Nat
      /\ req \in [Req -> [at : Nat, seen : Nat]]
  <2>1. TypeOK' => Published' \in Nat
    BY DEF TypeOK, Published
  <2> QED BY <2>1, PublishedType, TypeStep, Newer DEF TypeOK
<1>2. CASE \E r \in Req : Arrive(r)
  <2>1. PICK r \in Req : Arrive(r)
    BY <1>2
  <2>2. /\ Serving /\ req' = [req EXCEPT ![r] = [at |-> now, seen |-> Published]]
    BY <2>1 DEF Arrive
  <2>3. now <= Published + Interval + 3 * Delay
    <3>1. CASE pc = "stopped"
      BY <1>1, <2>2, <3>1 DEF Timing, Serving
    <3>2. CASE pc # "stopped" /\ Busy
      BY <1>1, <3>2 DEF Timing
    <3>3. CASE pc # "stopped" /\ ~Busy
      BY <1>1, <3>3 DEF Timing
    <3> QED BY <3>1, <3>2, <3>3
  <2> QED BY <1>1, <2>2, <2>3 DEF Seen
<1>3. CASE \E r \in Req : Answer(r)
  <2>1. PICK r \in Req : req' = [req EXCEPT ![r] = NoReq]
    BY <1>3 DEF Answer
  <2> QED BY <1>1, <2>1 DEF Seen
<1>4. CASE ~\E r \in Req : Arrive(r) \/ Answer(r)
  <2>1. req' = req
    BY <1>4 DEF Next, Tick, Stop, Take, Done, Stamp, ReadSource, ReadFiles, PublishNet,
       PublishSys, Replug, Warm, Over, vars
  <2> QED BY <1>1, <2>1 DEF Seen
<1> QED BY <1>2, <1>3, <1>4

\* A request is answered with what it has seen, or something newer.
LEMMA AnswerStep ==
    TypeOK /\ Timing /\ Seen =>
        \A r \in Req : req[r] # NoReq => req[r].at <= Answered(r) + Interval + 3 * Delay
<1> SUFFICES ASSUME TypeOK, Timing, Seen, NEW r \in Req, req[r] # NoReq
             PROVE  req[r].at <= Answered(r) + Interval + 3 * Delay
  OBVIOUS
<1>1. Published \in Nat /\ req[r].at \in Nat /\ req[r].seen \in Nat
  BY PublishedType DEF TypeOK
<1>2. req[r].at <= req[r].seen + Interval + 3 * Delay /\ req[r].seen <= Published
  BY DEF Seen
<1>3. Answered(r) = req[r].seen \/ Answered(r) = Published
  BY DEF Answered
<1> QED BY <1>1, <1>2, <1>3, Constants

\* THEOREM: whatever the order of ticker, sampler, request and SIGTERM, a request is
\* answered with a sample at most an interval and three delays old when it came.
THEOREM AnswersAreCurrent == Spec => AnswerIsCurrent
<1>1. Init => TypeOK /\ Timing /\ Seen
  BY InitType, InitTiming
<1>2. TypeOK /\ Timing /\ Seen /\ [Next]_vars => (TypeOK /\ Timing /\ Seen)'
  BY TypeStep, TimingStep, SeenStep
<1>3. TypeOK /\ Timing /\ Seen /\ [Next]_vars =>
        [\A r \in Req : req[r] # NoReq /\ req'[r] = NoReq
                          => req[r].at <= Answered(r) + Interval + 3 * Delay]_vars
  BY AnswerStep
<1> QED BY <1>1, <1>2, <1>3, PTL DEF Spec, AnswerIsCurrent

-----------------------------------------------------------------------------
LEMMA InitCounting == Init => Counting /\ Carrying /\ NotOverstated /\ Exact /\ LineSpeed
<1> USE Constants
<1> SUFFICES ASSUME Init PROVE Counting /\ Carrying /\ NotOverstated /\ Exact /\ LineSpeed
  OBVIOUS
<1>1. Counting
  BY DEF Init, Counting, NoSample
<1>2. Carrying
  BY DEF Init, Carrying, NoSample
<1>3. \A i \in If : net.ifs[i] = NoStats
  BY DEF Init
<1>4. NotOverstated /\ Exact
  BY <1>3 DEF NotOverstated, Exact, NoStats, NoRate
<1>5. LineSpeed
  BY <1>3 DEF LineSpeed, NoStats, NoRate
<1> QED BY <1>1, <1>2, <1>4, <1>5

\* A step that reads and publishes nothing, and under which the counter of an interface
\* moves by what it carries or restarts.
LEMMA CountOn ==
    ASSUME TypeOK, TypeOK', Counting, UNCHANGED <<kind, cur, prev>>,
           pc = "publish" <=> pc' = "publish",
           \A i \in If :
             /\ carried'[i] >= carried[i]
             /\ counter'[i] <= 0 \/ counter'[i] <= counter[i] + (carried'[i] - carried[i])
             /\ intact'[i] => intact[i] /\ counter'[i] = counter[i] + (carried'[i] - carried[i])
    PROVE  Counting'
<1>1. ASSUME NEW i \in If, cur[i].present
      PROVE  /\ counter'[i] <= cur[i].bytes + carried'[i]
             /\ intact'[i] => counter'[i] = cur[i].bytes + carried'[i]
  <2>1. /\ counter[i] \in Int /\ counter'[i] \in Int /\ carried[i] \in Nat
        /\ carried'[i] \in Nat /\ cur[i].bytes \in Nat
    BY Constants DEF TypeOK, Gone, Sample
  <2>2. /\ counter[i] <= cur[i].bytes + carried[i]
        /\ intact[i] => counter[i] = cur[i].bytes + carried[i]
    BY <1>1 DEF Counting
  <2> QED BY <2>1, <2>2
<1> QED BY <1>1 DEF Counting

\* The samples of a reading, against those of the reading before it.
LEMMA ReadCounting == TypeOK /\ TypeOK' /\ Counting /\ ReadSource => Counting'
<1> SUFFICES ASSUME TypeOK, TypeOK', Counting, ReadSource PROVE Counting'
  OBVIOUS
<1>1. kind = "netstats" /\ kind' = kind /\ pc = "read" /\ pc' = "publish"
  BY DEF ReadSource
<1>2. ASSUME NEW i \in If
      PROVE  /\ cur'[i].present =>
                  /\ counter'[i] <= cur'[i].bytes + carried'[i]
                  /\ intact'[i] => counter'[i] = cur'[i].bytes + carried'[i]
             /\ prev'[i].present /\ cur'[i].present =>
                  /\ cur'[i].bytes <= prev'[i].bytes + cur'[i].moved
                  /\ cur'[i].intact => cur'[i].bytes = prev'[i].bytes + cur'[i].moved
  <2>1. PICK ok \in {TRUE, ~Faults} :
          cur' = [n \in If |->
                    LET present == ok /\ counter[n] # Gone IN
                      [present |-> present, bytes |-> IF present THEN counter[n] ELSE 0,
                       at |-> stamp, moved |-> carried[n], intact |-> intact[n]]]
    BY DEF ReadSource
  <2>2. cur'[i] = [present |-> ok /\ counter[i] # Gone,
                   bytes |-> IF ok /\ counter[i] # Gone THEN counter[i] ELSE 0,
                   at |-> stamp, moved |-> carried[i], intact |-> intact[i]]
    BY <2>1, Zenon
  <2>3. cur'[i].moved = carried[i] /\ cur'[i].bytes = (IF ok /\ counter[i] # Gone THEN counter[i] ELSE 0)
    BY <2>2
  <2>4. cur'[i].intact = intact[i]
    BY <2>2
  <2>5. cur'[i].present = (ok /\ counter[i] # Gone)
    BY <2>2
  <2>6. cur'[i].present => cur'[i].bytes = counter[i]
    BY <2>3, <2>5
  <2>7. prev' = prev /\ counter' = counter /\ carried'[i] = 0
    BY DEF ReadSource
  <2>8. counter[i] \in Int /\ carried[i] \in Nat /\ prev[i].bytes \in Nat
    BY Constants DEF TypeOK, Gone, Sample
  <2>9. prev[i].present => /\ counter[i] <= prev[i].bytes + carried[i]
                           /\ intact[i] => counter[i] = prev[i].bytes + carried[i]
    BY <1>1 DEF Counting
  <2> QED BY <2>6, <2>8, <2>9, <2>7, <2>3, <2>4
<1> QED BY <1>1, <1>2 DEF Counting

LEMMA CountingStep == TypeOK /\ Counting /\ [Next]_vars => Counting'
<1> SUFFICES ASSUME TypeOK, Counting, [Next]_vars PROVE Counting'
  OBVIOUS
<1>1. TypeOK'
  BY TypeStep
<1>2. CASE Tick
  <2>1. PICK d \in [If -> 0..Line] :
           /\ counter' = [i \in If |-> IF counter[i] = Gone THEN Gone
                                       ELSE Plus(counter[i], d[i])]
           /\ carried' = [i \in If |-> IF counter[i] = Gone THEN carried[i]
                                       ELSE carried[i] + d[i]]
           /\ intact' = [i \in If |-> intact[i] /\ counter[i] + d[i] < Word]
    BY <1>2, Constants DEF Tick
  <2>2. \A i \in If : counter[i] \in Int /\ d[i] \in Nat /\ carried[i] \in Nat
    BY Constants DEF TypeOK, Gone
  <2>3. UNCHANGED <<kind, pc, cur, prev>>
    BY <1>2 DEF Tick, samples
  <2>4. ASSUME NEW i \in If
        PROVE  /\ carried'[i] >= carried[i]
               /\ counter'[i] <= 0 \/ counter'[i] <= counter[i] + (carried'[i] - carried[i])
               /\ intact'[i] => intact[i] /\ counter'[i] = counter[i] + (carried'[i] - carried[i])
    <3>1. CASE counter[i] = Gone
      <4>1. counter'[i] = Gone /\ carried'[i] = carried[i] /\ (intact'[i] => intact[i])
        BY <2>1, <3>1
      <4> QED BY <2>2, <3>1, <4>1 DEF Gone
    <3>2. CASE counter[i] # Gone
      <4>1. /\ counter'[i] = Plus(counter[i], d[i]) /\ carried'[i] = carried[i] + d[i]
            /\ intact'[i] => intact[i] /\ counter[i] + d[i] < Word
        BY <2>1, <3>2
      <4> QED BY <2>2, <4>1, Constants DEF Plus
    <3> QED BY <3>1, <3>2
  <2> QED BY <1>1, <2>3, <2>4, CountOn
<1>3. CASE \E i \in If : Replug(i)
  <2>1. PICK j \in If : Replug(j)
    BY <1>3
  <2>2. \A i \in If : counter'[i] <= 0 \/ counter'[i] = counter[i]
    BY <2>1, Constants DEF Replug, TypeOK, Gone
  <2>3. \A i \in If : intact'[i] => intact[i] /\ counter'[i] = counter[i]
    BY <2>1 DEF Replug, TypeOK
  <2>4. UNCHANGED <<kind, pc, cur, prev, carried>>
    BY <2>1 DEF Replug, samples
  <2>5. \A i \in If : counter[i] \in Int /\ counter'[i] \in Int /\ carried[i] \in Nat
    BY <1>1, Constants DEF TypeOK, Gone
  <2>6. \A i \in If :
             /\ carried'[i] >= carried[i]
             /\ counter'[i] <= 0 \/ counter'[i] <= counter[i] + (carried'[i] - carried[i])
             /\ intact'[i] => intact[i] /\ counter'[i] = counter[i] + (carried'[i] - carried[i])
    BY <2>2, <2>3, <2>4, <2>5
  <2> QED BY <1>1, <2>4, <2>6, CountOn
<1>4. CASE ReadSource
  BY <1>1, <1>4, ReadCounting
<1>5. CASE PublishNet
  <2>1. /\ pc' # "publish" /\ prev' = cur /\ cur' = cur
        /\ UNCHANGED <<kind, counter, carried, intact>>
    BY <1>5 DEF PublishNet, EndTick, NextPrev, host, links
  <2> QED BY <2>1 DEF Counting
<1>6. CASE \/ Stop \/ Take \/ Done \/ Over \/ UNCHANGED vars \/ Stamp
           \/ ReadFiles \/ PublishSys \/ \E t \in Temps : Warm(t)
           \/ \E r \in Req : Arrive(r) \/ Answer(r)
  <2>1. /\ UNCHANGED <<kind, counter, carried, intact, cur, prev>>
        /\ (pc = "publish" <=> pc' = "publish") \/ kind # "netstats"
    BY <1>6 DEF Stop, Take, Done, Over, vars, Arrive, Answer, Stamp, ReadFiles, PublishSys,
       EndTick, Warm, host, links, samples
  <2> QED BY <2>1 DEF Counting
<1> QED BY <1>2, <1>3, <1>4, <1>5, <1>6 DEF Next

\* A link carries more in more time.
LEMMA MoreTime ==
    ASSUME NEW m \in Nat, NEW n \in Nat, m <= n
    PROVE  /\ Line * m \in Nat /\ Line * n \in Nat /\ Line * m <= Line * n
           /\ Line * (n + 1) = Line * n + Line
BY Constants

\* The samples of a reading, by the clock.
LEMMA ReadCarrying == TypeOK /\ Timing /\ Counting /\ Carrying /\ ReadSource => Carrying'
<1> SUFFICES ASSUME TypeOK, Timing, Counting, Carrying, ReadSource, NEW i \in If
             PROVE  /\ cur'[i].at <= now' /\ prev'[i].at <= now'
                    /\ carried'[i] <= Line * (now' - cur'[i].at)
                    /\ cur'[i].at = stamp'
                    /\ cur'[i].at >= prev'[i].at =>
                         cur'[i].moved <= Line * (cur'[i].at - prev'[i].at + Delay)
  BY DEF Carrying, ReadSource
<1> USE Constants
<1>1. /\ pc = "read" /\ kind = "netstats" /\ UNCHANGED <<now, stamp, prev>>
      /\ carried'[i] = 0 /\ cur'[i].at = stamp /\ cur'[i].moved = carried[i]
  BY DEF ReadSource
<1>2. prev[i] = cur[i]
  BY <1>1 DEF Counting
<1>3. now \in Nat /\ due \in Nat /\ stamp \in Nat /\ carried[i] \in Nat /\ prev[i].at \in Nat
  BY DEF TypeOK, Sample
<1>4. stamp <= now /\ now <= stamp + Delay
  BY <1>1, <1>3 DEF Timing, Busy
<1>5. prev[i].at <= now /\ carried[i] <= Line * (now - prev[i].at)
  BY <1>2 DEF Carrying
<1>6. ASSUME stamp >= prev[i].at
      PROVE  carried[i] <= Line * (stamp - prev[i].at + Delay)
  <2> DEFINE m == now - prev[i].at
             n == stamp - prev[i].at + Delay
  <2>1. m \in Nat /\ n \in Nat /\ m <= n
    BY <1>3, <1>4, <1>5, <1>6
  <2>2. Line * m <= Line * n /\ Line * m \in Nat /\ Line * n \in Nat
    BY <2>1, MoreTime
  <2> QED BY <1>3, <1>5, <2>2
<1>7. 0 <= Line * (now - stamp)
  BY <1>3, <1>4, MoreTime
<1> QED BY <1>1, <1>3, <1>4, <1>5, <1>6, <1>7

LEMMA CarryingStep == TypeOK /\ Timing /\ Counting /\ Carrying /\ [Next]_vars => Carrying'
<1> SUFFICES ASSUME TypeOK, Timing, Counting, Carrying, [Next]_vars PROVE Carrying'
  OBVIOUS
<1> USE Constants
<1>1. CASE Tick
  <2>1. PICK d \in [If -> 0..Line] :
           carried' = [i \in If |-> IF counter[i] = Gone THEN carried[i]
                                    ELSE carried[i] + d[i]]
    BY <1>1 DEF Tick
  <2>2. now' = now + 1 /\ UNCHANGED <<kind, pc, stamp, cur, prev>>
    BY <1>1 DEF Tick, samples
  <2>3. ASSUME NEW i \in If
        PROVE  /\ cur[i].at <= now' /\ prev[i].at <= now'
               /\ carried'[i] <= Line * (now' - cur[i].at)
    <3>1. /\ now \in Nat /\ carried[i] \in Nat /\ cur[i].at \in Nat /\ prev[i].at \in Nat
          /\ d[i] \in Nat /\ d[i] <= Line
      BY DEF TypeOK, Sample
    <3>2. /\ cur[i].at <= now /\ prev[i].at <= now
          /\ carried[i] <= Line * (now - cur[i].at)
      BY DEF Carrying
    <3>3. carried'[i] \in Nat /\ carried'[i] <= carried[i] + Line
      BY <2>1, <3>1
    <3> DEFINE n == now - cur[i].at
    <3>4. n \in Nat /\ now' - cur[i].at = n + 1
      BY <2>2, <3>1, <3>2
    <3>5. Line * (n + 1) = Line * n + Line /\ Line * n \in Nat
      BY <3>4, MoreTime
    <3>6. carried[i] <= Line * n
      BY <3>2
    <3> HIDE DEF n
    <3>7. carried'[i] <= Line * (n + 1)
      BY <3>1, <3>3, <3>5, <3>6
    <3>8. Line * (now' - cur[i].at) = Line * (n + 1)
      BY <3>4, Zenon
    <3>9. cur[i].at <= now' /\ prev[i].at <= now'
      BY <2>2, <3>1, <3>2
    <3> QED BY <3>7, <3>8, <3>9
  <2> QED BY <2>2, <2>3 DEF Carrying
<1>2. CASE ReadSource
  BY <1>2, ReadCarrying
<1>3. CASE PublishNet
  <2>1. /\ pc' # "publish" /\ prev' = cur /\ cur' = cur
        /\ UNCHANGED <<now, carried>>
    BY <1>3 DEF PublishNet, EndTick, NextPrev, host, links
  <2> QED BY <2>1 DEF Carrying
<1>4. CASE \/ Stop \/ Take \/ Done \/ Over \/ UNCHANGED vars \/ Stamp
           \/ ReadFiles \/ PublishSys \/ \E t \in Temps : Warm(t)
           \/ \E r \in Req : Arrive(r) \/ Answer(r)
           \/ \E i \in If : Replug(i)
  <2>1. /\ UNCHANGED <<kind, now, carried, cur, prev>>
        /\ (UNCHANGED <<pc, stamp>>) \/ pc' # "publish" \/ kind # "netstats"
    BY <1>4 DEF Stop, Take, Done, Over, vars, Arrive, Answer, Replug, Warm, Stamp,
       ReadFiles, PublishSys, EndTick, host, links, samples
  <2> QED BY <2>1 DEF Carrying
<1> QED BY <1>1, <1>2, <1>3, <1>4 DEF Next

\* What the two samples of a tick make of it.
LEMMA RateOfTick ==
    ASSUME TypeOK, Counting, Carrying, pc = "publish", kind = "netstats", NEW i \in If
    PROVE  LET r == Rate(prev[i], cur[i]) IN
             /\ r.bytes <= cur[i].moved
             /\ /\ prev[i].present /\ cur[i].present /\ cur[i].intact
                /\ cur[i].at - prev[i].at > 0
                => r = [bytes |-> cur[i].moved, per |-> cur[i].at - prev[i].at]
             /\ r.bytes <= Line * (r.per + Delay)
<1> USE Constants
<1>1. /\ cur[i].bytes \in Nat /\ prev[i].bytes \in Nat /\ cur[i].moved \in Nat
      /\ cur[i].at \in Nat /\ prev[i].at \in Nat
  BY DEF TypeOK, Sample
<1>2. CASE /\ cur[i].present /\ prev[i].present /\ cur[i].at > prev[i].at
           /\ cur[i].bytes >= prev[i].bytes
  <2>1. Rate(prev[i], cur[i]) = [bytes |-> cur[i].bytes - prev[i].bytes,
                                 per |-> cur[i].at - prev[i].at]
    BY <1>1, <1>2 DEF Rate, Minus
  <2>2. /\ cur[i].bytes <= prev[i].bytes + cur[i].moved
        /\ cur[i].intact => cur[i].bytes = prev[i].bytes + cur[i].moved
    BY <1>2 DEF Counting
  <2>3. cur[i].moved <= Line * (cur[i].at - prev[i].at + Delay)
    BY <1>1, <1>2 DEF Carrying
  <2> DEFINE l == Line * (cur[i].at - prev[i].at + Delay)
  <2>4. l \in Nat
    <3> DEFINE n == cur[i].at - prev[i].at + Delay
    <3>1. n \in Nat
      BY <1>1, <1>2
    <3> HIDE DEF n
    <3>2. Line * n \in Nat
      BY <3>1
    <3> QED BY <3>2 DEF n
  <2> HIDE DEF l
  <2>5. cur[i].bytes - prev[i].bytes <= l
    BY <1>1, <2>2, <2>3, <2>4 DEF l
  <2>6. /\ Rate(prev[i], cur[i]).bytes = cur[i].bytes - prev[i].bytes
        /\ Rate(prev[i], cur[i]).per = cur[i].at - prev[i].at
    BY <2>1
  <2>7. Rate(prev[i], cur[i]).bytes <= Line * (Rate(prev[i], cur[i]).per + Delay)
    BY <2>5, <2>6 DEF l
  <2>8. Rate(prev[i], cur[i]).bytes <= cur[i].moved
    BY <1>1, <2>2, <2>6
  <2>9. cur[i].intact => cur[i].bytes - prev[i].bytes = cur[i].moved
    BY <1>1, <2>2
  <2> QED BY <2>1, <2>7, <2>8, <2>9
<1>3. CASE ~(/\ cur[i].present /\ prev[i].present /\ cur[i].at > prev[i].at
             /\ cur[i].bytes >= prev[i].bytes)
  <2>1. Rate(prev[i], cur[i]) = [bytes |-> 0, per |-> 0]
    BY <1>3 DEF Rate, NoRate
  <2>2. Line * (0 + Delay) \in Nat
    BY MoreTime
  <2>3. ~(/\ prev[i].present /\ cur[i].present /\ cur[i].intact
          /\ cur[i].at - prev[i].at > 0)
    BY <1>1, <1>3 DEF Counting
  <2> QED BY <1>1, <2>1, <2>2, <2>3
<1> QED BY <1>2, <1>3

LEMMA RatesStep ==
    TypeOK /\ Counting /\ Carrying /\ (NotOverstated /\ Exact /\ LineSpeed) /\ [Next]_vars
      => (NotOverstated /\ Exact /\ LineSpeed)'
<1> SUFFICES ASSUME TypeOK, Counting, Carrying, NotOverstated, Exact, LineSpeed, [Next]_vars
             PROVE  (NotOverstated /\ Exact /\ LineSpeed)'
  OBVIOUS
<1>1. CASE PublishNet
  <2>1. PICK up \in [If -> BOOLEAN] :
          net' = [at |-> stamp,
                  ifs |-> [i \in If |->
                             [up |-> up[i], total |-> cur[i].bytes,
                              rate |-> Rate(prev[i], cur[i]),
                              span |-> cur[i].at - prev[i].at, moved |-> cur[i].moved,
                              intact |-> prev[i].present /\ cur[i].present /\ cur[i].intact]]]
    BY <1>1 DEF PublishNet
  <2>2. ASSUME NEW i \in If
        PROVE  /\ net'.ifs[i].rate = Rate(prev[i], cur[i]) /\ net'.ifs[i].moved = cur[i].moved
               /\ net'.ifs[i].span = cur[i].at - prev[i].at
               /\ net'.ifs[i].intact => prev[i].present /\ cur[i].present /\ cur[i].intact
    BY <2>1
  <2>3. pc = "publish" /\ kind = "netstats"
    BY <1>1 DEF PublishNet
  <2>4. ASSUME NEW i \in If
        PROVE  LET s == net'.ifs[i] IN
                 /\ s.rate.bytes <= s.moved
                 /\ s.intact /\ s.span > 0 => s.rate = [bytes |-> s.moved, per |-> s.span]
                 /\ s.rate.bytes <= Line * (s.rate.per + Delay)
    BY <2>2, <2>3, RateOfTick
  <2> QED BY <2>4 DEF NotOverstated, Exact, LineSpeed
<1>2. CASE ~PublishNet
  <2>1. net' = net
    BY <1>2 DEF Next, Tick, Stop, Take, Done, Stamp, ReadSource, ReadFiles, PublishSys,
       Replug, Warm, Arrive, Answer, Over, vars
  <2> QED BY <2>1 DEF NotOverstated, Exact, LineSpeed
<1> QED BY <1>1, <1>2

\* LEMMA: the three bounds on a rate hold together, by one induction.
LEMMA RatesAreSound == Spec => []NotOverstated /\ []Exact /\ []LineSpeed
<1> DEFINE IInv == TypeOK /\ Timing /\ Counting /\ Carrying
           Rates == NotOverstated /\ Exact /\ LineSpeed
<1>1. Init => IInv /\ Rates
  BY InitType, InitTiming, InitCounting
<1>2. IInv /\ Rates /\ [Next]_vars => IInv' /\ Rates'
  BY TypeStep, TimingStep, CountingStep, CarryingStep, RatesStep
<1>3. IInv /\ Rates => NotOverstated /\ Exact /\ LineSpeed
  OBVIOUS
<1> QED BY <1>1, <1>2, <1>3, PTL DEF Spec

\* THEOREM: however often counters restart at zero and whichever readings fail, a rate never stands for more
\* bytes than were carried between its two readings.
THEOREM NeverOverstated == Spec => []NotOverstated
  BY RatesAreSound

\* THEOREM: when both readings are of one life of an interface and the clock has moved
\* between them, there is a rate, for all the bytes and over all the time in between.
THEOREM ExactInOneLife == Spec => []Exact
  BY RatesAreSound

\* THEOREM: a rate is within what the link can carry in the time it is spread over and
\* in the lateness of one tick.
THEOREM WithinTheLine == Spec => []LineSpeed
  BY RatesAreSound

-----------------------------------------------------------------------------
\* What a tick has read of the temperature, and what is published of it, says on which
\* side of the limit the host is, unless it changed sides after the tick began.
HeatKnown ==
    kind = "system" =>
        /\ since <= now
        /\ pc = "publish" /\ since < stamp /\ "temp" \in taken.ok
             => (taken.temp >= Hot <=> temp >= Hot)
        /\ since < sys.at => (sys.throttled <=> temp >= Hot) \/ "temp" \in sys.err

LEMMA SameKind == [Next]_vars => kind' = kind
<1>1. Tick => kind' = kind
  BY DEF Tick
<1>2. (\E i \in If : Replug(i)) \/ (\E t \in Temps : Warm(t)) => kind' = kind
  BY DEF Replug, Warm
<1>3. ReadSource \/ ReadFiles \/ PublishNet \/ PublishSys => kind' = kind
  BY DEF ReadSource, ReadFiles, PublishNet, PublishSys
<1>4. Stop \/ Take \/ Done \/ Stamp \/ Over \/ UNCHANGED vars => kind' = kind
  BY DEF Stop, Take, Done, Stamp, Over, vars
<1>5. (\E r \in Req : Arrive(r) \/ Answer(r)) => kind' = kind
  BY DEF Arrive, Answer
<1> QED BY <1>1, <1>2, <1>3, <1>4, <1>5 DEF Next

LEMMA HeatStep == TypeOK /\ Timing /\ HeatKnown /\ [Next]_vars => HeatKnown'
<1> SUFFICES ASSUME TypeOK, Timing, HeatKnown, [Next]_vars, kind = "system" PROVE HeatKnown'
  BY SameKind DEF HeatKnown
<1>1. /\ now \in Nat /\ since \in Nat /\ stamp \in Nat /\ sys.at \in Nat /\ temp \in Nat
      /\ sys.at <= now /\ (pc = "publish" => stamp <= now) /\ since <= now
  BY Constants DEF TypeOK, Timing, Published, HeatKnown
<1>2. CASE \E t \in Temps : Warm(t)
  <2>1. PICK t \in Temps : Warm(t)
    BY <1>2
  <2>2. /\ temp' = t /\ UNCHANGED <<kind, now, pc, stamp, taken, sys>>
        /\ since' = IF (t >= Hot) = (temp >= Hot) THEN since ELSE now
    BY <2>1 DEF Warm, samples
  <2>3. CASE (t >= Hot) = (temp >= Hot)
    BY <1>1, <2>2, <2>3 DEF HeatKnown
  <2>4. CASE (t >= Hot) # (temp >= Hot)
    BY <1>1, <2>2, <2>4 DEF HeatKnown
  <2> QED BY <2>3, <2>4
<1>3. CASE ReadFiles
  <2>1. /\ "temp" \in taken'.ok => taken'.temp = temp
        /\ UNCHANGED <<kind, now, temp, since, sys>>
    BY <1>3 DEF ReadFiles, host, heat
  <2> QED BY <1>1, <2>1 DEF HeatKnown
<1>4. CASE PublishSys
  <2>1. /\ pc = "publish" /\ pc' = "select" /\ UNCHANGED <<kind, now, temp, since>>
        /\ sys'.at = stamp /\ sys'.throttled = Throttled(taken.ok, taken.temp)
        /\ sys'.err = Errors(taken.ok)
    BY <1>4 DEF PublishSys, EndTick, host, heat
  <2>2. "temp" \notin taken.ok => "temp" \in sys'.err
    BY <2>1 DEF Errors, Reading
  <2> QED BY <1>1, <2>1, <2>2 DEF HeatKnown, Throttled
<1>5. CASE Tick \/ Stamp
  <2>1. /\ now' = now \/ now' = now + 1
        /\ (UNCHANGED <<pc, stamp>>) \/ pc' = "read"
        /\ UNCHANGED <<kind, temp, since, taken, sys>>
    BY <1>5 DEF Tick, Stamp, host, heat, samples
  <2> QED BY <1>1, <2>1 DEF HeatKnown
<1>6. CASE \/ Stop \/ Take \/ Done \/ Over \/ UNCHANGED vars
           \/ \E r \in Req : Arrive(r) \/ Answer(r)
  <2>1. /\ (UNCHANGED <<pc, stamp>>) \/ pc' # "publish"
        /\ UNCHANGED <<kind, now, temp, since, taken, sys>>
    BY <1>6 DEF Stop, Take, Done, Over, vars, Arrive, Answer, host, heat, samples
  <2> QED BY <1>1, <2>1 DEF HeatKnown
<1>7. ~(ReadSource \/ PublishNet \/ \E i \in If : Replug(i))
  BY DEF ReadSource, PublishNet, Replug
<1> QED BY <1>2, <1>3, <1>4, <1>5, <1>6, <1>7 DEF Next

\* A request that is answered on time is answered with a tick that began after it came
\* to be long enough since the host changed sides.
LEMMA HeatAnswer ==
    TypeOK /\ Timing /\ Seen /\ HeatKnown =>
        \A r \in Req : kind = "system" /\ req[r] # NoReq
                           /\ since + Interval + 3 * Delay < req[r].at
                         => (sys.throttled <=> temp >= Hot) \/ "temp" \in sys.err
<1> SUFFICES ASSUME TypeOK, Timing, Seen, HeatKnown, NEW r \in Req,
                    kind = "system", req[r] # NoReq,
                    since + Interval + 3 * Delay < req[r].at
             PROVE  since < sys.at
  BY DEF HeatKnown
<1>1. /\ since \in Nat /\ sys.at \in Nat /\ req[r].at \in Nat /\ Interval \in Nat /\ Delay \in Nat
  BY Constants DEF TypeOK
<1>2. req[r].at <= sys.at + Interval + 3 * Delay
  BY AnswerStep DEF Answered, Published
<1> QED BY <1>1, <1>2

\* THEOREM: a host that has been hot, or cool, for an interval and three delays when a
\* request comes is reported so, or the temperature is reported as an error.
THEOREM HeatIsReported == Spec => HeatReported
<1> DEFINE IInv == TypeOK /\ Timing /\ Seen /\ HeatKnown
<1>1. Init => IInv
  <2>1. Init => HeatKnown
    BY DEF Init, HeatKnown, Unsampled
  <2> QED BY <2>1, InitType, InitTiming
<1>2. IInv /\ [Next]_vars => IInv'
  BY TypeStep, TimingStep, SeenStep, HeatStep
<1>3. IInv /\ [Next]_vars =>
        [\A r \in Req :
            kind = "system" /\ req[r] # NoReq /\ req'[r] = NoReq
               /\ since + Interval + 3 * Delay < req[r].at
            => (sys.throttled <=> temp >= Hot) \/ "temp" \in sys.err]_vars
  BY HeatAnswer
<1> QED BY <1>1, <1>2, <1>3, PTL DEF Spec, HeatReported
===============================================================================

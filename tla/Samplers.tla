------------------------------- MODULE Samplers -------------------------------
(***************************************************************************)
(* The two goroutines of the dashboard that sample the host once a second, *)
(* netstats (bytes per interface) and system (load, memory, temperature,   *)
(* uptime), and the requests for /api/stats that read what they publish.   *)
(* The two share no state; kind says which one an instance has.            *)
(*                                                                         *)
(* The host's counters move with the clock, are modulo a word, and restart *)
(* when an interface is unplugged and plugged in again.  A goroutine may   *)
(* be late between any two of its steps, but ends its tick Delay after it  *)
(* was due.  The two directions of an interface are treated alike, and one *)
(* is modelled.  A rate is a number of bytes and the time they are spread  *)
(* over.  Of what system reads only the temperature has a value here: load,*)
(* memory and uptime are one other reading, which may fail.                *)
(***************************************************************************)
EXTENDS Integers

CONSTANTS
    Kinds,      \* the samplers of the instance
    If,         \* the interfaces of the configuration that have a name
    Req,        \* requests for /api/stats that are served at once
    Word,       \* counters are modulo this
    Line,       \* what a link carries from one instant to the next
    Interval,   \* sampleInterval
    Delay,      \* how late a goroutine may be
    Wait,       \* how long the lazy collectors keep a request
    Hot,        \* thermalThrottleCelsius
    Temps,      \* temperatures of the instance
    Horizon,    \* when the clock of the instance ends, for each sampler
    Faults      \* TRUE: files are unreadable, interfaces come and go

ASSUME SamplerAssumption ==
    /\ Kinds \subseteq {"netstats", "system"}
    /\ {Word, Interval, Hot} \subseteq Nat \ {0}
    /\ {Line, Delay, Wait} \subseteq Nat /\ Line <= Word
    /\ Horizon \in [Kinds -> Nat] /\ Temps \subseteq Nat
    /\ Faults \in BOOLEAN

VARIABLES
    kind,       \* the sampler
    now,
    counter,    \* the host's counter of each interface, Gone without one
    carried,    \* history: bytes since the last reading
    intact,     \* history: whether it only counted up since then
    temp,       \* the temperature of the host
    since,      \* history: since when it has been on its side of Hot
    pc,         \* where the sampler is
    due,        \* since when it has had something to do
    fire,       \* when its ticker fires next, 0 without one
    pending,    \* whether its ticker has fired
    stamp,      \* the clock as the current tick read it
    cur, prev,  \* netstats: this tick's samples and the last tick's
    taken,      \* system: what this tick could read, and the temperature it read
    net, sys,   \* the published snapshots
    stopped,    \* when the process was told to stop, 0 before
    req         \* each request: when it came, and the snapshot it has read

links == <<counter, carried, intact>>
heat == <<temp, since>>
host == <<links, heat>>
timer == <<due, fire, pending>>
samples == <<cur, prev, taken>>
vars == <<kind, now, host, pc, timer, stamp, samples, net, sys, stopped, req>>

Gone == -1
Reading == {"temp", "others"}
NoSample == [present |-> FALSE, bytes |-> 0, at |-> 0, moved |-> 0, intact |-> FALSE]
NoRate == [bytes |-> 0, per |-> 0]
NoStats == [up |-> FALSE, total |-> 0, rate |-> NoRate,
            span |-> 0, moved |-> 0, intact |-> FALSE]
Untaken == [ok |-> {}, temp |-> 0]
Unsampled == [at |-> 1, throttled |-> FALSE, err |-> {}]
NoReq == [at |-> 0, seen |-> 0]

\* New and main: the snapshots are empty, the goroutine is about to take its first
\* tick, which no ticker has to fire.
Init ==
    /\ kind \in Kinds /\ now = 1 /\ stopped = 0
    /\ counter \in [If -> {Gone, 0}]
    /\ carried = [i \in If |-> 0] /\ intact = [i \in If |-> TRUE]
    /\ temp \in Temps /\ (kind = "netstats" => \A t \in Temps : temp <= t) /\ since = 1
    /\ pc = "tick" /\ due = 1 /\ fire = 0 /\ pending = FALSE /\ stamp = 0
    /\ cur = [i \in If |-> NoSample] /\ prev = [i \in If |-> NoSample]
    /\ net = [at |-> 1, ifs |-> [i \in If |-> NoStats]]
    /\ taken = Untaken /\ sys = Unsampled
    /\ req = [r \in Req |-> NoReq]

\* Sums and differences of unsigned words.
Plus(a, b) == IF a + b < Word THEN a + b ELSE a + b - Word
Minus(a, b) == IF b <= a THEN a - b ELSE a - b + Word

Busy == pc \in {"tick", "read", "publish"} \/ (pc = "select" /\ pending)

\* Mutant: the server goes on when the samplers are told to stop.
ServingOn == TRUE

\* main shuts the server down when it gets to it.
Serving == stopped = 0 \/ now < stopped + Delay
Published == IF kind = "netstats" THEN net.at ELSE sys.at

-----------------------------------------------------------------------------
\* Time passes, links carry bytes, the ticker fires; when its last tick has not been
\* taken, the new one is dropped.
Tick ==
    /\ now < Horizon[kind]
    /\ Busy => now < due + Delay
    /\ \A r \in Req : req[r] # NoReq => now < req[r].at + Wait
    /\ now' = now + 1
    /\ \E d \in [If -> IF kind = "netstats" THEN 0..Line ELSE {0}] :
         /\ counter' = [i \in If |-> IF counter[i] = Gone THEN Gone
                                     ELSE Plus(counter[i], d[i])]
         /\ carried' = [i \in If |-> IF counter[i] = Gone THEN carried[i]
                                     ELSE carried[i] + d[i]]
         /\ intact' = [i \in If |-> intact[i] /\ counter[i] + d[i] < Word]
    /\ IF fire = now + 1
         THEN /\ pending' = TRUE
              /\ fire' = fire + Interval
              /\ due' = IF Busy THEN due ELSE now + 1
         ELSE UNCHANGED timer
    /\ UNCHANGED <<kind, heat, pc, stamp, samples, net, sys, stopped, req>>

\* An adapter is unplugged, or one comes under this name and counts from zero.
Replug(i) ==
    /\ Faults /\ kind = "netstats"
    /\ counter' = [counter EXCEPT ![i] = IF @ = Gone THEN 0 ELSE Gone]
    /\ intact' = [intact EXCEPT ![i] = FALSE]
    /\ UNCHANGED <<kind, now, carried, heat, pc, timer, stamp, samples, net, sys, stopped, req>>

\* The host gets warmer or cooler.
Warm(t) ==
    /\ kind = "system" /\ t # temp
    /\ temp' = t
    /\ since' = IF (t >= Hot) = (temp >= Hot) THEN since ELSE now
    /\ UNCHANGED <<kind, now, links, pc, timer, stamp, samples, net, sys, stopped, req>>

\* SIGTERM.
Stop == /\ stopped = 0 /\ stopped' = now
        /\ UNCHANGED <<kind, now, host, pc, timer, stamp, samples, net, sys, req>>

\* The select of Run, which may take either when both are there.
Take == /\ pc = "select" /\ pending
        /\ pc' = "tick" /\ pending' = FALSE
        /\ UNCHANGED <<kind, now, host, due, fire, stamp, samples, net, sys, stopped, req>>

Done == /\ pc = "select" /\ stopped # 0
        /\ pc' = "stopped" /\ fire' = 0
        /\ UNCHANGED <<kind, now, host, due, pending, stamp, samples, net, sys, stopped, req>>

\* tick looks at the clock before it reads anything.
Stamp == /\ pc = "tick"
         /\ pc' = "read" /\ stamp' = now
         /\ UNCHANGED <<kind, now, host, timer, samples, net, sys, stopped, req>>

\* /proc/net/dev is read whole, or not at all.
ReadSource ==
    /\ pc = "read" /\ kind = "netstats" /\ pc' = "publish"
    /\ \E ok \in {TRUE, ~Faults} :
         cur' = [i \in If |->
                   LET present == ok /\ counter[i] # Gone IN
                     [present |-> present, bytes |-> IF present THEN counter[i] ELSE 0,
                      at |-> stamp, moved |-> carried[i], intact |-> intact[i]]]
    /\ carried' = [i \in If |-> 0] /\ intact' = [i \in If |-> TRUE]
    /\ UNCHANGED <<kind, now, counter, heat, timer, stamp, prev, taken, net, sys, stopped, req>>

\* system reads its files, each of which may be missing or hold nonsense.
ReadFiles ==
    /\ pc = "read" /\ kind = "system" /\ pc' = "publish"
    /\ \E ok \in SUBSET Reading :
         /\ Faults \/ ok = Reading
         /\ taken' = [ok |-> ok, temp |-> IF "temp" \in ok THEN temp ELSE 0]
    /\ UNCHANGED <<kind, now, host, timer, stamp, cur, prev, net, sys, stopped, req>>

\* Mutants of Rate: a counter that restarted is subtracted all the same, in signed
\* numbers or modulo the word; the divisor is the interval of the ticker.
RateSigned(p, c) ==
    IF c.present /\ p.present /\ c.at > p.at
      THEN [bytes |-> c.bytes - p.bytes, per |-> c.at - p.at] ELSE NoRate

RateUnchecked(p, c) ==
    IF c.present /\ p.present /\ c.at > p.at
      THEN [bytes |-> Minus(c.bytes, p.bytes), per |-> c.at - p.at] ELSE NoRate

RatePerInterval(p, c) ==
    IF c.present /\ p.present /\ c.at > p.at /\ c.bytes >= p.bytes
      THEN [bytes |-> c.bytes - p.bytes, per |-> Interval] ELSE NoRate

\* computeMbps behind tick's guard.
Rate(p, c) ==
    IF c.present /\ p.present /\ c.at > p.at /\ c.bytes >= p.bytes
      THEN [bytes |-> Minus(c.bytes, p.bytes), per |-> c.at - p.at]
      ELSE NoRate

\* The end of a tick: the ticker is made after the first one, and a tick that it has
\* sent meanwhile is there to be taken.
EndTick == /\ pc' = "select" /\ fire' = IF fire = 0 THEN now + Interval ELSE fire
           /\ due' = now /\ UNCHANGED pending

\* Mutant: what a failed reading leaves out stays as it was.
KeptSamples == [i \in If |-> IF cur[i].present THEN cur[i] ELSE prev[i]]

\* What is kept for the next tick: all of this tick's samples.
NextPrev == cur

\* netstats publishes: operstate is read now, whatever the counters said before.
PublishNet ==
    /\ pc = "publish" /\ kind = "netstats"
    /\ \E up \in [If -> BOOLEAN] :
         /\ \A i \in If : up[i] => counter[i] # Gone
         /\ net' = [at |-> stamp,
                    ifs |-> [i \in If |->
                               [up |-> up[i], total |-> cur[i].bytes,
                                rate |-> Rate(prev[i], cur[i]),
                                span |-> cur[i].at - prev[i].at, moved |-> cur[i].moved,
                                intact |-> prev[i].present /\ cur[i].present /\ cur[i].intact]]]
    /\ prev' = NextPrev
    /\ EndTick
    /\ UNCHANGED <<kind, now, host, stamp, cur, taken, sys, stopped, req>>

\* Mutant: a board without a thermal zone is no error.
ErrorsButHeat(ok) == Reading \ (ok \cup {"temp"})

Throttled(ok, t) == "temp" \in ok /\ t >= Hot
Errors(ok) == Reading \ ok

\* system publishes what this tick could read, and nothing of an earlier one.
PublishSys ==
    /\ pc = "publish" /\ kind = "system"
    /\ sys' = [at |-> stamp, throttled |-> Throttled(taken.ok, taken.temp),
               err |-> Errors(taken.ok)]
    /\ taken' = Untaken
    /\ EndTick
    /\ UNCHANGED <<kind, now, host, stamp, cur, prev, net, stopped, req>>

\* Stats reads netstats first, asks the lazy collectors, and reads system last.
Arrive(r) ==
    /\ req[r] = NoReq /\ Serving
    /\ req' = [req EXCEPT ![r] = [at |-> now, seen |-> Published]]
    /\ UNCHANGED <<kind, now, host, pc, timer, stamp, samples, net, sys, stopped>>

\* The snapshot that is passed on: of netstats the one that was read on arrival.
Answered(r) == IF kind = "netstats" THEN req[r].seen ELSE Published

Answer(r) ==
    /\ req[r] # NoReq
    /\ req' = [req EXCEPT ![r] = NoReq]
    /\ UNCHANGED <<kind, now, host, pc, timer, stamp, samples, net, sys, stopped>>

\* The clock of the instance has ended.
Over == now = Horizon[kind] /\ UNCHANGED vars

Next ==
    \/ Tick \/ Stop \/ Take \/ Done \/ Stamp \/ ReadSource \/ ReadFiles \/ Over
    \/ PublishNet \/ PublishSys
    \/ \E i \in If : Replug(i)
    \/ \E t \in Temps : Warm(t)
    \/ \E r \in Req : Arrive(r) \/ Answer(r)

Spec == Init /\ [][Next]_vars
-----------------------------------------------------------------------------
Sample == [present : BOOLEAN, bytes : Nat, at : Nat, moved : Nat, intact : BOOLEAN]
Stats == [up : BOOLEAN, total : Nat, rate : [bytes : Nat, per : Nat],
          span : Int, moved : Nat, intact : BOOLEAN]

TypeOK ==
    /\ kind \in Kinds /\ now \in Nat /\ stopped \in Nat
    /\ due \in Nat /\ fire \in Nat /\ stamp \in Nat
    /\ counter \in [If -> (0..Word - 1) \cup {Gone}]
    /\ carried \in [If -> Nat] /\ intact \in [If -> BOOLEAN]
    /\ temp \in Temps /\ since \in Nat
    /\ pc \in {"select", "tick", "read", "publish", "stopped"} /\ pending \in BOOLEAN
    /\ cur \in [If -> Sample] /\ prev \in [If -> Sample]
    /\ net \in [at : Nat, ifs : [If -> Stats]]
    /\ taken \in [ok : SUBSET Reading, temp : Nat]
    /\ sys \in [at : Nat, throttled : BOOLEAN, err : SUBSET Reading]
    /\ req \in [Req -> [at : Nat, seen : Nat]]

\* However an interface comes, goes and comes back under its name with a counter that
\* restarts at zero, and whichever readings fail, a rate never stands for more bytes
\* than were carried between its two readings (throughput.go:157-160, 185-195).
NotOverstated ==
    \A i \in If : net.ifs[i].rate.bytes <= net.ifs[i].moved

\* When both readings are of one life of the interface, and the clock has moved
\* between them, there is a rate, for all that was carried in between and over all the
\* time: nothing is counted in two rates, or in none (throughput.go:156-173).
Exact ==
    \A i \in If : LET s == net.ifs[i] IN
        s.intact /\ s.span > 0 => s.rate = [bytes |-> s.moved, per |-> s.span]

\* The clock is looked at before the counters are (throughput.go:131-133), so a tick
\* that is held up between the two counts the bytes of its delay without their
\* time.  That is all by which a rate can exceed what the link can carry.
LineSpeed ==
    \A i \in If : net.ifs[i].rate.bytes <= Line * (net.ifs[i].rate.per + Delay)

\* Whatever the order in which ticker, sampler, request and SIGTERM get their turns,
\* with ticks dropped and the first one late, a request is answered with a sample that
\* was, when it came, at most an interval and the lateness of three steps old
\* (throughput.go:106-123, info.go:106-134, main.go:29-40 and 104-109).
AnswerIsCurrent ==
    [][\A r \in Req : req[r] # NoReq /\ req'[r] = NoReq
                        => req[r].at <= Answered(r) + Interval + 3 * Delay]_vars

\* Once the host has been on one side of the limit for an interval and the lateness of
\* three steps, a request that comes then is answered with that side, or with the error
\* of the temperature: no late, dropped or half-failed tick lets the dashboard say "not
\* throttled" of a hot host without an error (info.go:140-196, handlers.go:330-355).
HeatReported ==
    [][\A r \in Req :
         kind = "system" /\ req[r] # NoReq /\ req'[r] = NoReq
            /\ since + Interval + 3 * Delay < req[r].at
         => (sys.throttled <=> temp >= Hot) \/ "temp" \in sys.err]_vars
===============================================================================

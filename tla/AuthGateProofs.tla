---------------------------- MODULE AuthGateProofs ----------------------------
(***************************************************************************)
(* Proofs about AuthGate, for any number of users, passwords and requests  *)
(* and any lifetime of the cache.                                          *)
(***************************************************************************)
EXTENDS AuthGate, TLAPS

USE AuthAssumption DEF AuthAssumption

\* The claims a verdict on credentials c rests on.
Held(c, x) == last[[user |-> c.user, is |-> x]]

LEMMA ClaimFacts ==
    ASSUME NEW c \in Cred, NEW x \in Password \cup Role
    PROVE  /\ c.user \in User /\ c.password \in Password
           /\ [user |-> c.user, is |-> x] \in Claim
  BY DEF Cred, Claim

LEMMA EpochNat == Epoch \in Nat /\ Epoch > 0
  BY DEF Epoch, Bound

LEMMA TypeFacts ==
    ASSUME TypeOK
    PROVE  now \in Nat /\ last \in [Claim -> Nat]
  BY DEF TypeOK

LEMMA CredFacts ==
    ASSUME TypeOK, NEW r \in Req, cred[r] \in Cred
    PROVE  /\ [user |-> cred[r].user, is |-> cred[r].password] \in Claim
           /\ account[cred[r].user].groups \subseteq Role
<1>1. cred[r].user \in User /\ cred[r].password \in Password
  BY DEF Cred
<1>2. account[cred[r].user] \in [password : Password, groups : SUBSET Role]
  BY <1>1 DEF TypeOK, Accounts
<1> QED BY <1>1, <1>2 DEF Claim

LEMMA TypeInit == Init => TypeOK
<1> SUFFICES ASSUME Init PROVE TypeOK
  OBVIOUS
<1>1. Epoch \in Nat
  BY EpochNat
<1>2. last \in [Claim -> Nat]
  BY <1>1 DEF Init
<1>3. cache \in [Cred -> Entry]
  BY DEF Init, NoEntry, Entry
<1> QED BY <1>1, <1>2, <1>3 DEF Init, TypeOK, Accounts, Page

\* Types of the variables a request step touches, once for Arrive and Answer.
LEMMA ArriveType ==
    ASSUME TypeOK, NEW r \in Req, NEW g \in Page, NEW c \in Cred \cup {NoCred},
           Arrive(r, g, c)
    PROVE  /\ page' \in [Req -> Page] /\ cred' \in [Req -> Cred \cup {NoCred}]
           /\ since' \in [Req -> Nat]
  BY DEF Arrive, TypeOK

LEMMA AnswerType ==
    ASSUME TypeOK, NEW r \in Req, Answer(r)
    PROVE  /\ page' \in [Req -> Page] /\ cred' \in [Req -> Cred \cup {NoCred}]
           /\ since' \in [Req -> Nat] /\ role' \in [Req -> Role \cup {""}]
           /\ pc' \in [Req -> {"idle"} \cup Busy]
  BY DEF Answer, Goto, TypeOK, Page

LEMMA TypeStep == TypeOK /\ [Next]_vars => TypeOK'
<1> SUFFICES ASSUME TypeOK, [Next]_vars PROVE TypeOK'
  OBVIOUS
<1> USE DEF Busy, Asking, Serving
<1>1. CASE Tick
  <2>1. now + 1 \in Nat
    BY TypeFacts
  <2>2. last' \in [Claim -> Nat]
    BY <1>1, <2>1, TypeFacts DEF Tick, Seen
  <2> QED BY <1>1, <2>1, <2>2 DEF Tick, TypeOK, request
<1>2. CASE Restart
  <2>1. cache' \in [Cred -> Entry]
    BY <1>2 DEF Restart, NoEntry, Entry
  <2> QED BY <1>2, <2>1 DEF Restart, TypeOK, auth, Page
<1>3. ASSUME NEW u \in User, Change(u) PROVE TypeOK'
  <2>1. account' \in Accounts
    BY <1>3 DEF Change, TypeOK, Accounts
  <2>2. last' \in [Claim -> Nat]
    BY <1>3 DEF Change, TypeOK, Seen
  <2> QED BY <1>3, <2>1, <2>2 DEF Change, TypeOK, request
<1>4. ASSUME NEW r \in Req, Open(r) PROVE TypeOK'
  BY <1>4, ArriveType DEF Open, Admit, Goto, TypeOK, auth
<1>5. ASSUME NEW r \in Req, Lookup(r) PROVE TypeOK'
  <2>1. PICK g \in Page \ {"health"}, c \in Cred :
          /\ Arrive(r, g, c)
          /\ IF Fresh(cache[c]) THEN Admit(r, cache[c].role)
                                ELSE Goto(r, "pam") /\ UNCHANGED role
    BY <1>5 DEF Lookup
  <2>2. cache[c].role \in Role \cup {""}
    BY DEF TypeOK, Entry
  <2> QED BY <1>5, <2>1, <2>2, ArriveType DEF Lookup, Admit, Goto, TypeOK, auth
<1>6. ASSUME NEW r \in Req, Helper(r) PROVE TypeOK'
  <2>1. UNCHANGED <<auth, cache>>
    BY <1>6 DEF Helper, Pam, PamTimeout, HelperLost, Resolve
  <2>2. CASE Answer(r)
    BY <2>1, <2>2, AnswerType DEF TypeOK, auth
  <2>3. CASE ~Answer(r)
    <3>1. /\ UNCHANGED request
          /\ \E l \in {"resolve", "store"} : Goto(r, l)
          /\ role' = role \/ \E x \in Role : role' = [role EXCEPT ![r] = x]
      <4>1. CASE Pam(r)
        BY <4>1, <2>3 DEF Pam
      <4>2. CASE Resolve(r)
        BY <4>2, <2>3 DEF Resolve, RoleOf, Role
      <4> QED BY <1>6, <2>3, <4>1, <4>2 DEF Helper, PamTimeout, HelperLost
    <3> QED BY <2>1, <3>1 DEF Goto, TypeOK, auth, request
  <2> QED BY <2>2, <2>3
<1>7. ASSUME NEW r \in Req, Store(r) PROVE TypeOK'
  <2>1. now + TTL \in Nat
    BY TypeFacts
  <2>2. role[r] \in Role \cup {""} /\ cache \in [Cred -> Entry]
    BY DEF TypeOK
  <2>3. [role |-> role[r], expires |-> now + TTL] \in Entry
    BY <2>1, <2>2 DEF Entry
  <2>4. cache' \in [Cred -> Entry]
    BY <1>7, <2>2, <2>3 DEF Store
  <2> QED BY <1>7, <2>4 DEF Store, Goto, TypeOK, auth, request
<1>8. ASSUME NEW r \in Req, Handle(r) \/ Act(r) PROVE TypeOK'
  BY <1>8, AnswerType DEF Handle, Act, Goto, TypeOK, auth, request
<1>9. CASE UNCHANGED vars
  BY <1>9 DEF vars, auth, request, TypeOK
<1> QED BY <1>1, <1>2, <1>3, <1>4, <1>5, <1>6, <1>7, <1>8, <1>9 DEF Next, Serve

\* Types, for any users, passwords and number of requests.
THEOREM TypeCorrect == Spec => []TypeOK
  BY TypeInit, TypeStep, PTL DEF Spec

-----------------------------------------------------------------------------
(***************************************************************************)
(* The history is what it says: a claim that is true is true now, none was *)
(* last true in the future, and no step takes back what was seen.          *)
(***************************************************************************)
History == /\ now >= Epoch
           /\ \A k \in Claim : /\ last[k] <= now
                               /\ True(account, k) => last[k] = now

LEMMA HistoryStep ==
    ASSUME TypeOK, History, [Next]_vars
    PROVE  /\ History'
           /\ \A k \in Claim : last[k] <= last'[k]
           /\ guarded' = guarded
<1>0. now \in Nat /\ last \in [Claim -> Nat] /\ Epoch \in Nat
  BY TypeFacts, EpochNat
<1>1. CASE Tick
  <2>1. /\ now' = now + 1 /\ account' = account /\ guarded' = guarded
        /\ \A k \in Claim : last'[k] = IF True(account, k) THEN now + 1 ELSE last[k]
    BY <1>1 DEF Tick, Seen
  <2> QED BY <1>0, <2>1 DEF History, True
<1>2. ASSUME NEW u \in User, Change(u) PROVE
        /\ History' /\ guarded' = guarded
        /\ \A k \in Claim : last[k] <= last'[k]
  <2>1. /\ now' = now /\ guarded' = guarded
        /\ \A k \in Claim : last'[k] = IF True(account', k) THEN now ELSE last[k]
    BY <1>2 DEF Change, Seen
  <2> QED BY <1>0, <2>1 DEF History
<1>3. CASE UNCHANGED auth
  BY <1>0, <1>3 DEF auth, History, True
<1>4. CASE UNCHANGED vars
  BY <1>4, <1>3 DEF vars
<1>5. ASSUME NEW r \in Req, Open(r) \/ Lookup(r) \/ Helper(r) \/ Serve(r)
      PROVE UNCHANGED auth
  BY <1>5 DEF Open, Lookup, Helper, Serve, Pam, PamTimeout, HelperLost, Resolve,
              Store, Handle, Act
<1>6. CASE Restart
  BY <1>6, <1>3 DEF Restart
<1> QED BY <1>1, <1>2, <1>3, <1>4, <1>5, <1>6 DEF Next

-----------------------------------------------------------------------------
(***************************************************************************)
(* What is known of a request at each of its labels, and of an entry: the  *)
(* claims behind it were true no earlier than the lookup of the request    *)
(* that checked them.                                                      *)
(***************************************************************************)
Checked(c, x, t) ==
    c \in Cred /\ x \in Role /\ c.password # Blank
    /\ t <= Held(c, c.password) /\ t <= Held(c, x)

\* ... or that long after, when the verdict comes from the cache.
Trusted(c, x, t) ==
    c \in Cred /\ x \in Role /\ c.password # Blank
    /\ t <= Held(c, c.password) + TTL + Delay /\ t <= Held(c, x) + TTL + Delay

Behind(r) == guarded /\ page[r] # "health"      \* the gate is closed

RequestInv(r) ==
    /\ pc[r] \in Busy => since[r] <= now /\ now <= since[r] + Delay
    /\ pc[r] \in Asking \cup {"store"} => Behind(r) /\ cred[r] \in Cred
    /\ pc[r] = "resolve" => /\ cred[r].password # Blank
                            /\ since[r] <= Held(cred[r], cred[r].password)
    /\ pc[r] = "store" => Checked(cred[r], role[r], since[r])
    /\ pc[r] \in Serving /\ Behind(r) => Trusted(cred[r], role[r], since[r])
    /\ pc[r] = "acting" => Behind(r) /\ role[r] = "admin"

EntryInv(c) ==
    cache[c].expires # 0 => Trusted(c, cache[c].role, cache[c].expires)

Inv == /\ TypeOK /\ History
       /\ \A r \in Req : RequestInv(r)
       /\ \A c \in Cred : EntryInv(c)

LEMMA InvInit == Init => Inv
<1> SUFFICES ASSUME Init PROVE Inv
  OBVIOUS
<1>1. TypeOK
  BY TypeInit
<1>2. History
  <2>1. /\ now = Epoch
        /\ \A k \in Claim : last[k] = IF True(account, k) THEN Epoch ELSE 0
    BY DEF Init
  <2> QED BY <2>1, EpochNat DEF History
<1>3. \A r \in Req : RequestInv(r)
  BY DEF Init, RequestInv, Busy, Asking, Serving
<1>4. \A c \in Cred : EntryInv(c)
  BY DEF Init, EntryInv, NoEntry
<1> QED BY <1>1, <1>2, <1>3, <1>4 DEF Inv

\* What was known stays known when the history only grows.
LEMMA StillTrusted ==
    ASSUME last \in [Claim -> Nat], last' \in [Claim -> Nat],
           \A k \in Claim : last[k] <= last'[k],
           NEW c \in Cred, NEW x \in Role, NEW t \in Nat, Trusted(c, x, t)
    PROVE  Trusted(c, x, t)'
<1>1. /\ [user |-> c.user, is |-> x] \in Claim
      /\ [user |-> c.user, is |-> c.password] \in Claim
  BY ClaimFacts
<1> QED BY <1>1 DEF Trusted, Held

LEMMA StillChecked ==
    ASSUME last \in [Claim -> Nat], last' \in [Claim -> Nat],
           \A k \in Claim : last[k] <= last'[k],
           NEW c \in Cred, NEW x \in Role, NEW t \in Nat, Checked(c, x, t)
    PROVE  Checked(c, x, t)'
<1>1. /\ [user |-> c.user, is |-> x] \in Claim
      /\ [user |-> c.user, is |-> c.password] \in Claim
  BY ClaimFacts
<1> QED BY <1>1 DEF Checked, Held

Untouched(r) == /\ pc'[r] = pc[r] /\ page'[r] = page[r] /\ cred'[r] = cred[r]
                /\ role'[r] = role[r] /\ since'[r] = since[r]

\* A request that takes no step itself.
LEMMA RequestKept ==
    ASSUME Inv, TypeOK', [Next]_vars, NEW r \in Req, Untouched(r),
           now' = now \/ Tick
    PROVE  RequestInv(r)'
<1>0. /\ \A k \in Claim : last[k] <= last'[k]
      /\ guarded' = guarded
  BY HistoryStep DEF Inv
<1>1. /\ last \in [Claim -> Nat] /\ last' \in [Claim -> Nat] /\ since[r] \in Nat
      /\ now \in Nat
  BY TypeFacts DEF Inv, TypeOK
<1>2. RequestInv(r)
  BY DEF Inv
<1>3. Behind(r)' = Behind(r)
  BY <1>0 DEF Untouched, Behind
<1>4. pc[r] \in Busy => since[r] <= now' /\ now' <= since[r] + Delay
  BY <1>1, <1>2 DEF RequestInv, Tick
<1>5. pc[r] = "resolve" => since[r] <= Held(cred[r], cred[r].password)'
  <2> SUFFICES ASSUME pc[r] = "resolve"
               PROVE  since[r] <= Held(cred[r], cred[r].password)'
    OBVIOUS
  <2>1. cred[r] \in Cred /\ since[r] <= Held(cred[r], cred[r].password)
    BY <1>2 DEF RequestInv, Asking
  <2>2. [user |-> cred[r].user, is |-> cred[r].password] \in Claim
    BY <2>1, CredFacts DEF Inv
  <2>3. /\ last[[user |-> cred[r].user, is |-> cred[r].password]] \in Nat
        /\ last'[[user |-> cred[r].user, is |-> cred[r].password]] \in Nat
        /\ last[[user |-> cred[r].user, is |-> cred[r].password]]
             <= last'[[user |-> cred[r].user, is |-> cred[r].password]]
    BY <1>0, <1>1, <2>2
  <2>4. Held(cred[r], cred[r].password)'
          = last'[[user |-> cred[r].user, is |-> cred[r].password]]
    BY DEF Held, Untouched
  <2> QED BY <1>1, <2>1, <2>3, <2>4 DEF Held
<1>6. pc[r] = "store" => Checked(cred[r], role[r], since[r])'
  <2> SUFFICES ASSUME pc[r] = "store" PROVE Checked(cred[r], role[r], since[r])'
    OBVIOUS
  <2>1. Checked(cred[r], role[r], since[r]) /\ cred[r] \in Cred /\ role[r] \in Role
    BY <1>2 DEF RequestInv, Checked
  <2> QED BY <1>0, <1>1, <2>1, StillChecked DEF Checked, Held, Untouched
<1>7. pc[r] \in Serving /\ Behind(r) => Trusted(cred[r], role[r], since[r])'
  <2> SUFFICES ASSUME pc[r] \in Serving /\ Behind(r)
               PROVE  Trusted(cred[r], role[r], since[r])'
    OBVIOUS
  <2>1. Trusted(cred[r], role[r], since[r]) /\ cred[r] \in Cred /\ role[r] \in Role
    BY <1>2 DEF RequestInv, Trusted
  <2> QED BY <1>0, <1>1, <2>1, StillTrusted DEF Trusted, Held, Untouched
<1> QED BY <1>2, <1>3, <1>4, <1>5, <1>6, <1>7 DEF RequestInv, Untouched

LEMMA EntryKept ==
    ASSUME Inv, TypeOK', [Next]_vars, NEW c \in Cred, cache'[c] = cache[c]
    PROVE  EntryInv(c)'
<1>0. \A k \in Claim : last[k] <= last'[k]
  BY HistoryStep DEF Inv
<1>1. /\ last \in [Claim -> Nat] /\ last' \in [Claim -> Nat]
      /\ cache[c].expires \in Nat
  BY DEF Inv, TypeOK, Entry
<1> SUFFICES ASSUME cache[c].expires # 0
             PROVE  Trusted(c, cache[c].role, cache[c].expires)'
  BY DEF EntryInv
<1>2. Trusted(c, cache[c].role, cache[c].expires) /\ cache[c].role \in Role
  BY DEF Inv, EntryInv, Trusted
<1> QED BY <1>0, <1>1, <1>2, StillTrusted DEF Trusted, Held

\* A request that was just answered.
LEMMA AnsweredFacts ==
    ASSUME TypeOK, NEW r \in Req, Answer(r)
    PROVE  RequestInv(r)' /\ \A q \in Req : q # r => Untouched(q)
  BY DEF Answer, Goto, TypeOK, RequestInv, Busy, Asking, Serving, Untouched

LEMMA ArriveFacts ==
    ASSUME TypeOK, NEW r \in Req, NEW g \in Page, NEW c \in Cred \cup {NoCred},
           Arrive(r, g, c)
    PROVE  /\ page'[r] = g /\ cred'[r] = c /\ since'[r] = now
           /\ \A q \in Req : q # r =>
                page'[q] = page[q] /\ cred'[q] = cred[q] /\ since'[q] = since[q]
  BY DEF Arrive, TypeOK

-----------------------------------------------------------------------------
(***************************************************************************)
(* A step of request r: r ends up as RequestInv says, the others and, but  *)
(* for Store, the cache are left alone.                                    *)
(***************************************************************************)
Stepped(r) == RequestInv(r)' /\ \A q \in Req : q # r => Untouched(q)

LEMMA OpenStep ==
    ASSUME Inv, TypeOK', NEW r \in Req, Open(r)
    PROVE  Stepped(r)
<1>0. TypeOK /\ now \in Nat
  BY DEF Inv, TypeOK
<1>1. PICK g \in Page : (~guarded \/ g = "health") /\ Arrive(r, g, NoCred)
  BY DEF Open
<1>2. /\ page'[r] = g /\ since'[r] = now /\ now' = now /\ guarded' = guarded
      /\ pc'[r] = "handler"
      /\ \A q \in Req : q # r => Untouched(q)
  BY <1>0, <1>1, ArriveFacts DEF Open, Admit, Goto, TypeOK, Untouched, auth
<1>3. ~Behind(r)'
  BY <1>1, <1>2 DEF Behind
<1> QED BY <1>0, <1>2, <1>3 DEF Stepped, RequestInv, Busy, Asking, Serving

LEMMA LookupStep ==
    ASSUME Inv, TypeOK', NEW r \in Req, Lookup(r)
    PROVE  Stepped(r)
<1>0. TypeOK /\ now \in Nat /\ last \in [Claim -> Nat]
  BY DEF Inv, TypeOK
<1>1. PICK g \in Page \ {"health"}, c \in Cred :
        /\ Arrive(r, g, c)
        /\ IF Fresh(cache[c]) THEN Admit(r, cache[c].role)
                              ELSE Goto(r, "pam") /\ UNCHANGED role
  BY DEF Lookup
<1>2. /\ page'[r] = g /\ cred'[r] = c /\ since'[r] = now
      /\ UNCHANGED <<now, last, guarded, cache>> /\ guarded
      /\ \A q \in Req : q # r => page'[q] = page[q] /\ cred'[q] = cred[q]
                                 /\ since'[q] = since[q]
  BY <1>0, <1>1, ArriveFacts DEF Lookup, auth
<1>3. Behind(r)'
  BY <1>1, <1>2 DEF Behind
<1>4. CASE ~Fresh(cache[c])
  <2>1. pc'[r] = "pam" /\ \A q \in Req : q # r => Untouched(q)
    BY <1>0, <1>1, <1>2, <1>4 DEF Goto, TypeOK, Untouched
  <2> QED BY <1>0, <1>2, <1>3, <2>1 DEF Stepped, RequestInv, Busy, Asking, Serving
<1>5. CASE Fresh(cache[c])
  <2>1. /\ pc'[r] = "handler" /\ role'[r] = cache[c].role
        /\ \A q \in Req : q # r => Untouched(q)
    BY <1>0, <1>1, <1>2, <1>5 DEF Admit, Goto, TypeOK, Untouched
  <2>2. now <= cache[c].expires /\ cache[c].expires \in Nat /\ now > 0
    <3>1. now > 0
      BY <1>0, EpochNat DEF Inv, History
    <3> QED BY <1>5, <3>1 DEF Fresh, TypeOK, Entry, Inv
  <2>3. Trusted(c, cache[c].role, cache[c].expires)
    BY <1>0, <2>2 DEF Inv, EntryInv
  <2>4. /\ [user |-> c.user, is |-> cache[c].role] \in Claim
        /\ [user |-> c.user, is |-> c.password] \in Claim
    BY <2>3, ClaimFacts DEF Trusted
  <2>5. Trusted(c, cache[c].role, now)
    BY <1>0, <2>2, <2>3, <2>4 DEF Trusted, Held
  <2>6. Trusted(cred[r], role[r], since[r])'
    BY <1>2, <2>1, <2>5 DEF Trusted, Held
  <2> QED BY <1>0, <1>2, <2>1, <2>6 DEF Stepped, RequestInv, Busy, Asking, Serving
<1> QED BY <1>4, <1>5

LEMMA HelperStep ==
    ASSUME Inv, TypeOK', NEW r \in Req, Helper(r)
    PROVE  Stepped(r)
<1>0. /\ TypeOK /\ RequestInv(r) /\ History /\ UNCHANGED <<auth, cache>>
      /\ now \in Nat /\ last \in [Claim -> Nat]
  BY DEF Inv, TypeOK, Helper, Pam, PamTimeout, HelperLost, Resolve
<1>1. CASE Answer(r)
  BY <1>0, <1>1, AnsweredFacts DEF Stepped
<1>2. CASE Pam(r) /\ ~Answer(r)
  <2>1. /\ pc[r] = "pam" /\ cred[r].password # Blank
        /\ cred[r].password = account[cred[r].user].password
        /\ Goto(r, "resolve") /\ UNCHANGED <<request, role>>
    BY <1>2 DEF Pam
  <2>2. /\ cred[r] \in Cred /\ Behind(r) /\ since[r] <= now /\ now <= since[r] + Delay
    BY <1>0, <2>1 DEF RequestInv, Busy, Asking
  <2>3. since[r] <= Held(cred[r], cred[r].password)
    <3> DEFINE k == [user |-> cred[r].user, is |-> cred[r].password]
    <3>1. k \in Claim
      BY <1>0, <2>2, CredFacts
    <3>2. True(account, k)
      BY <2>1 DEF True
    <3> QED BY <1>0, <2>2, <3>1, <3>2 DEF History, Held
  <2>4. pc'[r] = "resolve" /\ \A q \in Req : q # r => Untouched(q)
    BY <1>0, <2>1 DEF Goto, TypeOK, Untouched, request
  <2> QED BY <1>0, <2>1, <2>2, <2>3, <2>4
       DEF Stepped, RequestInv, Busy, Asking, Serving, Behind, Held, request, auth
<1>3. CASE Resolve(r) /\ ~Answer(r)
  <2>1. PICK groups \in SUBSET account[cred[r].user].groups :
          /\ groups # {} /\ Goto(r, "store") /\ UNCHANGED request
          /\ role' = [role EXCEPT ![r] = RoleOf(groups)]
    BY <1>3 DEF Resolve
  <2>2. /\ pc[r] = "resolve" /\ cred[r] \in Cred /\ Behind(r)
        /\ since[r] <= now /\ now <= since[r] + Delay
        /\ cred[r].password # Blank /\ since[r] <= Held(cred[r], cred[r].password)
    BY <1>0, <1>3 DEF Resolve, RequestInv, Busy, Asking
  <2>3. RoleOf(groups) \in groups /\ RoleOf(groups) \in Role
    <3>1. groups \subseteq Role
      BY <1>0, <2>1, <2>2, CredFacts
    <3> QED BY <2>1, <3>1 DEF RoleOf, Role
  <2>4. since[r] <= Held(cred[r], RoleOf(groups))
    <3> DEFINE k == [user |-> cred[r].user, is |-> RoleOf(groups)]
    <3>1. k \in Claim
      BY <2>2, <2>3, ClaimFacts
    <3>2. True(account, k)
      BY <2>1, <2>3 DEF True
    <3> QED BY <1>0, <2>2, <3>1, <3>2 DEF History, Held
  <2>5. /\ pc'[r] = "store" /\ role'[r] = RoleOf(groups)
        /\ \A q \in Req : q # r => Untouched(q)
    BY <1>0, <2>1 DEF Goto, TypeOK, Untouched, request
  <2>6. Checked(cred[r], role[r], since[r])'
    BY <1>0, <2>1, <2>2, <2>3, <2>4, <2>5 DEF Checked, Held, request, auth
  <2> QED BY <1>0, <2>1, <2>2, <2>5, <2>6
       DEF Stepped, RequestInv, Busy, Asking, Serving, Behind, request, auth
<1> QED BY <1>1, <1>2, <1>3 DEF Helper, PamTimeout, HelperLost

\* cache.set writes a verdict that the request itself has just had checked.
LEMMA StoreStep ==
    ASSUME Inv, TypeOK', NEW r \in Req, Store(r)
    PROVE  /\ Stepped(r)
           /\ EntryInv(cred[r])'
           /\ \A c \in Cred : c # cred[r] => cache'[c] = cache[c]
<1>0. TypeOK /\ RequestInv(r)
  BY DEF Inv
<1>1. /\ pc[r] = "store" /\ UNCHANGED <<auth, request, role>>
      /\ cache' = [cache EXCEPT ![cred[r]] = [role |-> role[r], expires |-> now + TTL]]
      /\ pc'[r] = "handler"
      /\ \A q \in Req : q # r => Untouched(q)
  BY <1>0 DEF Store, Goto, TypeOK, Untouched, request
<1>2. /\ Checked(cred[r], role[r], since[r]) /\ Behind(r)
      /\ since[r] <= now /\ now <= since[r] + Delay
  BY <1>0, <1>1 DEF RequestInv, Busy
<1>3. /\ Held(cred[r], cred[r].password) \in Nat /\ Held(cred[r], role[r]) \in Nat
      /\ since[r] \in Nat /\ now \in Nat
  <2>1. /\ [user |-> cred[r].user, is |-> cred[r].password] \in Claim
        /\ [user |-> cred[r].user, is |-> role[r]] \in Claim
    BY <1>2, ClaimFacts DEF Checked
  <2>2. since[r] \in Nat
    BY <1>0 DEF TypeOK
  <2> QED BY <1>0, <2>1, <2>2, TypeFacts DEF Held
<1>4. Trusted(cred[r], role[r], now + TTL) /\ Trusted(cred[r], role[r], since[r])
  BY <1>2, <1>3 DEF Checked, Trusted
<1>5. Stepped(r)
  <2>1. Trusted(cred[r], role[r], since[r])'
    BY <1>1, <1>4 DEF Trusted, Held, auth, request
  <2> QED BY <1>1, <1>2, <2>1
       DEF Stepped, RequestInv, Busy, Asking, Serving, auth, request
<1>6. cred[r] \in Cred /\ cache \in [Cred -> Entry]
  BY <1>0, <1>2 DEF Checked, TypeOK
<1>7. /\ cache'[cred[r]].role = role[r] /\ cache'[cred[r]].expires = now + TTL
      /\ \A c \in Cred : c # cred[r] => cache'[c] = cache[c]
  BY <1>1, <1>6
<1>8. EntryInv(cred[r])'
  BY <1>1, <1>4, <1>7 DEF EntryInv, Trusted, Held, auth, request
<1> QED BY <1>5, <1>7, <1>8

LEMMA HandleStep ==
    ASSUME Inv, TypeOK', NEW r \in Req, Handle(r) \/ Act(r)
    PROVE  Stepped(r)
<1>0. TypeOK /\ RequestInv(r)
  BY DEF Inv
<1>1. CASE Answer(r)
  BY <1>0, <1>1, AnsweredFacts DEF Stepped
<1>2. CASE ~Answer(r)
  <2>1. /\ pc[r] = "handler" /\ page[r] = "admin" /\ role[r] = "admin" /\ guarded
        /\ UNCHANGED <<auth, request, role>>
        /\ pc'[r] = "acting" /\ \A q \in Req : q # r => Untouched(q)
    BY <1>0, <1>2 DEF Handle, Act, Goto, TypeOK, Untouched, request
  <2>2. Behind(r) /\ Behind(r)' /\ Trusted(cred[r], role[r], since[r])
    BY <1>0, <2>1 DEF RequestInv, Serving, Behind, auth, request
  <2>3. Trusted(cred[r], role[r], since[r])'
    BY <2>1, <2>2 DEF Trusted, Held, auth, request
  <2> QED BY <1>0, <2>1, <2>2, <2>3
       DEF Stepped, RequestInv, Busy, Asking, Serving, auth, request
<1> QED BY <1>1, <1>2

LEMMA InvStep == Inv /\ [Next]_vars => Inv'
<1> SUFFICES ASSUME Inv, [Next]_vars PROVE Inv'
  OBVIOUS
<1>0. TypeOK' /\ History' /\ TypeOK
  BY TypeStep, HistoryStep DEF Inv
<1>1. ASSUME NEW r \in Req, Stepped(r), now' = now,
             \A c \in Cred : EntryInv(c)' \/ cache'[c] = cache[c]
      PROVE  Inv'
  <2>1. \A q \in Req : RequestInv(q)'
    BY <1>0, <1>1, RequestKept DEF Stepped
  <2>2. \A c \in Cred : EntryInv(c)'
    BY <1>0, <1>1, EntryKept
  <2> QED BY <1>0, <2>1, <2>2 DEF Inv
<1>2. ASSUME \A r \in Req : Untouched(r), cache' = cache, now' = now \/ Tick
      PROVE  Inv'
  <2>1. \A r \in Req : RequestInv(r)'
    BY <1>0, <1>2, RequestKept
  <2>2. \A c \in Cred : EntryInv(c)'
    BY <1>0, <1>2, EntryKept
  <2> QED BY <1>0, <2>1, <2>2 DEF Inv
<1>3. CASE Tick
  BY <1>2, <1>3 DEF Tick, Untouched, request
<1>4. CASE \E u \in User : Change(u)
  BY <1>2, <1>4 DEF Change, Untouched, request
<1>5. CASE UNCHANGED vars
  BY <1>2, <1>5 DEF vars, auth, request, Untouched
<1>6. CASE Restart
  <2>1. \A r \in Req : RequestInv(r)'
    BY <1>6 DEF Restart, RequestInv, Busy, Asking, Serving
  <2>2. \A c \in Cred : EntryInv(c)'
    BY <1>6 DEF Restart, EntryInv, NoEntry
  <2> QED BY <1>0, <2>1, <2>2 DEF Inv
<1>7. ASSUME NEW r \in Req, Open(r) \/ Lookup(r) \/ Helper(r) \/ Handle(r) \/ Act(r)
      PROVE  Inv'
  <2>1. UNCHANGED <<auth, cache>>
    BY <1>7 DEF Open, Lookup, Helper, Pam, PamTimeout, HelperLost, Resolve, Handle, Act
  <2>2. Stepped(r)
    BY <1>0, <1>7, OpenStep, LookupStep, HelperStep, HandleStep
  <2> QED BY <1>1, <2>1, <2>2 DEF auth
<1>8. ASSUME NEW r \in Req, Store(r) PROVE Inv'
  <2>1. now' = now
    BY <1>8 DEF Store, auth
  <2>2. /\ Stepped(r) /\ EntryInv(cred[r])'
        /\ \A c \in Cred : c # cred[r] => cache'[c] = cache[c]
    BY <1>0, <1>8, StoreStep
  <2>3. \A c \in Cred : EntryInv(c)' \/ cache'[c] = cache[c]
    <3>1. ASSUME NEW c \in Cred, c = cred[r] PROVE EntryInv(c)'
      <4>1. cred' = cred
        BY <1>8 DEF Store, request
      <4> QED BY <2>2, <3>1, <4>1 DEF EntryInv, Trusted, Held
    <3> QED BY <2>2, <3>1
  <2> QED BY <1>1, <2>1, <2>2, <2>3
<1> QED BY <1>3, <1>4, <1>5, <1>6, <1>7, <1>8 DEF Next, Serve

LEMMA InvHolds == Spec => []Inv
  BY InvInit, InvStep, PTL DEF Spec

\* What Inv says of a request that is served, in terms of the present.
LEMMA ServedRecently ==
    ASSUME Inv, NEW r \in Req, pc[r] \in Serving, Behind(r)
    PROVE  /\ cred[r] \in Cred /\ cred[r].password # Blank
           /\ Recent(cred[r].user, cred[r].password, Bound)
           /\ Recent(cred[r].user, role[r], Bound)
<1>1. /\ Trusted(cred[r], role[r], since[r]) /\ now <= since[r] + Delay
  BY DEF Inv, RequestInv, Busy
<1>2. /\ Held(cred[r], cred[r].password) \in Nat /\ Held(cred[r], role[r]) \in Nat
      /\ since[r] \in Nat /\ now \in Nat
  <2>1. /\ [user |-> cred[r].user, is |-> cred[r].password] \in Claim
        /\ [user |-> cred[r].user, is |-> role[r]] \in Claim
    BY <1>1, ClaimFacts DEF Trusted
  <2>2. since[r] \in Nat
    BY DEF Inv, TypeOK
  <2> QED BY <2>1, <2>2, TypeFacts DEF Held, Inv
<1>3. /\ now <= Held(cred[r], cred[r].password) + Bound
      /\ now <= Held(cred[r], role[r]) + Bound
  BY <1>1, <1>2 DEF Trusted, Bound
<1> QED BY <1>1, <1>3 DEF Trusted, Recent, Held

\* A page behind the gate is served on claims that were true at most TTL and two
\* request durations ago, for any interleaving and any number of requests.
THEOREM RevocationBounded == Spec => []Revocation
<1>1. Inv => Revocation
  BY ServedRecently DEF Revocation, Behind
<1> QED BY <1>1, InvHolds, PTL

\* Privileged operations are sent for recent admins only.
THEOREM AdminOnlyHolds == Spec => []AdminOnly
<1>1. Inv => AdminOnly
  <2> SUFFICES ASSUME Inv, NEW r \in Req, pc[r] = "acting"
               PROVE  guarded /\ cred[r] # NoCred
                      /\ Recent(cred[r].user, "admin", Bound)
    BY DEF AdminOnly
  <2>1. Behind(r) /\ role[r] = "admin" /\ pc[r] \in Serving
    BY DEF Inv, RequestInv, Serving
  <2>2. cred[r] \in Cred /\ Recent(cred[r].user, "admin", Bound)
    BY <2>1, ServedRecently
  <2> QED BY <2>1, <2>2 DEF Behind
<1> QED BY <1>1, InvHolds, PTL

\* The empty password opens nothing.
THEOREM BlankNeverServed == Spec => []BlankRefused
<1>1. Inv => BlankRefused
  BY ServedRecently DEF BlankRefused, Behind
<1> QED BY <1>1, InvHolds, PTL
===============================================================================

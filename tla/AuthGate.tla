------------------------------- MODULE AuthGate -------------------------------
(***************************************************************************)
(* Who may do what on the dashboard: the Basic Auth middleware, its cache  *)
(* of five-minute verdicts, the helper's check behind it (PAM, then the    *)
(* groups of the account) and the handlers that ask for the admin role.    *)
(*                                                                         *)
(* Every HTTP request runs in a goroutine of its own.  Nothing is atomic   *)
(* across the cache lookup, the two checks of the helper, the write to the *)
(* cache and the handler, while an administrator of the host changes the   *)
(* password and the groups of an account at any moment.                    *)
(*                                                                         *)
(* Time is a counter of ticks.  A request takes at most Delay of them from *)
(* its cache lookup to its handler's last step; that bound is the model's, *)
(* the code bounds only the dial and PAM.                                  *)
(***************************************************************************)
EXTENDS Integers

CONSTANTS
    Req,        \* requests the dashboard serves at once
    User, Password,
    Blank,      \* the empty password
    NoCred,     \* no credentials
    TTL,        \* cacheTTL
    Delay,      \* longest time from a request's cache lookup to its end
    Horizon,    \* the last instant of the model
    Faults      \* TRUE: the helper may be down, die or hang, processes restart

Role == {"readonly", "admin"}
Page == {"health", "view", "admin"}     \* /healthz, /api/stats and /, the rest
Cred == [user : User, password : Password]
Claim == [user : User, is : Password \cup Role]
Bound == TTL + 2 * Delay
Epoch == Bound + 1      \* the clock starts where 0 is long ago

ASSUME AuthAssumption == /\ TTL \in Nat /\ Delay \in Nat /\ Horizon \in Nat
                         /\ Faults \in BOOLEAN
                         /\ Password \cap Role = {} /\ NoCred \notin Cred

VARIABLES
    now,
    account,    \* password and groups of each user, in the host's databases
    last,       \* history: the last instant at which each claim was true
    guarded,    \* AUTH_SOCKET is set
    cache,      \* authCache.items
    pc,         \* where each request is
    page, cred, \* what it asks for, and with which credentials
    role,       \* the role it was found to have, "" for none
    since       \* when it looked into the cache

auth == <<now, account, last, guarded>>
request == <<page, cred, since>>
vars == <<auth, cache, pc, request, role>>

Asking == {"pam", "resolve"}        \* waiting for the helper
Serving == {"handler", "acting"}
Busy == Asking \cup {"store"} \cup Serving

NoEntry == [role |-> "", expires |-> 0]
Entry == [role : Role \cup {""}, expires : Nat]
Accounts == [User -> [password : Password, groups : SUBSET Role]]

True(a, k) == k.is = a[k.user].password \/ k.is \in a[k.user].groups

\* The history once the accounts are a at instant t.
Seen(a, t) == [k \in Claim |-> IF True(a, k) THEN t ELSE last[k]]

Init ==
    /\ now = Epoch
    /\ account \in Accounts
    /\ last = [k \in Claim |-> IF True(account, k) THEN Epoch ELSE 0]
    /\ guarded \in BOOLEAN
    /\ cache = [c \in Cred |-> NoEntry]
    /\ pc = [r \in Req |-> "idle"]
    /\ page = [r \in Req |-> "health"] /\ cred = [r \in Req |-> NoCred]
    /\ role = [r \in Req |-> ""] /\ since = [r \in Req |-> 0]

Goto(r, label) == pc' = [pc EXCEPT ![r] = label]

Admit(r, x) == Goto(r, "handler") /\ role' = [role EXCEPT ![r] = x]

\* A request of page g with credentials c comes in.
Arrive(r, g, c) ==
    /\ pc[r] = "idle"
    /\ page' = [page EXCEPT ![r] = g]
    /\ cred' = [cred EXCEPT ![r] = c]
    /\ since' = [since EXCEPT ![r] = now]

\* The response is written, whatever its status; the slot is free again.
Answer(r) ==
    /\ Goto(r, "idle")
    /\ page' = [page EXCEPT ![r] = "health"]
    /\ cred' = [cred EXCEPT ![r] = NoCred]
    /\ role' = [role EXCEPT ![r] = ""]
    /\ since' = [since EXCEPT ![r] = 0]

-----------------------------------------------------------------------------
\* The host: time passes, and an account is given another password or groups.
Tick ==
    /\ now < Horizon
    /\ \A r \in Req : pc[r] \in Busy => now < since[r] + Delay
    /\ now' = now + 1
    /\ last' = Seen(account, now')
    /\ UNCHANGED <<account, guarded, cache, pc, request, role>>

Change(u) ==
    /\ \E a \in [password : Password, groups : SUBSET Role] :
         /\ a # account[u]
         /\ account' = [account EXCEPT ![u] = a]
    /\ last' = Seen(account', now)
    /\ UNCHANGED <<now, guarded, cache, pc, request, role>>

-----------------------------------------------------------------------------
\* Middleware.  A guarded page asked for without credentials is a 401 that
\* changes nothing.  Without a socket every page is open, and so is /healthz.
Open(r) ==
    /\ \E g \in Page : (~guarded \/ g = "health") /\ Arrive(r, g, NoCred)
    /\ Admit(r, "")
    /\ UNCHANGED <<auth, cache>>

\* Mutant: an entry is used one tick too long.
FreshLate(e) == now <= e.expires + 1

\* cache.get: an entry counts up to and including its expiry.
Fresh(e) == now <= e.expires

Lookup(r) ==
    /\ guarded
    /\ \E g \in Page \ {"health"}, c \in Cred :
         /\ Arrive(r, g, c)
         /\ IF Fresh(cache[c]) THEN Admit(r, cache[c].role)
                               ELSE Goto(r, "pam") /\ UNCHANGED role
    /\ UNCHANGED <<auth, cache>>

-----------------------------------------------------------------------------
\* Mutant: PAM is asked about empty passwords too.
PamNullok(r) ==
    /\ pc[r] = "pam"
    /\ IF cred[r].password = account[cred[r].user].password
         THEN Goto(r, "resolve") /\ UNCHANGED <<request, role>>
         ELSE Answer(r)
    /\ UNCHANGED <<auth, cache>>

\* callHelper and handleAuth: the empty password is refused before PAM.
Pam(r) ==
    /\ pc[r] = "pam"
    /\ LET p == cred[r].password
       IN  IF p # Blank /\ p = account[cred[r].user].password
             THEN Goto(r, "resolve") /\ UNCHANGED <<request, role>>
             ELSE Answer(r)
    /\ UNCHANGED <<auth, cache>>

\* pamtester is killed after five seconds, or fails: 401.
PamTimeout(r) ==
    /\ Faults
    /\ pc[r] = "pam"
    /\ Answer(r)
    /\ UNCHANGED <<auth, cache>>

\* The socket cannot be reached, or the helper dies before it answers: 503.
HelperLost(r) ==
    /\ Faults
    /\ pc[r] \in Asking
    /\ Answer(r)
    /\ UNCHANGED <<auth, cache>>

\* Mutant: the role of an account in both groups is neither.
RoleOfOne(groups) == IF groups = {"admin"} THEN "admin"
                     ELSE IF groups = {"readonly"} THEN "readonly" ELSE "both"

\* If the account is in both groups, admin wins.
RoleOf(groups) == IF "admin" \in groups THEN "admin" ELSE "readonly"

\* groups.Resolve: a group whose name cannot be looked up is passed over.
Resolve(r) ==
    /\ pc[r] = "resolve"
    /\ \E groups \in SUBSET account[cred[r].user].groups :
         /\ Faults \/ groups = account[cred[r].user].groups
         /\ IF groups = {} THEN Answer(r)
                           ELSE /\ Goto(r, "store") /\ UNCHANGED request
                                /\ role' = [role EXCEPT ![r] = RoleOf(groups)]
    /\ UNCHANGED <<auth, cache>>

\* cache.set, then the handler: the lifetime counts from here.
Store(r) ==
    /\ pc[r] = "store"
    /\ cache' = [cache EXCEPT ![cred[r]] = [role |-> role[r], expires |-> now + TTL]]
    /\ Goto(r, "handler")
    /\ UNCHANGED <<auth, request, role>>

-----------------------------------------------------------------------------
\* Mutant: a handler that does not look at the role.
HandleUnasked(r) ==
    /\ pc[r] = "handler"
    /\ IF page[r] = "admin" /\ guarded
         THEN Goto(r, "acting") /\ UNCHANGED <<request, role>>
         ELSE Answer(r)
    /\ UNCHANGED <<auth, cache>>

\* The handlers that change something ask for the admin role and for a socket;
\* the others serve what they have.
Handle(r) ==
    /\ pc[r] = "handler"
    /\ IF page[r] = "admin" /\ role[r] = "admin" /\ guarded
         THEN Goto(r, "acting") /\ UNCHANGED <<request, role>>
         ELSE Answer(r)
    /\ UNCHANGED <<auth, cache>>

\* The operation is sent to the helper, which does not ask who wanted it.
Act(r) ==
    /\ pc[r] = "acting"
    /\ Answer(r)
    /\ UNCHANGED <<auth, cache>>

\* The dashboard restarts: its cache and its requests are gone.
Restart ==
    /\ Faults
    /\ cache' = [c \in Cred |-> NoEntry]
    /\ pc' = [r \in Req |-> "idle"]
    /\ page' = [r \in Req |-> "health"] /\ cred' = [r \in Req |-> NoCred]
    /\ role' = [r \in Req |-> ""] /\ since' = [r \in Req |-> 0]
    /\ UNCHANGED auth

\* What the dashboard does with a request once it is in.
Serve(r) == Store(r) \/ Handle(r) \/ Act(r)
Helper(r) == Pam(r) \/ PamTimeout(r) \/ HelperLost(r) \/ Resolve(r)

Next == \/ Tick \/ Restart
        \/ \E u \in User : Change(u)
        \/ \E r \in Req : Open(r) \/ Lookup(r) \/ Helper(r) \/ Serve(r)

Spec == Init /\ [][Next]_vars

-----------------------------------------------------------------------------
(***************************************************************************)
(* Properties.                                                             *)
(***************************************************************************)
TypeOK ==
    /\ now \in Nat
    /\ account \in Accounts
    /\ last \in [Claim -> Nat]
    /\ guarded \in BOOLEAN
    /\ cache \in [Cred -> Entry]
    /\ pc \in [Req -> {"idle"} \cup Busy]
    /\ page \in [Req -> Page] /\ cred \in [Req -> Cred \cup {NoCred}]
    /\ role \in [Req -> Role \cup {""}]
    /\ since \in [Req -> Nat]

\* claim "user u is x" was true at most b ticks ago
Recent(u, x, b) == now <= last[[user |-> u, is |-> x]] + b

\* However lookups, checks, cache writes and changes of the account interleave,
\* a page behind the gate is only served with a password that was the account's,
\* and under a role whose group the user was in, at most the cache's lifetime
\* and two request durations ago: one of the request that filled the cache, one
\* of the request served (middleware.go:43-79, cache.go:39-57).
Revocation ==
    \A r \in Req :
        pc[r] \in Serving /\ guarded /\ page[r] # "health" =>
            /\ Recent(cred[r].user, cred[r].password, Bound)
            /\ Recent(cred[r].user, role[r], Bound)

\* A privileged operation is only ever sent for such an admin, and never when
\* authentication is off (handlers.go:140-154, 261-283, middleware.go:28-31).
AdminOnly ==
    \A r \in Req :
        pc[r] = "acting" =>
            guarded /\ cred[r] # NoCred /\ Recent(cred[r].user, "admin", Bound)

\* The empty password opens nothing, not even an account that has none
\* (pispot-authd main.go:139-141).
BlankRefused ==
    \A r \in Req :
        pc[r] \in Serving /\ guarded /\ page[r] # "health" =>
            cred[r].password # Blank
===============================================================================

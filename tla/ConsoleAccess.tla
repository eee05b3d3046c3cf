---------------------------- MODULE ConsoleAccess ----------------------------
(***************************************************************************)
(* Signing in and the gate before the handlers: backend/internal/api/       *)
(* auth.go, ratelimit.go, and AuthMiddleware and the login and WebSocket    *)
(* routes of rest.go.                                                       *)
(*                                                                         *)
(* Time is counted in the interval in which a bucket gains a token.  A path *)
(* is what isPublicPath and isAdminEndpoint say about it; a signed token is *)
(* its claims and its age.                                                  *)
(***************************************************************************)
EXTENDS Integers, Sequences, FiniteSets

CONSTANTS
    Addrs,      \* addresses of clients
    Users,      \* accounts with a password
    Burst,      \* capacity of a bucket
    StaleAfter, \* age at which an unused bucket is dropped
    TokenLife,  \* age at which a token expires
    Window,     \* bound: intervals the history of attempts reaches back
    None

VARIABLES
    visitors,  \* l.visitors: tokens left, and the time since lastSeen
    recent,    \* history: attempts let through in each of the last intervals
    inactive,  \* per account: None if active, else the time since it was deactivated
    tokens,    \* signed tokens that clients hold
    sockets,   \* who holds open WebSocket connections
    served     \* what was let through, made or pushed last, None if nothing was

vars == <<visitors, recent, inactive, tokens, sockets, served>>

Least(a, b) == IF a <= b THEN a ELSE b

Init ==
    /\ visitors = [a \in Addrs |-> None]
    /\ recent = [a \in Addrs |-> [n \in 1..Window |-> 0]]
    /\ inactive = [u \in Users |-> None]
    /\ tokens = {}
    /\ sockets = {}
    /\ served = None

----------------------------------------------------------------------------
(* The rate limiter *)

Bucket(left) == [left |-> left, idle |-> 0]

\* allow: the first request creates a full bucket and takes nothing from it.
allowed(a) == visitors[a] # None => visitors[a].left > 0
allow(a) ==
    visitors' = [visitors EXCEPT ![a] =
                    IF @ = None THEN Bucket(Burst) ELSE Bucket(IF @.left > 0 THEN @.left - 1 ELSE 0)]

\* cleanup runs every minute and drops what has not been seen for too long.
cleanup_TooSoon ==
    /\ visitors' = [a \in Addrs |->
                       IF visitors[a] # None /\ visitors[a].idle > 0 THEN None ELSE visitors[a]]
    /\ UNCHANGED <<recent, inactive, tokens, sockets, served>>
cleanup ==
    /\ visitors' = [a \in Addrs |->
                       IF visitors[a] # None /\ visitors[a].idle > StaleAfter THEN None
                       ELSE visitors[a]]
    /\ UNCHANGED <<recent, inactive, tokens, sockets, served>>

\* A moment passes: buckets fill, tokens age; ages stop where nothing looks at
\* them any more.
Tick ==
    /\ visitors' = [a \in Addrs |->
                       IF visitors[a] = None THEN None
                       ELSE [left |-> Least(visitors[a].left + 1, Burst),
                             idle |-> Least(visitors[a].idle + 1, StaleAfter + 1)]]
    /\ recent' = [a \in Addrs |-> [n \in 1..Window |-> IF n = 1 THEN 0 ELSE recent[a][n - 1]]]
    /\ inactive' = [u \in Users |-> IF inactive[u] = None THEN None
                                    ELSE Least(inactive[u] + 1, TokenLife + 1)]
    /\ tokens' = {[t EXCEPT !.age = Least(@ + 1, TokenLife + 1)] : t \in tokens}
    /\ served' = None
    /\ UNCHANGED sockets

----------------------------------------------------------------------------
(* Signing in *)

generateToken(u, role) == [user |-> u, role |-> role, age |-> 0]
Holder(t) == [user |-> t.user, role |-> t.role]

validateToken_NoExpiry(t) == TRUE
validateToken(t) == t.age <= TokenLife

\* rateLimitAuth around handleLogin and handleLDAPLogin: a token for an active
\* account and the right password, an error in every other case.
handleLogin(a) ==
    /\ allow(a)
    /\ recent' = [recent EXCEPT ![a][1] = IF allowed(a) THEN @ + 1 ELSE @]
    /\ \/ \E u \in Users : /\ allowed(a) /\ inactive[u] = None
                           /\ tokens' = tokens \cup {generateToken(u, "admin")}
       \/ UNCHANGED tokens
    /\ served' = None
    /\ UNCHANGED <<inactive, sockets>>

\* The tokens devices are given when they enrol.
Enrol ==
    /\ tokens' = tokens \cup {generateToken(None, "device")}
    /\ served' = None
    /\ UNCHANGED <<visitors, recent, inactive, sockets>>

\* Accounts changes is_active.
SetActive(u, active) ==
    /\ inactive' = [inactive EXCEPT ![u] = IF active THEN None ELSE IF @ = None THEN 0 ELSE @]
    /\ served' = None
    /\ UNCHANGED <<visitors, recent, tokens, sockets>>

----------------------------------------------------------------------------
\* AuthMiddleware: public paths are free, the others need a valid token, and
\* administration one that no device holds.
Through(way, holder) == [way |-> way, holder |-> holder]
AuthMiddleware(public, admin) ==
    /\ \/ public /\ served' = Through("public", None)
       \/ /\ ~public
          /\ \E t \in tokens : /\ validateToken(t)
                               /\ t.role = "device" => ~admin
                               /\ served' = Through("request", Holder(t))
       \/ ~public /\ served' = None
    /\ UNCHANGED <<visitors, recent, inactive, tokens, sockets>>

\* GET /ws/events: the token in the query is checked here and never again.  The
\* connection is the holder's until one end breaks it, and gets every broadcast.
ServeWs(t) ==
    /\ validateToken(t)
    /\ sockets' = sockets \cup {Holder(t)}
    /\ served' = Through("socket", Holder(t))
    /\ UNCHANGED <<visitors, recent, inactive, tokens>>

Push(holder) ==
    /\ served' = Through("push", holder)
    /\ UNCHANGED <<visitors, recent, inactive, tokens, sockets>>

Disconnect(holder) ==
    /\ sockets' = sockets \ {holder}
    /\ served' = None
    /\ UNCHANGED <<visitors, recent, inactive, tokens>>

Next ==
    \/ Tick \/ cleanup \/ Enrol
    \/ \E a \in Addrs : handleLogin(a)
    \/ \E u \in Users, active \in BOOLEAN : SetActive(u, active)
    \/ \E public, admin \in BOOLEAN : AuthMiddleware(public, admin)
    \/ \E t \in tokens : ServeWs(t)
    \/ \E holder \in sockets : Push(holder) \/ Disconnect(holder)

Spec == Init /\ [][Next]_vars

----------------------------------------------------------------------------
TypeOK ==
    /\ \A a \in Addrs :
           visitors[a] = None \/ visitors[a] \in [left : 0..Burst, idle : 0..(StaleAfter + 1)]
    /\ recent \in [Addrs -> [1..Window -> Nat]]
    /\ \A u \in Users : inactive[u] = None \/ inactive[u] \in 0..(TokenLife + 1)
    /\ \A t \in tokens : t.age \in 0..(TokenLife + 1)
    /\ sockets \subseteq [user : Users \cup {None}, role : {"admin", "device"}]

\* Of counts per interval, the sums of the first ones.
Totals(counts) ==
    LET total[n \in 0..Window] == IF n = 0 THEN 0 ELSE total[n - 1] + counts[n] IN total

\* An address gets no more attempts in a window than a full bucket, what flows in
\* meanwhile, and the one that the first request does not pay for: dropping
\* unused buckets never gives it a second burst (allow, cleanup).
AttemptsBounded == \A a \in Addrs : Totals(recent[a])[Window] <= Burst + Window

\* Whoever is deactivated has no request let through and no WebSocket connection
\* accepted once a token's life has passed: no token is newer than the deactivation
\* (handleLogin, validateToken, AuthMiddleware, the /ws/events route).  Nothing is
\* promised of connections made before: they are pushed to as long as they last.
RevocationBounded ==
    served # None /\ served.way \in {"request", "socket"} /\ served.holder.user # None =>
        LET since == inactive[served.holder.user]
        IN  since = None \/ since <= TokenLife

=============================================================================

---------------------------- MODULE ConsoleProofs ----------------------------
(***************************************************************************)
(* Proofs about the parts behind the console's REST API that Console puts   *)
(* side by side.  Each part has an inductive invariant over its own         *)
(* variables; a step of another part leaves them alone.                     *)
(***************************************************************************)
EXTENDS Console, ApprovalsProofs, FilteringProofs, FiniteSetTheorems, SequenceTheorems

----------------------------------------------------------------------------
(* Policies *)

\* An update that has read a policy nobody overlaps with holds the row of the
\* table with its request applied; a policy it is about was there, so it is
\* either still there or has been deleted.
PoliciesInv ==
    /\ pTable \in [PolicyIds -> [PolicyFields -> PolicyValues] \cup {None}]
    /\ DOMAIN pSerial = PolicyIds
    /\ DOMAIN pWork = Handlers
    /\ pDeleted \subseteq PolicyIds
    /\ Policies!ChangesLast
    /\ \A h \in Handlers :
           pWork[h].pc = "write" =>
               LET w == pWork[h]
               IN  /\ w.id \in PolicyIds
                   /\ w.row \in [PolicyFields -> PolicyValues]
                   /\ pTable[w.id] = None => w.id \in pDeleted
                   /\ w.id \notin pOverlapped /\ pTable[w.id] # None =>
                          w.row = Policies!Merged(pTable[w.id], w.request)

\* The table starts empty.
LEMMA PoliciesStart == Policies!Init => PoliciesInv
  BY DEF Policies!Init, PoliciesInv, Policies!ChangesLast, Policies!Idle,
         Policies!SerialUnlessOverlapped, Policies!DeletedStaysDeleted

\* Every operation of the policy handlers preserves the invariant.
LEMMA PoliciesSteps == PoliciesInv /\ [Policies!Next]_pVars => PoliciesInv'
  <1> USE ConsoleAssumption DEF Policies!Goto
  <1> SUFFICES ASSUME PoliciesInv, [Policies!Next]_pVars PROVE PoliciesInv'
    OBVIOUS
  <1> USE DEF PoliciesInv, Policies!ChangesLast, Policies!SerialUnlessOverlapped,
              Policies!DeletedStaysDeleted
  <1>1. ASSUME NEW p \in PolicyIds, Policies!CreatePolicy(p) PROVE PoliciesInv'
    BY <1>1 DEF Policies!CreatePolicy, Policies!Policy
  <1>2. ASSUME NEW p \in PolicyIds, Policies!DeletePolicy(p) PROVE PoliciesInv'
    BY <1>2 DEF Policies!DeletePolicy
  <1>3. ASSUME NEW h \in Handlers, NEW p \in PolicyIds, Policies!GetPolicyByID(h, p)
        PROVE  PoliciesInv'
    <2>1. PICK request \in [PolicyFields -> PolicyValues \cup {None}] :
              pWork' = [pWork EXCEPT ![h] = [pc |-> "write", id |-> p, request |-> request,
                                             row |-> Policies!Merged(pTable[p], request)]]
      BY <1>3 DEF Policies!GetPolicyByID
    <2>2. Policies!Merged(pTable[p], request) \in [PolicyFields -> PolicyValues]
      BY <1>3 DEF Policies!GetPolicyByID, Policies!Merged
    <2> QED
      BY <1>3, <2>1, <2>2 DEF Policies!GetPolicyByID
  <1>4. ASSUME NEW h \in Handlers, Policies!UpdatePolicy(h) PROVE PoliciesInv'
    <2> DEFINE w == pWork[h]
    <2>1. /\ w.pc = "write" /\ w.id \in PolicyIds
          /\ w.row \in [PolicyFields -> PolicyValues]
          /\ pWork' = [pWork EXCEPT ![h] = Policies!Idle]
          /\ pDeleted' = pDeleted
      BY <1>4 DEF Policies!UpdatePolicy
    <2>2. CASE /\ pTable[w.id] # None
               /\ pTable' = [pTable EXCEPT ![w.id] = w.row]
               /\ pSerial' = [pSerial EXCEPT ![w.id] = Policies!Merged(@, w.request)]
               /\ pOverlapped' = IF Policies!Updating(w.id) = {h} THEN pOverlapped
                                 ELSE pOverlapped \cup {w.id}
      <3>1. Policies!SerialUnlessOverlapped'
        BY <2>1, <2>2
      <3>2. Policies!DeletedStaysDeleted'
        BY <2>1, <2>2
      <3>3. ASSUME NEW g \in Handlers, pWork'[g].pc = "write", pWork'[g].id = w.id
            PROVE  w.id \in pOverlapped'
        BY <2>1, <2>2, <3>3 DEF Policies!Updating, Policies!Idle
      <3> QED
        BY <2>1, <2>2, <3>1, <3>2, <3>3 DEF Policies!Idle
    <2>3. CASE UNCHANGED <<pTable, pSerial, pOverlapped>>
      BY <2>1, <2>3 DEF Policies!Idle
    <2> QED
      BY <1>4, <2>2, <2>3 DEF Policies!UpdatePolicy
  <1>5. CASE UNCHANGED pVars
    BY <1>5 DEF pVars
  <1> QED
    BY <1>1, <1>2, <1>3, <1>4, <1>5 DEF Policies!Next

\* What is written to a policy lasts, for any number of policies, fields and
\* handlers: updates that do not overlap lose nothing, and a deletion stands
\* against an update that had read the row before it (rest.go, updatePolicy and
\* deletePolicy).
THEOREM PolicyChangesLast == ConsoleSpec => []ChangesLast
  <1>1. ConsoleInit => PoliciesInv
    BY PoliciesStart DEF ConsoleInit
  <1>2. PoliciesInv /\ [ConsoleNext]_consoleVars => PoliciesInv'
    <2>1. [ConsoleNext]_consoleVars => [Policies!Next]_pVars
      BY DEF ConsoleNext, consoleVars
    <2> QED
      BY <2>1, PoliciesSteps
  <1>3. PoliciesInv => ChangesLast
    BY DEF PoliciesInv, ChangesLast
  <1> QED
    BY <1>1, <1>2, <1>3, PTL DEF ConsoleSpec

----------------------------------------------------------------------------
(* Access *)

\* A token of an account is never younger than the account's deactivation, and
\* requests and new connections are let through for a token that has not expired.
AccessInv ==
    /\ DOMAIN sInactive = SignIns
    /\ \A u \in SignIns : sInactive[u] = None \/ sInactive[u] \in 0..(TokenLife + 1)
    /\ \A t \in sTokens :
           /\ t = [user |-> t.user, role |-> t.role, age |-> t.age]
           /\ t.age \in 0..(TokenLife + 1) /\ t.role \in {"admin", "device"}
           /\ t.user # None =>
                  /\ t.user \in SignIns
                  /\ sInactive[t.user] = None \/ sInactive[t.user] <= t.age
    /\ sSockets \subseteq [user : SignIns \cup {None}, role : {"admin", "device"}]
    /\ sServed # None /\ sServed.way \in {"request", "socket"} =>
           \E t \in sTokens : sServed.holder = Access!Holder(t) /\ t.age <= TokenLife

\* There is no token at first.
LEMMA AccessStart == Access!Init => AccessInv
  BY DEF Access!Init, AccessInv

\* Every step of the gate, of signing in and of time preserves the invariant.
LEMMA AccessSteps == AccessInv /\ [Access!Next]_sVars => AccessInv'
  <1> USE ConsoleAssumption DEF AccessInv
  <1> SUFFICES ASSUME AccessInv, [Access!Next]_sVars PROVE AccessInv'
    OBVIOUS
  <1>1. CASE Access!Tick
    <2> USE DEF Access!Least
    <2>1. /\ sInactive' = [u \in SignIns |-> IF sInactive[u] = None THEN None
                                             ELSE Access!Least(sInactive[u] + 1, TokenLife + 1)]
          /\ sTokens' = {[t EXCEPT !.age = Access!Least(@ + 1, TokenLife + 1)] : t \in sTokens}
          /\ sServed' = None /\ sSockets' = sSockets
      BY <1>1 DEF Access!Tick
    <2>2. \A u \in SignIns : sInactive'[u] = None \/ sInactive'[u] \in 0..(TokenLife + 1)
      BY <2>1
    <2>3. ASSUME NEW t \in sTokens'
          PROVE  /\ t = [user |-> t.user, role |-> t.role, age |-> t.age]
                 /\ t.age \in 0..(TokenLife + 1) /\ t.role \in {"admin", "device"}
                 /\ t.user # None =>
                        /\ t.user \in SignIns
                        /\ sInactive'[t.user] = None \/ sInactive'[t.user] <= t.age
      <3>1. PICK s \in sTokens : t = [s EXCEPT !.age = Access!Least(@ + 1, TokenLife + 1)]
        BY <2>1
      <3>2. t = [user |-> s.user, role |-> s.role,
                 age |-> Access!Least(s.age + 1, TokenLife + 1)]
        BY <3>1
      <3> QED
        BY <2>1, <3>2
    <2> QED
      BY <2>1, <2>2, <2>3
  <1>2. CASE Access!cleanup
    BY <1>2 DEF Access!cleanup
  <1>3. CASE Access!Enrol
    BY <1>3 DEF Access!Enrol, Access!generateToken
  <1>4. ASSUME NEW a \in Addrs, Access!handleLogin(a) PROVE AccessInv'
    <2>1. CASE sTokens' = sTokens
      BY <1>4, <2>1 DEF Access!handleLogin
    <2>2. ASSUME NEW u \in SignIns, sInactive[u] = None,
                 sTokens' = sTokens \cup {Access!generateToken(u, "admin")}
          PROVE  AccessInv'
      BY <1>4, <2>2 DEF Access!handleLogin, Access!generateToken
    <2> QED
      BY <1>4, <2>1, <2>2 DEF Access!handleLogin
  <1>5. ASSUME NEW u \in SignIns, NEW active \in BOOLEAN, Access!SetActive(u, active)
        PROVE  AccessInv'
    <2>1. /\ DOMAIN sInactive' = SignIns
          /\ \A v \in SignIns \ {u} : sInactive'[v] = sInactive[v]
          /\ sInactive'[u] \in {None, 0, sInactive[u]}
          /\ sTokens' = sTokens /\ sServed' = None /\ sSockets' = sSockets
      BY <1>5 DEF Access!SetActive
    <2> QED
      BY <2>1
  <1>6. ASSUME NEW public \in BOOLEAN, NEW admin \in BOOLEAN,
               Access!AuthMiddleware(public, admin)
        PROVE  AccessInv'
    BY <1>6 DEF Access!AuthMiddleware, Access!validateToken, Access!Through
  <1>7. CASE UNCHANGED sVars
    BY <1>7 DEF sVars
  <1>8. ASSUME NEW t \in sTokens, Access!ServeWs(t) PROVE AccessInv'
    <2>1. /\ sSockets' = sSockets \cup {Access!Holder(t)}
          /\ sServed'.holder = Access!Holder(t) /\ t.age <= TokenLife
          /\ UNCHANGED <<sInactive, sTokens>>
      BY <1>8 DEF Access!ServeWs, Access!validateToken, Access!Through
    <2>2. Access!Holder(t) \in [user : SignIns \cup {None}, role : {"admin", "device"}]
      BY DEF Access!Holder
    <2> QED
      BY <2>1, <2>2
  <1>9. ASSUME NEW holder \in sSockets, Access!Push(holder) \/ Access!Disconnect(holder)
        PROVE  AccessInv'
    BY <1>9 DEF Access!Push, Access!Disconnect, Access!Through
  <1> QED
    BY <1>1, <1>2, <1>3, <1>4, <1>5, <1>6, <1>7, <1>8, <1>9 DEF Access!Next

\* A deactivated account has no request and no new connection let through once a
\* token's life has passed since, for every token life and number of accounts: the
\* tokens it may still hold are older than the deactivation (auth.go, handleLogin;
\* rest.go, AuthMiddleware and the /ws/events route).  What is pushed over the
\* connections it has is not bounded.
THEOREM DeactivationTakesEffect == ConsoleSpec => []RevocationBounded
  <1>1. ConsoleInit => AccessInv
    BY AccessStart DEF ConsoleInit
  <1>2. AccessInv /\ [ConsoleNext]_consoleVars => AccessInv'
    <2>1. [ConsoleNext]_consoleVars => [Access!Next]_sVars
      BY DEF ConsoleNext, consoleVars
    <2> QED
      BY <2>1, AccessSteps
  <1>3. AccessInv => RevocationBounded
    <2> SUFFICES ASSUME AccessInv, sServed # None, sServed.way \in {"request", "socket"},
                        sServed.holder.user # None
                 PROVE  LET since == sInactive[sServed.holder.user]
                        IN  since = None \/ since <= TokenLife
      BY DEF RevocationBounded, Access!RevocationBounded
    <2>1. PICK t \in sTokens : sServed.holder = Access!Holder(t) /\ t.age <= TokenLife
      BY DEF AccessInv
    <2>2. /\ t.user = sServed.holder.user /\ t.user \in SignIns /\ t.age \in 0..(TokenLife + 1)
          /\ sInactive[t.user] = None \/ sInactive[t.user] <= t.age
          /\ sInactive[t.user] = None \/ sInactive[t.user] \in 0..(TokenLife + 1)
      BY <2>1 DEF AccessInv, Access!Holder
    <2> QED
      BY <2>1, <2>2, ConsoleAssumption
  <1> QED
    BY <1>1, <1>2, <1>3, PTL DEF ConsoleSpec

----------------------------------------------------------------------------
(* Attempts to sign in *)

\* The recursion equation behind Totals, for the first n counts.
Sums(c, n, g) == g = [i \in 0 .. n |-> IF i = 0 THEN 0 ELSE g[i - 1] + c[i]]

\* There are such sums.
LEMMA SumsExist ==
    ASSUME NEW c, NEW n \in Nat
    PROVE  \E g : Sums(c, n, g)
  <1> DEFINE P == {k \in 0 .. n : \E g : Sums(c, k, g)}
  <1>1. 0 \in P
    <2>1. Sums(c, 0, [i \in 0 .. 0 |-> 0])
      BY DEF Sums
    <2> QED
      BY <2>1
  <1>2. ASSUME NEW k \in 0 .. n - 1, k \in P PROVE k + 1 \in P
    <2>1. PICK g : Sums(c, k, g)
      BY <1>2
    <2> DEFINE h == [i \in 0 .. k + 1 |-> IF i = k + 1 THEN g[k] + c[k + 1] ELSE g[i]]
    <2>2. \A i \in 0 .. k : h[i] = g[i]
      OBVIOUS
    <2>3. \A i \in 0 .. k : g[i] = IF i = 0 THEN 0 ELSE g[i - 1] + c[i]
      BY <2>1 DEF Sums
    <2>4. ASSUME NEW i \in 0 .. k + 1 PROVE h[i] = IF i = 0 THEN 0 ELSE h[i - 1] + c[i]
      <3>1. CASE i \in 0 .. k
        <4>1. i # 0 => h[i - 1] = g[i - 1]
          BY <3>1, <2>2
        <4> QED
          BY <3>1, <2>2, <2>3, <4>1
      <3>2. CASE i = k + 1
        <4>1. h[i - 1] = g[k] /\ i # 0 /\ h[i] = g[k] + c[i]
          BY <3>2
        <4> QED
          BY <3>2, <4>1
      <3> QED
        BY <3>1, <3>2
    <2>5. h = [i \in 0 .. k + 1 |-> h[i]]
      OBVIOUS
    <2>6. Sums(c, k + 1, h)
      <3> HIDE DEF h
      <3> QED
        BY <2>4, <2>5 DEF Sums
    <2>7. k + 1 \in 0 .. n
      OBVIOUS
    <2> QED
      BY <2>6, <2>7
  <1>3. 0 .. n \subseteq P
    <2> HIDE DEF P
    <2> QED
      BY <1>1, <1>2, IntervalInduction
  <1>4. n \in P
    BY <1>3
  <1> QED
    BY <1>4

\* The first ones of some numbers add up to numbers.
LEMMA SumsAdd ==
    ASSUME NEW n \in Nat, NEW c, \A i \in 1..n : c[i] \in Nat, NEW g, Sums(c, n, g)
    PROVE  /\ g \in [0..n -> Nat] /\ g[0] = 0
           /\ \A i \in 1..n : g[i] = g[i - 1] + c[i]
  <1>1. DOMAIN g = 0..n /\ g = [i \in 0..n |-> g[i]]
    BY DEF Sums
  <1>2. \A i \in 0..n : g[i] = IF i = 0 THEN 0 ELSE g[i - 1] + c[i]
    BY DEF Sums
  <1>3. g[0] = 0 /\ \A i \in 1..n : g[i] = g[i - 1] + c[i]
    BY <1>2
  <1> DEFINE P == {i \in 0..n : g[i] \in Nat}
  <1>4. 0 \in P
    BY <1>3
  <1>5. ASSUME NEW i \in 0..(n - 1), i \in P PROVE i + 1 \in P
    BY <1>3, <1>5
  <1>6. 0..n \subseteq P
    <2> HIDE DEF P
    <2> QED
      BY <1>4, <1>5, IntervalInduction
  <1>7. \A i \in 0..n : g[i] \in Nat
    BY <1>6
  <1> QED
    BY <1>1, <1>3, <1>7

\* What a window may hold of attempts, seen from the state of the bucket.
Paid(bucket, totals) ==
    IF bucket = None
    THEN \A n \in 1..Window : totals[n] <= n - 1
    ELSE /\ bucket \in [left : 0..Burst, idle : 0..(StaleAfter + 1)]
         /\ \A n \in 1..Window :
                /\ totals[n] + bucket.left <= Burst + n
                /\ IF n <= bucket.idle THEN totals[n] = 0
                   ELSE totals[n] <= Burst + n - bucket.idle

AttemptsInv ==
    /\ DOMAIN sVisitors = Addrs
    /\ sRecent \in [Addrs -> [1..Window -> Nat]]
    /\ \A a \in Addrs : Paid(sVisitors[a], Access!Totals(sRecent[a]))

\* Totals satisfies its equation: it sums up.
LEMMA TotalsSum ==
    ASSUME NEW c \in [1..Window -> Nat]
    PROVE  /\ Access!Totals(c) \in [0..Window -> Nat]
           /\ Access!Totals(c)[0] = 0
           /\ \A n \in 1..Window : Access!Totals(c)[n] = Access!Totals(c)[n - 1] + c[n]
  <1> DEFINE g == CHOOSE f : Sums(c, Window, f)
  <1>1. Window \in Nat /\ \A n \in 1..Window : c[n] \in Nat
    BY ConsoleAssumption
  <1>2. Sums(c, Window, g)
    BY <1>1, SumsExist
  <1>3. Access!Totals(c) = g
    BY DEF Access!Totals, Sums
  <1> HIDE DEF g
  <1> QED
    BY <1>1, <1>2, <1>3, SumsAdd

\* Nothing sums up to nothing.
LEMMA TotalsZero ==
    ASSUME NEW c \in [1..Window -> Nat], \A n \in 1..Window : c[n] = 0
    PROVE  \A n \in 0..Window : Access!Totals(c)[n] = 0
  <1> DEFINE t == Access!Totals(c)
             P == {n \in 0..Window : t[n] = 0}
  <1>1. /\ Window \in Nat /\ t \in [0..Window -> Nat] /\ t[0] = 0
        /\ \A n \in 1..Window : t[n] = t[n - 1] + c[n]
    BY TotalsSum, ConsoleAssumption
  <1> HIDE DEF t
  <1>2. 0 \in P
    BY <1>1
  <1>3. ASSUME NEW n \in 0..(Window - 1), n \in P PROVE n + 1 \in P
    BY <1>1, <1>3
  <1>4. 0..Window \subseteq P
    <2> HIDE DEF P
    <2> QED
      BY <1>1, <1>2, <1>3, IntervalInduction
  <1> QED
    BY <1>4 DEF t

\* One more in the first interval is one more in each sum.
LEMMA TotalsAdd ==
    ASSUME NEW c \in [1..Window -> Nat], NEW d \in [1..Window -> Nat],
           \A n \in 1..Window : d[n] = IF n = 1 THEN c[n] + 1 ELSE c[n]
    PROVE  \A n \in 1..Window : Access!Totals(d)[n] = Access!Totals(c)[n] + 1
  <1> DEFINE t == Access!Totals(c)
             u == Access!Totals(d)
             P == {n \in 0..Window : n > 0 => u[n] = t[n] + 1}
  <1>1. /\ Window \in Nat /\ t \in [0..Window -> Nat] /\ t[0] = 0
        /\ \A n \in 1..Window : t[n] = t[n - 1] + c[n]
    BY TotalsSum, ConsoleAssumption
  <1>2. /\ u \in [0..Window -> Nat] /\ u[0] = 0
        /\ \A n \in 1..Window : u[n] = u[n - 1] + d[n]
    BY TotalsSum
  <1> HIDE DEF t, u
  <1>3. 0 \in P
    BY <1>1
  <1>4. ASSUME NEW n \in 0..(Window - 1), n \in P PROVE n + 1 \in P
    <2>1. /\ n + 1 \in 1..Window /\ (n + 1) - 1 = n
          /\ t[n + 1] = t[n] + c[n + 1] /\ u[n + 1] = u[n] + d[n + 1]
          /\ t[n] \in Nat /\ u[n] \in Nat /\ c[n + 1] \in Nat
      BY <1>1, <1>2
    <2>2. CASE n = 0
      BY <1>1, <1>2, <2>1, <2>2
    <2>3. CASE n # 0
      BY <1>1, <1>4, <2>1, <2>3
    <2> QED
      BY <2>2, <2>3
  <1>5. 0..Window \subseteq P
    <2> HIDE DEF P
    <2> QED
      BY <1>1, <1>3, <1>4, IntervalInduction
  <1> QED
    BY <1>1, <1>5 DEF t, u

\* When an interval begins, each sum is the one before.
LEMMA TotalsShift ==
    ASSUME NEW c \in [1..Window -> Nat], NEW d \in [1..Window -> Nat],
           \A n \in 1..Window : d[n] = IF n = 1 THEN 0 ELSE c[n - 1]
    PROVE  \A n \in 1..Window : Access!Totals(d)[n] = Access!Totals(c)[n - 1]
  <1> DEFINE t == Access!Totals(c)
             u == Access!Totals(d)
             P == {n \in 0..Window : n > 0 => u[n] = t[n - 1]}
  <1>1. /\ Window \in Nat /\ t \in [0..Window -> Nat] /\ t[0] = 0
        /\ \A n \in 1..Window : t[n] = t[n - 1] + c[n]
    BY TotalsSum, ConsoleAssumption
  <1>2. /\ u \in [0..Window -> Nat] /\ u[0] = 0
        /\ \A n \in 1..Window : u[n] = u[n - 1] + d[n]
    BY TotalsSum
  <1> HIDE DEF t, u
  <1>3. 0 \in P
    BY <1>1
  <1>4. ASSUME NEW n \in 0..(Window - 1), n \in P PROVE n + 1 \in P
    <2>1. /\ n + 1 \in 1..Window /\ (n + 1) - 1 = n
          /\ u[n + 1] = u[n] + d[n + 1] /\ t[n] \in Nat /\ u[n] \in Nat
      BY <1>1, <1>2
    <2>2. CASE n = 0
      BY <1>1, <1>2, <2>1, <2>2
    <2>3. CASE n # 0
      <3>1. n \in 1..Window /\ t[n] = t[n - 1] + c[n] /\ d[n + 1] = c[n] /\ u[n] = t[n - 1]
        BY <1>1, <1>4, <2>1, <2>3
      <3> QED
        BY <2>1, <3>1
    <2> QED
      BY <2>2, <2>3
  <1>5. 0..Window \subseteq P
    <2> HIDE DEF P
    <2> QED
      BY <1>1, <1>3, <1>4, IntervalInduction
  <1> QED
    BY <1>1, <1>5 DEF t, u

\* What passing through lets in, what waiting refills and what being forgotten
\* starts anew keep the account of one address.
LEMMA PaidSteps ==
    ASSUME NEW v, NEW w, NEW c \in [1..Window -> Nat], NEW d \in [1..Window -> Nat],
           Paid(v, Access!Totals(c)),
           \/ /\ w = v \/ (v # None /\ v.idle > StaleAfter /\ w = None)
              /\ d = c
           \/ /\ v = None /\ w = [left |-> Burst, idle |-> 0]
              /\ \A n \in 1..Window : d[n] = IF n = 1 THEN c[n] + 1 ELSE c[n]
           \/ /\ v # None /\ v.left > 0 /\ w = [left |-> v.left - 1, idle |-> 0]
              /\ \A n \in 1..Window : d[n] = IF n = 1 THEN c[n] + 1 ELSE c[n]
           \/ /\ v # None /\ ~(v.left > 0) /\ w = [left |-> 0, idle |-> 0]
              /\ d = c
           \/ /\ w = IF v = None THEN None
                     ELSE [left |-> Access!Least(v.left + 1, Burst),
                           idle |-> Access!Least(v.idle + 1, StaleAfter + 1)]
              /\ \A n \in 1..Window : d[n] = IF n = 1 THEN 0 ELSE c[n - 1]
    PROVE  Paid(w, Access!Totals(d))
  <1> DEFINE t == Access!Totals(c)
             u == Access!Totals(d)
  <1>1. /\ Window \in Nat /\ Burst \in Nat /\ StaleAfter \in Nat /\ Burst <= StaleAfter
        /\ None \notin [left : 0..Burst, idle : 0..(StaleAfter + 1)]
    BY ConsoleAssumption
  <1>2. t \in [0..Window -> Nat] /\ t[0] = 0
    BY TotalsSum
  <1>3. d = c => u = t
    OBVIOUS
  <1>4. (\A n \in 1..Window : d[n] = IF n = 1 THEN c[n] + 1 ELSE c[n])
            => \A n \in 1..Window : u[n] = t[n] + 1
    BY TotalsAdd
  <1>5. (\A n \in 1..Window : d[n] = IF n = 1 THEN 0 ELSE c[n - 1])
            => \A n \in 1..Window : u[n] = t[n - 1]
    BY TotalsShift
  <1>6. Paid(v, t)
    OBVIOUS
  <1> HIDE DEF t, u
  <1>7. CASE v = None
    <2>1. \A n \in 1..Window : t[n] <= n - 1 /\ t[n] \in Nat /\ n - 1 \in 0..Window
      BY <1>1, <1>2, <1>6, <1>7 DEF Paid
    <2>2. CASE w = None /\ d = c
      BY <1>3, <2>1, <2>2 DEF Paid, u
    <2>3. CASE /\ w = [left |-> Burst, idle |-> 0]
               /\ \A n \in 1..Window : u[n] = t[n] + 1
      <3>1. w \in [left : 0..Burst, idle : 0..(StaleAfter + 1)] /\ w # None
        BY <1>1, <2>3
      <3>2. \A n \in 1..Window :
                /\ u[n] + w.left <= Burst + n
                /\ IF n <= w.idle THEN u[n] = 0 ELSE u[n] <= Burst + n - w.idle
        <4>1. w.left = Burst /\ w.idle = 0
          BY <2>3
        <4>2. ASSUME NEW n \in 1..Window
              PROVE  u[n] + Burst <= Burst + n /\ ~(n <= 0) /\ u[n] <= Burst + n - 0
          <5>1. u[n] = t[n] + 1 /\ t[n] <= n - 1 /\ t[n] \in Nat
            BY <2>1, <2>3
          <5> QED
            BY <1>1, <5>1
        <4> QED
          BY <4>1, <4>2
      <3> QED
        BY <3>1, <3>2 DEF Paid, u
    <2>4. CASE w = None /\ \A n \in 1..Window : u[n] = t[n - 1]
      <3>1. ASSUME NEW n \in 1..Window PROVE u[n] <= n - 1
        <4>1. CASE n = 1
          BY <1>2, <2>4, <4>1
        <4>2. CASE n # 1
          <5>1. n - 1 \in 1..Window /\ u[n] = t[n - 1]
            BY <1>1, <2>4, <4>2
          <5>2. t[n - 1] <= (n - 1) - 1 /\ t[n - 1] \in Nat
            BY <2>1, <5>1
          <5> QED
            BY <5>1, <5>2
        <4> QED
          BY <4>1, <4>2
      <3> QED
        BY <2>4, <3>1 DEF Paid, u
    <2> QED
      BY <1>4, <1>5, <1>7, <2>2, <2>3, <2>4
  <1>8. CASE v # None
    <2> DEFINE left == v.left
               idle == v.idle
    <2>1. v \in [left : 0..Burst, idle : 0..(StaleAfter + 1)]
      BY <1>6, <1>8 DEF Paid
    <2>2. left \in 0..Burst /\ idle \in 0..(StaleAfter + 1)
      BY <2>1
    <2>3. \A n \in 1..Window :
              /\ t[n] + left <= Burst + n
              /\ IF n <= idle THEN t[n] = 0 ELSE t[n] <= Burst + n - idle
      BY <1>6, <1>8 DEF Paid
    <2>4. \A n \in 1..Window : t[n] \in Nat
      BY <1>2
    <2> HIDE DEF left, idle
    <2>5. CASE w = v /\ d = c
      BY <1>3, <1>6, <2>5 DEF u
    <2>6. CASE idle > StaleAfter /\ w = None /\ d = c
      <3>1. ASSUME NEW n \in 1..Window PROVE t[n] <= n - 1
        BY <1>1, <2>2, <2>3, <2>4, <2>6
      <3> QED
        BY <1>3, <2>6, <3>1 DEF Paid, u
    <2>7. CASE /\ left > 0 /\ w = [left |-> left - 1, idle |-> 0]
               /\ \A n \in 1..Window : u[n] = t[n] + 1
      <3>1. w \in [left : 0..Burst, idle : 0..(StaleAfter + 1)] /\ w # None
        BY <1>1, <2>2, <2>7
      <3>2. \A n \in 1..Window :
                /\ u[n] + w.left <= Burst + n
                /\ IF n <= w.idle THEN u[n] = 0 ELSE u[n] <= Burst + n - w.idle
        <4>1. w.left = left - 1 /\ w.idle = 0
          BY <2>7
        <4>2. ASSUME NEW n \in 1..Window
              PROVE  u[n] + (left - 1) <= Burst + n /\ ~(n <= 0) /\ u[n] <= Burst + n - 0
          <5>1. u[n] = t[n] + 1 /\ t[n] + left <= Burst + n /\ t[n] \in Nat
            BY <2>3, <2>4, <2>7
          <5> QED
            <6>1. left > 0 /\ left \in Nat /\ n \in Nat /\ n > 0 /\ Burst \in Nat
              BY <1>1, <2>2, <2>7
            <6> QED
              BY ONLY <5>1, <6>1
        <4> QED
          BY <4>1, <4>2
      <3> QED
        BY <3>1, <3>2 DEF Paid, u
    <2>8. CASE ~(left > 0) /\ w = [left |-> 0, idle |-> 0] /\ d = c
      <3>1. w \in [left : 0..Burst, idle : 0..(StaleAfter + 1)] /\ w # None
        BY <1>1, <2>2, <2>8
      <3>2. \A n \in 1..Window :
                /\ t[n] + w.left <= Burst + n
                /\ IF n <= w.idle THEN t[n] = 0 ELSE t[n] <= Burst + n - w.idle
        BY <1>1, <2>2, <2>3, <2>4, <2>8
      <3> QED
        BY <1>3, <2>8, <3>1, <3>2 DEF Paid, u
    <2>9. CASE /\ w = [left |-> Access!Least(left + 1, Burst),
                       idle |-> Access!Least(idle + 1, StaleAfter + 1)]
               /\ \A n \in 1..Window : u[n] = t[n - 1]
      <3> DEFINE more == Access!Least(left + 1, Burst)
                 age == Access!Least(idle + 1, StaleAfter + 1)
      <3>1. /\ more \in 0..Burst /\ more <= left + 1
            /\ age \in 0..(StaleAfter + 1) /\ age <= idle + 1
        BY <1>1, <2>2 DEF Access!Least
      <3> HIDE DEF more, age
      <3>2. w \in [left : 0..Burst, idle : 0..(StaleAfter + 1)] /\ w.left = more /\ w.idle = age
        BY <2>9, <3>1 DEF more, age
      <3>3. ASSUME NEW n \in 1..Window
            PROVE  /\ u[n] + more <= Burst + n
                   /\ IF n <= age THEN u[n] = 0 ELSE u[n] <= Burst + n - age
        <4>1. CASE n = 1
          <5>1. u[n] = 0
            BY <1>2, <2>9, <4>1
          <5> QED
            BY <1>1, <3>1, <4>1, <5>1
        <4>2. CASE n # 1
          <5>1. n - 1 \in 1..Window /\ u[n] = t[n - 1]
            BY <1>1, <2>9, <4>2
          <5> DEFINE m == n - 1
                     x == t[n - 1]
          <5>2. /\ x + left <= Burst + m /\ x \in Nat /\ m \in Nat /\ n = m + 1 /\ u[n] = x
                /\ IF m <= idle THEN x = 0 ELSE x <= Burst + m - idle
            BY <2>3, <2>4, <5>1
          <5> HIDE DEF m, x
          <5> QED
            BY <1>1, <2>2, <3>1, <5>2
        <4> QED
          BY <4>1, <4>2
      <3>4. w # None
        BY <1>1, <3>2
      <3> QED
        BY <3>2, <3>3, <3>4 DEF Paid, u
    <2> QED
      BY <1>4, <1>5, <1>8, <2>5, <2>6, <2>7, <2>8, <2>9 DEF left, idle
  <1> QED
    BY <1>7, <1>8

\* Nobody has tried anything at first.
LEMMA AttemptsStart == Access!Init => AttemptsInv
  <1> SUFFICES ASSUME Access!Init PROVE AttemptsInv
    OBVIOUS
  <1>1. /\ sVisitors = [a \in Addrs |-> None]
        /\ sRecent = [a \in Addrs |-> [n \in 1..Window |-> 0]] /\ Window \in Nat
    BY ConsoleAssumption DEF Access!Init
  <1>2. ASSUME NEW a \in Addrs PROVE Paid(sVisitors[a], Access!Totals(sRecent[a]))
    <2>1. /\ sVisitors[a] = None /\ sRecent[a] \in [1..Window -> Nat]
          /\ \A n \in 1..Window : sRecent[a][n] = 0
      BY <1>1
    <2>2. \A n \in 0..Window : Access!Totals(sRecent[a])[n] = 0
      BY <2>1, TotalsZero
    <2>3. \A n \in 1..Window : n \in 0..Window /\ 0 <= n - 1
      BY <1>1
    <2> QED
      BY <2>1, <2>2, <2>3 DEF Paid
  <1> QED
    BY <1>1, <1>2 DEF AttemptsInv

\* Every attempt, moment and cleanup preserves the invariant.
LEMMA AttemptsSteps == AttemptsInv /\ [Access!Next]_sVars => AttemptsInv'
  <1> SUFFICES ASSUME AttemptsInv, [Access!Next]_sVars PROVE AttemptsInv'
    OBVIOUS
  <1>1. /\ DOMAIN sVisitors = Addrs /\ Window \in Nat
        /\ sRecent \in [Addrs -> [1..Window -> Nat]]
        /\ \A a \in Addrs : Paid(sVisitors[a], Access!Totals(sRecent[a]))
    BY ConsoleAssumption DEF AttemptsInv
  <1>2. CASE UNCHANGED <<sVisitors, sRecent>>
    BY <1>2 DEF AttemptsInv
  <1>3. CASE Access!cleanup
    <2>1. /\ sVisitors' = [a \in Addrs |->
                 IF sVisitors[a] # None /\ sVisitors[a].idle > StaleAfter THEN None
                 ELSE sVisitors[a]]
          /\ UNCHANGED sRecent
      BY <1>3 DEF Access!cleanup
    <2>2. ASSUME NEW a \in Addrs PROVE Paid(sVisitors'[a], Access!Totals(sRecent[a]))
      <3>1. \/ sVisitors'[a] = sVisitors[a]
            \/ /\ sVisitors[a] # None /\ sVisitors[a].idle > StaleAfter
               /\ sVisitors'[a] = None
        BY <2>1
      <3> QED
        BY <1>1, <3>1, PaidSteps
    <2> QED
      BY <1>1, <2>1, <2>2 DEF AttemptsInv
  <1>4. CASE Access!Tick
    <2>1. /\ sVisitors' = [a \in Addrs |->
                 IF sVisitors[a] = None THEN None
                 ELSE [left |-> Access!Least(sVisitors[a].left + 1, Burst),
                       idle |-> Access!Least(sVisitors[a].idle + 1, StaleAfter + 1)]]
          /\ sRecent' = [a \in Addrs |->
                 [n \in 1..Window |-> IF n = 1 THEN 0 ELSE sRecent[a][n - 1]]]
      BY <1>4 DEF Access!Tick
    <2>2. sRecent' \in [Addrs -> [1..Window -> Nat]]
      <3>1. ASSUME NEW a \in Addrs, NEW n \in 1..Window
            PROVE  (IF n = 1 THEN 0 ELSE sRecent[a][n - 1]) \in Nat
        <4>1. n # 1 => n - 1 \in 1..Window
          BY <1>1
        <4> QED
          BY <1>1, <4>1
      <3> QED
        BY <2>1, <3>1
    <2>3. ASSUME NEW a \in Addrs PROVE Paid(sVisitors'[a], Access!Totals(sRecent'[a]))
      <3>1. /\ sVisitors'[a] = IF sVisitors[a] = None THEN None
                   ELSE [left |-> Access!Least(sVisitors[a].left + 1, Burst),
                         idle |-> Access!Least(sVisitors[a].idle + 1, StaleAfter + 1)]
            /\ \A n \in 1..Window : sRecent'[a][n] = IF n = 1 THEN 0 ELSE sRecent[a][n - 1]
        BY <2>1
      <3>2. sRecent[a] \in [1..Window -> Nat] /\ sRecent'[a] \in [1..Window -> Nat]
        BY <1>1, <2>2
      <3> QED
        BY <1>1, <3>1, <3>2, PaidSteps
    <2> QED
      BY <2>1, <2>2, <2>3 DEF AttemptsInv
  <1>5. ASSUME NEW b \in Addrs, Access!handleLogin(b) PROVE AttemptsInv'
    <2>1. /\ sVisitors' = [sVisitors EXCEPT ![b] =
                 IF @ = None THEN [left |-> Burst, idle |-> 0]
                 ELSE [left |-> IF @.left > 0 THEN @.left - 1 ELSE 0, idle |-> 0]]
          /\ sRecent' = [sRecent EXCEPT ![b][1] = IF Access!allowed(b) THEN @ + 1 ELSE @]
      BY <1>5 DEF Access!handleLogin, Access!allow, Access!Bucket
    <2> DEFINE counts == [sRecent[b] EXCEPT ![1] = IF Access!allowed(b) THEN @ + 1 ELSE @]
    <2>2. sRecent' \in [Addrs -> [1..Window -> Nat]]
      <3>1. sRecent[b] \in [1..Window -> Nat]
        BY <1>1
      <3>2. counts \in [1..Window -> Nat]
        <4> DEFINE x == IF Access!allowed(b) THEN sRecent[b][1] + 1 ELSE sRecent[b][1]
        <4>1. ASSUME 1 \in 1..Window PROVE x \in Nat
          <5>1. sRecent[b][1] \in Nat
            BY <3>1, <4>1
          <5>2. sRecent[b][1] + 1 \in Nat
            BY <5>1
          <5> QED
            BY <5>1, <5>2, Zenon
        <4> HIDE DEF x
        <4>2. [sRecent[b] EXCEPT ![1] = x] \in [1..Window -> Nat]
          BY <3>1, <4>1
        <4> QED
          BY <4>2 DEF x
      <3>3. sRecent' = [sRecent EXCEPT ![b] = counts]
        BY <2>1
      <3> HIDE DEF counts
      <3> QED
        BY <1>1, <3>2, <3>3
    <2>3. ASSUME NEW a \in Addrs PROVE Paid(sVisitors'[a], Access!Totals(sRecent'[a]))
      <3>1. sRecent[a] \in [1..Window -> Nat] /\ sRecent'[a] \in [1..Window -> Nat]
        BY <1>1, <2>2
      <3>2. CASE a # b
        <4>1. sVisitors'[a] = sVisitors[a] /\ sRecent'[a] = sRecent[a]
          BY <1>1, <2>1, <3>2
        <4> QED
          BY <1>1, <4>1
      <3>3. CASE a = b
        <4>1. \A n \in 1..Window :
                  sRecent'[a][n] = IF n = 1 /\ Access!allowed(a) THEN sRecent[a][n] + 1
                                   ELSE sRecent[a][n]
          BY <1>1, <2>1, <3>3
        <4>2. ~Access!allowed(a) => sRecent'[a] = sRecent[a]
          <5>1. ~Access!allowed(a) => \A n \in 1..Window : sRecent'[a][n] = sRecent[a][n]
            BY <4>1
          <5> DEFINE c == sRecent[a]
                     d == sRecent'[a]
          <5>2. c \in [1..Window -> Nat] /\ d \in [1..Window -> Nat]
            BY <3>1
          <5>3. ~Access!allowed(a) => \A n \in 1..Window : d[n] = c[n]
            BY <5>1
          <5> HIDE DEF c, d
          <5>4. c = [n \in 1..Window |-> c[n]] /\ d = [n \in 1..Window |-> d[n]]
            BY <5>2
          <5>5. (\A n \in 1..Window : d[n] = c[n]) => d = c
            BY <5>4, Zenon
          <5> QED
            BY <5>3, <5>5 DEF c, d
        <4>3. sVisitors'[a] = IF sVisitors[a] = None THEN [left |-> Burst, idle |-> 0]
                  ELSE [left |-> IF sVisitors[a].left > 0 THEN sVisitors[a].left - 1 ELSE 0,
                        idle |-> 0]
          BY <1>1, <2>1, <3>3
        <4>4. Access!allowed(a) <=> sVisitors[a] = None \/ sVisitors[a].left > 0
          BY DEF Access!allowed
        <4>5. Paid(sVisitors[a], Access!Totals(sRecent[a]))
          BY <1>1
        <4>6. CASE sVisitors[a] = None
          BY <3>1, <4>1, <4>3, <4>4, <4>5, <4>6, PaidSteps
        <4>7. CASE sVisitors[a] # None /\ sVisitors[a].left > 0
          BY <3>1, <4>1, <4>3, <4>4, <4>5, <4>7, PaidSteps
        <4>8. CASE sVisitors[a] # None /\ ~(sVisitors[a].left > 0)
          BY <3>1, <4>2, <4>3, <4>4, <4>5, <4>8, PaidSteps
        <4> QED
          BY <4>6, <4>7, <4>8
      <3> QED
        BY <3>2, <3>3
    <2> QED
      BY <1>1, <2>1, <2>2, <2>3 DEF AttemptsInv
  <1>6. CASE Access!Enrol
    BY <1>2, <1>6 DEF Access!Enrol
  <1>7. ASSUME NEW u \in SignIns, NEW active \in BOOLEAN, Access!SetActive(u, active)
        PROVE  AttemptsInv'
    BY <1>2, <1>7 DEF Access!SetActive
  <1>8. ASSUME NEW public \in BOOLEAN, NEW admin \in BOOLEAN,
               Access!AuthMiddleware(public, admin)
        PROVE  AttemptsInv'
    BY <1>2, <1>8 DEF Access!AuthMiddleware
  <1>9. CASE UNCHANGED sVars
    BY <1>2, <1>9 DEF sVars
  <1>10. ASSUME NEW t \in sTokens, Access!ServeWs(t) PROVE AttemptsInv'
    BY <1>2, <1>10 DEF Access!ServeWs
  <1>11. ASSUME NEW holder \in sSockets, Access!Push(holder) \/ Access!Disconnect(holder)
         PROVE  AttemptsInv'
    BY <1>2, <1>11 DEF Access!Push, Access!Disconnect
  <1> QED
    BY <1>3, <1>4, <1>5, <1>6, <1>7, <1>8, <1>9, <1>10, <1>11 DEF Access!Next

\* An address never gets more attempts in a window than the burst, what flows in
\* and one, for any burst and window, as long as a bucket is kept until it would
\* be full again (ratelimit.go, allow and cleanup).
THEOREM AttemptsAreBounded == ConsoleSpec => []AttemptsBounded
  <1>1. ConsoleInit => AttemptsInv
    BY AttemptsStart DEF ConsoleInit
  <1>2. AttemptsInv /\ [ConsoleNext]_consoleVars => AttemptsInv'
    <2>1. [ConsoleNext]_consoleVars => [Access!Next]_sVars
      BY DEF ConsoleNext, consoleVars
    <2> QED
      BY <2>1, AttemptsSteps
  <1>3. AttemptsInv => AttemptsBounded
    <2> SUFFICES ASSUME AttemptsInv, NEW a \in Addrs
                 PROVE  Access!Totals(sRecent[a])[Window] <= Burst + Window
      BY DEF AttemptsBounded, Access!AttemptsBounded
    <2> DEFINE t == Access!Totals(sRecent[a])
    <2>1. Window \in Nat /\ Burst \in Nat /\ StaleAfter \in Nat
      BY ConsoleAssumption
    <2>2. t \in [0..Window -> Nat] /\ t[0] = 0 /\ Paid(sVisitors[a], t)
      BY TotalsSum DEF AttemptsInv
    <2> HIDE DEF t
    <2>3. t[Window] <= Burst + Window
      <3>1. CASE Window = 0
        BY <2>1, <2>2, <3>1
      <3>2. CASE Window # 0
        <4>1. Window \in 1..Window /\ t[Window] \in Nat
          BY <2>1, <2>2, <3>2
        <4>2. CASE sVisitors[a] = None
          BY <2>1, <2>2, <4>1, <4>2 DEF Paid
        <4>3. CASE sVisitors[a] # None
          <5>1. sVisitors[a].left \in 0..Burst /\ t[Window] + sVisitors[a].left <= Burst + Window
            BY <2>2, <4>1, <4>3 DEF Paid
          <5> QED
            BY <2>1, <4>1, <5>1
        <4> QED
          BY <4>2, <4>3
      <3> QED
        BY <3>1, <3>2
    <2> QED
      BY <2>3 DEF t
  <1> QED
    BY <1>1, <1>2, <1>3, PTL DEF ConsoleSpec

----------------------------------------------------------------------------
(* Accounts: the lists of roles and permissions *)

\* What can be on a list.
Entries == (UserIds \cup RoleIds) \X (RoleIds \cup Perms)

\* What a request that has to do with a list remembers, and what the others do.
Listers == [pc : {"clear", "insert", "answer"}, of : UserIds \cup (RoleIds \ SystemRoles),
            wanted : SUBSET UNION (Lists \cup {Perms}), left : SUBSET UNION (Lists \cup {Perms}),
            replace : BOOLEAN, old : SUBSET Entries, failed : SUBSET {"delete", "insert"},
            alone : BOOLEAN]
Others == {Account!Idle} \cup [pc : {"update", "drop"}, role : RoleIds \ SystemRoles]

\* What is assigned to a user or a role.
Own(of, granted, allowed) ==
    {pair \in (IF of \in UserIds THEN granted ELSE allowed) : pair[1] = of}
Steady(of) == Own(of, uGrants', uAllows') = Own(of, uGrants, uAllows)

\* What is wanted stays assigned, and nothing is added.
Lasts(w) ==
    /\ Own(w.of, uGrants', uAllows') \subseteq Own(w.of, uGrants, uAllows)
    /\ \A pair \in Own(w.of, uGrants, uAllows) :
           pair[2] \in w.wanted => pair \in Own(w.of, uGrants', uAllows')

\* Nothing has come in between: what is on the list was there or has been added, the
\* old entries are gone after the DELETE unless it failed, and none of the new ones
\* is missing unless an INSERT failed.
Certain(w) == w \in Listers /\ w.alone /\ w.replace
Kept(w) == {w.of} \X (w.wanted \ w.left)
Replaced(w, own) ==
    /\ own \subseteq Kept(w) \cup w.old
    /\ w.pc # "clear" /\ "delete" \notin w.failed => own \subseteq Kept(w)
    /\ "insert" \notin w.failed => Kept(w) \subseteq own
Progress(w) ==
    /\ w.left \subseteq w.wanted
    /\ w.pc = "clear" => w.left = w.wanted /\ w.failed = {}
    /\ w.pc = "answer" => w.left = {}

SystemKept ==
    \A r \in SystemRoles : r \in RoleIds /\ uRoles[r] = "system" /\ {r} \X Perms \subseteq uAllows

ListsInv ==
    /\ uWork \in [Handlers -> Listers \cup Others]
    /\ uGrants \cup uAllows \subseteq Entries
    /\ SystemKept
    /\ \A g, h \in Handlers :
           g # h /\ uWork[g] \in Listers /\ uWork[h] \in Listers
             /\ uWork[g].of = uWork[h].of => ~uWork[g].alone
    /\ \A h \in Handlers : uWork[h] \in Listers => Progress(uWork[h])
    /\ \A h \in Handlers :
           Certain(uWork[h]) => Replaced(uWork[h], Own(uWork[h].of, uGrants, uAllows))

\* A request goes on with its list, perhaps disturbed, or has none.
Quiet(v, w) ==
    w \in Listers =>
        /\ v \in Listers
        /\ w.pc = v.pc /\ w.of = v.of /\ w.wanted = v.wanted /\ w.left = v.left
        /\ w.replace = v.replace /\ w.old = v.old /\ w.failed = v.failed
        /\ w.alone => v.alone

\* What a request holds, by its step.
LEMMA ListerShape ==
    ASSUME NEW w \in Listers \cup Others
    PROVE  /\ Account!Lister(w) <=> w \in Listers
           /\ w \in Listers => /\ w.of \in UserIds \cup (RoleIds \ SystemRoles)
                               /\ w.alone \in BOOLEAN /\ w.replace \in BOOLEAN
           /\ w.pc \in {"clear", "insert", "answer"} => w \in Listers
           /\ w.pc \in {"update", "drop"} => w.role \in RoleIds \ SystemRoles
           /\ w = Account!Idle => w \notin Listers
  BY DEF Listers, Others, Account!Lister, Account!Idle

\* Marking a request changes nothing else of it.
LEMMA ListerMarked ==
    ASSUME NEW w \in Listers, NEW b \in BOOLEAN
    PROVE  /\ [w EXCEPT !.alone = b] \in Listers
           /\ [w EXCEPT !.alone = b].alone = b
           /\ [w EXCEPT !.alone = b].pc = w.pc /\ [w EXCEPT !.alone = b].of = w.of
           /\ [w EXCEPT !.alone = b].wanted = w.wanted /\ [w EXCEPT !.alone = b].left = w.left
           /\ [w EXCEPT !.alone = b].replace = w.replace
           /\ [w EXCEPT !.alone = b].old = w.old /\ [w EXCEPT !.alone = b].failed = w.failed
  BY DEF Listers

\* Nothing happens to a request.
LEMMA QuietSame == ASSUME NEW w PROVE Quiet(w, w)
  BY DEF Quiet

\* A request goes on, and another one is under way beside it.
LEMMA QuietMarked == ASSUME NEW w \in Listers PROVE Quiet(w, [w EXCEPT !.alone = FALSE])
  BY ListerMarked DEF Quiet

\* What is known of a list stays so if the request goes on and the list lasts.
LEMMA ReplacedLasts ==
    ASSUME NEW v \in Listers, NEW w \in Listers, Quiet(v, w), Lasts(w),
           Replaced(v, Own(v.of, uGrants, uAllows))
    PROVE  Replaced(w, Own(w.of, uGrants', uAllows'))
  <1> DEFINE own == Own(v.of, uGrants, uAllows)
             later == Own(w.of, uGrants', uAllows')
  <1>1. /\ w.pc = v.pc /\ w.of = v.of /\ w.wanted = v.wanted /\ w.left = v.left
        /\ w.old = v.old /\ w.failed = v.failed
    BY DEF Quiet
  <1>2. Kept(w) = Kept(v) /\ \A pair \in Kept(v) : pair[2] \in w.wanted
    BY <1>1 DEF Kept
  <1>3. later \subseteq own /\ \A pair \in own : pair[2] \in w.wanted => pair \in later
    BY <1>1 DEF Lasts
  <1> HIDE DEF own, later
  <1>4. Replaced(v, own)
    BY DEF own
  <1>5. Replaced(w, later)
    BY <1>1, <1>2, <1>3, <1>4 DEF Replaced
  <1> QED
    BY <1>5 DEF later

\* What does not change lasts.
LEMMA SteadyLasts == ASSUME NEW w, Steady(w.of) PROVE Lasts(w)
  BY DEF Steady, Lasts

\* Requests go on or end; what is certain of a list stays so.
LEMMA ListsQuiet ==
    ASSUME ListsInv, uWork' \in [Handlers -> Listers \cup Others], SystemKept',
           \A h \in Handlers : Quiet(uWork[h], uWork'[h]),
           uGrants' \cup uAllows' \subseteq Entries,
           \A h \in Handlers : Certain(uWork'[h]) => Lasts(uWork'[h])
    PROVE  ListsInv'
  <1>1. ASSUME NEW g \in Handlers, NEW h \in Handlers, g # h, uWork'[g] \in Listers,
               uWork'[h] \in Listers, uWork'[g].of = uWork'[h].of
        PROVE  ~uWork'[g].alone
    BY <1>1 DEF ListsInv, Quiet
  <1>2. ASSUME NEW h \in Handlers, uWork'[h] \in Listers PROVE Progress(uWork'[h])
    BY <1>2 DEF ListsInv, Quiet, Progress
  <1>3. ASSUME NEW h \in Handlers, Certain(uWork'[h])
        PROVE  Replaced(uWork'[h], Own(uWork'[h].of, uGrants', uAllows'))
    <2>1. Quiet(uWork[h], uWork'[h]) /\ Lasts(uWork'[h]) /\ uWork'[h] \in Listers
      BY <1>3 DEF Certain
    <2>2. Certain(uWork[h]) /\ uWork[h] \in Listers
      BY <1>3, <2>1 DEF Quiet, Certain
    <2>3. Replaced(uWork[h], Own(uWork[h].of, uGrants, uAllows))
      BY <2>2 DEF ListsInv
    <2> QED
      BY <2>1, <2>2, <2>3, ReplacedLasts
  <1> QED
    BY <1>1, <1>2, <1>3 DEF ListsInv

\* A request that begins a list knows whether it is alone, and so do the others.
LEMMA ListBegins ==
    ASSUME ListsInv, NEW h \in Handlers, uWork[h] \notin Listers,
           NEW of \in UserIds \cup (RoleIds \ SystemRoles),
           NEW wanted \in SUBSET UNION (Lists \cup {Perms}),
           NEW replace \in BOOLEAN, Account!Then(h, of, wanted, replace),
           UNCHANGED <<uGrants, uAllows>>, SystemKept'
    PROVE  ListsInv'
  <1>0. /\ uWork \in [Handlers -> Listers \cup Others]
        /\ uGrants \cup uAllows \subseteq Entries /\ uGrants' \cup uAllows' \subseteq Entries
        /\ \A g \in Handlers : Steady(uWork'[g].of) /\ Lasts(uWork'[g])
    BY SteadyLasts DEF ListsInv, Own, Steady
  <1>1. CASE wanted = {}
    <2>1. uWork' = [uWork EXCEPT ![h] = Account!Idle] /\ Account!Idle \in Others
      BY <1>1 DEF Account!Then, Account!Goto, Others
    <2>2. Account!Idle \notin Listers
      BY <2>1, ListerShape
    <2>3. \A g \in Handlers : Quiet(uWork[g], uWork'[g])
      BY <1>0, <2>1, <2>2, QuietSame DEF Quiet
    <2>4. uWork' \in [Handlers -> Listers \cup Others]
      BY <1>0, <2>1
    <2> QED
      BY <1>0, <2>3, <2>4, ListsQuiet
  <1>2. CASE wanted # {}
    <2> DEFINE listed == Account!Listed(of)
               first == IF replace THEN "clear" ELSE "insert"
               begun == [pc |-> first, of |-> of,
                         wanted |-> wanted, left |-> wanted, replace |-> replace,
                         old |-> listed, failed |-> {}, alone |-> TRUE]
               alone == \A k \in Handlers \ {h} : ~(Account!Lister(uWork[k]) /\ uWork[k].of = of)
    <2>1. uWork' = [g \in Handlers |->
              IF g = h THEN [begun EXCEPT !.alone = alone]
              ELSE IF Account!Lister(uWork[g]) /\ uWork[g].of = of
              THEN [uWork[g] EXCEPT !.alone = FALSE] ELSE uWork[g]]
      BY <1>2 DEF Account!Then, Account!Disturb, Account!Listing
    <2>2. alone \in BOOLEAN
      OBVIOUS
    <2>3. alone => \A k \in Handlers \ {h} : ~(uWork[k] \in Listers /\ uWork[k].of = of)
      BY <1>0, ListerShape
    <2>4. listed \subseteq Entries /\ listed = Own(of, uGrants', uAllows')
      BY <1>0 DEF Account!Listed, Account!Pairs, Own
    <2>5. first \in {"clear", "insert"} /\ (first = "clear" <=> replace)
      OBVIOUS
    <2> HIDE DEF listed, first
    <2>6. /\ begun \in Listers
          /\ begun.of = of /\ begun.left = begun.wanted /\ begun.wanted = wanted
          /\ begun.replace = replace /\ begun.pc = first
          /\ begun.old = listed /\ begun.failed = {}
      <3>1. begun \in Listers
        BY <2>4, <2>5 DEF Listers
      <3> QED
        BY <3>1
    <2> HIDE DEF begun, alone
    <2>7. /\ uWork'[h] \in Listers /\ uWork'[h].of = of /\ uWork'[h].alone = alone
          /\ uWork'[h].left = uWork'[h].wanted /\ uWork'[h].replace = replace
          /\ uWork'[h].pc = first
          /\ uWork'[h].old = listed /\ uWork'[h].failed = {}
      <3> DEFINE marked == [begun EXCEPT !.alone = alone]
      <3>1. /\ marked \in Listers /\ marked.alone = alone /\ marked.pc = begun.pc
            /\ marked.of = begun.of /\ marked.wanted = begun.wanted
            /\ marked.left = begun.left /\ marked.replace = begun.replace
            /\ marked.old = begun.old /\ marked.failed = begun.failed
        BY <2>2, <2>6, ListerMarked, Zenon
      <3>2. uWork'[h] = marked
        BY <2>1
      <3> HIDE DEF marked
      <3> QED
        BY <2>6, <3>1, <3>2, Zenon
    <2>8. ASSUME NEW g \in Handlers \ {h}
          PROVE  /\ uWork'[g] \in Listers \cup Others /\ Quiet(uWork[g], uWork'[g])
                 /\ uWork'[g] \in Listers /\ uWork'[g].of = of => ~uWork'[g].alone
      <3>1. CASE Account!Lister(uWork[g]) /\ uWork[g].of = of
        <4>1. uWork'[g] = [uWork[g] EXCEPT !.alone = FALSE] /\ uWork[g] \in Listers
          BY <1>0, <2>1, <3>1, ListerShape
        <4> QED
          BY <4>1, ListerMarked, QuietMarked
      <3>2. CASE ~(Account!Lister(uWork[g]) /\ uWork[g].of = of)
        <4>1. uWork'[g] = uWork[g]
          BY <2>1, <3>2
        <4> QED
          BY <1>0, <3>2, <4>1, ListerShape, QuietSame
      <3> QED
        BY <3>1, <3>2
    <2>9. uWork' \in [Handlers -> Listers \cup Others]
      BY <2>1, <2>7, <2>8
    <2>10. ASSUME NEW f \in Handlers, NEW g \in Handlers, f # g, uWork'[f] \in Listers,
                 uWork'[g] \in Listers, uWork'[f].of = uWork'[g].of
          PROVE  ~uWork'[f].alone
      <3>1. CASE f = h
        <4>1. uWork[g] \in Listers /\ uWork[g].of = of
          BY <2>7, <2>8, <2>10, <3>1 DEF Quiet
        <4> QED
          BY <2>3, <2>7, <2>10, <3>1, <4>1
      <3>2. CASE g = h
        BY <2>7, <2>8, <2>10, <3>2
      <3>3. CASE f # h /\ g # h
        <4>1. Quiet(uWork[f], uWork'[f]) /\ Quiet(uWork[g], uWork'[g])
          BY <2>8, <3>3
        <4> QED
          BY <2>10, <4>1 DEF Quiet, ListsInv
      <3> QED
        BY <3>1, <3>2, <3>3
    <2>11. ASSUME NEW g \in Handlers, uWork'[g] \in Listers PROVE Progress(uWork'[g])
      <3>1. CASE g = h
        BY <2>7, <2>5, <3>1 DEF Progress
      <3>2. CASE g # h
        <4>1. Quiet(uWork[g], uWork'[g])
          BY <2>8, <3>2
        <4> QED
          BY <2>11, <4>1 DEF Quiet, ListsInv, Progress
      <3> QED
        BY <3>1, <3>2
    <2>12. ASSUME NEW g \in Handlers, Certain(uWork'[g])
           PROVE  Replaced(uWork'[g], Own(uWork'[g].of, uGrants', uAllows'))
      <3>1. CASE g = h
        <4>1. Kept(uWork'[h]) = {} /\ uWork'[h].pc = "clear"
          BY <2>7, <2>5, <2>12, <3>1 DEF Certain, Kept
        <4> QED
          BY <2>4, <2>7, <3>1, <4>1 DEF Replaced
      <3>2. CASE g # h
        <4>1. Quiet(uWork[g], uWork'[g]) /\ Lasts(uWork'[g]) /\ uWork'[g] \in Listers
          BY <1>0, <2>8, <2>12, <3>2 DEF Certain
        <4>2. Certain(uWork[g]) /\ uWork[g] \in Listers
          BY <2>12, <4>1 DEF Quiet, Certain
        <4>3. Replaced(uWork[g], Own(uWork[g].of, uGrants, uAllows))
          BY <4>2 DEF ListsInv
        <4> QED
          BY <4>1, <4>2, <4>3, ReplacedLasts
      <3> QED
        BY <3>1, <3>2
    <2> QED
      BY <1>0, <2>9, <2>10, <2>11, <2>12 DEF ListsInv
  <1> QED
    BY <1>1, <1>2

\* What is not about a list.
LEMMA NotListed == Others \cap Listers = {}
  BY DEF Others, Listers, Account!Idle

\* A request ends, or goes on to something that is not about a list.
LEMMA ListsRest ==
    ASSUME ListsInv, NEW h \in Handlers, NEW w \in Others,
           uWork' = [uWork EXCEPT ![h] = w], UNCHANGED <<uGrants, uAllows>>, SystemKept'
    PROVE  ListsInv'
  <1>1. /\ uWork \in [Handlers -> Listers \cup Others] /\ w \notin Listers
        /\ uGrants' \cup uAllows' \subseteq Entries
    BY NotListed DEF ListsInv
  <1>2. uWork' \in [Handlers -> Listers \cup Others]
    BY <1>1
  <1>3. \A g \in Handlers : Quiet(uWork[g], uWork'[g])
    BY <1>1, QuietSame DEF Quiet
  <1>4. \A g \in Handlers : Lasts(uWork'[g])
    BY DEF Lasts, Own
  <1> QED
    BY <1>1, <1>2, <1>3, <1>4, ListsQuiet

\* What a request does with its list, and what is certain about it afterwards.
LEMMA ListWorks ==
    ASSUME ListsInv, NEW h \in Handlers, uWork[h] \in Listers, NEW w \in Listers,
           uWork' = [uWork EXCEPT ![h] = w], w.of = uWork[h].of, w.alone => uWork[h].alone,
           Progress(w), Certain(w) => Replaced(w, Own(w.of, uGrants', uAllows')),
           \A of : of # w.of => Steady(of), SystemKept',
           uGrants' \cup uAllows' \subseteq Entries
    PROVE  ListsInv'
  <1>1. uWork \in [Handlers -> Listers \cup Others] /\ uWork'[h] = w
    BY DEF ListsInv
  <1>2. /\ uWork' \in [Handlers -> Listers \cup Others]
        /\ \A g \in Handlers \ {h} : uWork'[g] = uWork[g]
    BY <1>1
  <1>3. ASSUME NEW f \in Handlers, NEW g \in Handlers, f # g, uWork'[f] \in Listers,
               uWork'[g] \in Listers, uWork'[f].of = uWork'[g].of
        PROVE  ~uWork'[f].alone
    <2>1. /\ uWork[f] \in Listers /\ uWork[g] \in Listers /\ uWork[f].of = uWork[g].of
          /\ uWork'[f].alone => uWork[f].alone
      BY <1>1, <1>2, <1>3
    <2> QED
      BY <1>3, <2>1 DEF ListsInv
  <1>4. ASSUME NEW g \in Handlers, uWork'[g] \in Listers PROVE Progress(uWork'[g])
    BY <1>1, <1>2, <1>4 DEF ListsInv
  <1>5. ASSUME NEW g \in Handlers, Certain(uWork'[g])
        PROVE  Replaced(uWork'[g], Own(uWork'[g].of, uGrants', uAllows'))
    <2>1. CASE g = h
      BY <1>1, <1>5, <2>1
    <2>2. CASE g # h
      <3>1. uWork'[g] = uWork[g] /\ Certain(uWork[g]) /\ uWork[g] \in Listers /\ uWork[g].alone
        BY <1>2, <1>5, <2>2 DEF Certain
      <3>2. Replaced(uWork[g], Own(uWork[g].of, uGrants, uAllows))
        BY <3>1 DEF ListsInv
      <3>3. uWork[g].of # w.of
        BY <2>2, <3>1 DEF ListsInv
      <3> QED
        BY <3>1, <3>2, <3>3 DEF Steady
    <2> QED
      BY <2>1, <2>2
  <1> QED
    BY <1>2, <1>3, <1>4, <1>5 DEF ListsInv

\* The DELETE leaves nothing of the old list; if it failed, the old list stays.
LEMMA ListCleared ==
    ASSUME ListsInv, NEW h \in Handlers, Account!ClearList(h)
    PROVE  ListsInv'
  <1> DEFINE v == uWork[h]
  <1>1. /\ uWork \in [Handlers -> Listers \cup Others] /\ SystemKept
        /\ v \in Listers /\ v.pc = "clear" /\ UNCHANGED uRoles
        /\ uGrants \cup uAllows \subseteq Entries
    BY ListerShape DEF ListsInv, Account!ClearList
  <1>2. Progress(v) /\ v.of \in UserIds \cup (RoleIds \ SystemRoles) /\ v.left = v.wanted
        /\ v.failed = {}
    BY <1>1 DEF ListsInv, Progress, Listers
  <1>3. CASE /\ Account!Put(v.of, Account!Pairs(v.of) \ Account!Listed(v.of))
             /\ Account!Goto(h, [v EXCEPT !.pc = "insert"])
    <2> DEFINE w == [v EXCEPT !.pc = "insert"]
    <2>1. /\ w \in Listers /\ w.of = v.of /\ w.alone = v.alone /\ w.wanted = v.wanted
          /\ w.left = v.left /\ w.pc = "insert"
      BY <1>1 DEF Listers
    <2>2. uWork' = [uWork EXCEPT ![h] = w]
      BY <1>3 DEF Account!Goto
    <2> HIDE DEF w
    <2>3. Progress(w) /\ Kept(w) = {}
      BY <1>2, <2>1 DEF Progress, Kept
    <2>4. Own(v.of, uGrants', uAllows') = {}
      BY <1>3 DEF Own, Account!Put, Account!Pairs, Account!Listed
    <2>5. \A of : of # v.of => Steady(of)
      BY <1>3 DEF Steady, Own, Account!Put, Account!Pairs, Account!Listed
    <2>6. SystemKept' /\ uGrants' \cup uAllows' \subseteq Entries
      <3>1. CASE v.of \in UserIds
        BY <1>1, <1>3, <3>1 DEF SystemKept, Account!Put, Account!Pairs
      <3>2. CASE v.of \notin UserIds
        <4>1. uAllows' = {pair \in uAllows : pair[1] # v.of} /\ v.of \notin SystemRoles
              /\ uGrants' = uGrants
          BY <1>2, <1>3, <3>2 DEF Account!Put, Account!Pairs, Account!Listed
        <4> QED
          BY <1>1, <4>1 DEF SystemKept
      <3> QED
        BY <3>1, <3>2
    <2>7. Replaced(w, Own(w.of, uGrants', uAllows'))
      BY <2>1, <2>3, <2>4 DEF Replaced
    <2> QED
      BY <1>1, <2>1, <2>2, <2>3, <2>5, <2>6, <2>7, ListWorks
  <1>4. CASE /\ UNCHANGED <<uGrants, uAllows>>
             /\ Account!Goto(h, [v EXCEPT !.pc = "insert", !.failed = {"delete"}])
    <2> DEFINE w == [v EXCEPT !.pc = "insert", !.failed = {"delete"}]
    <2>1. /\ w \in Listers /\ w.of = v.of /\ w.alone = v.alone /\ w.wanted = v.wanted
          /\ w.left = v.left /\ w.pc = "insert" /\ w.old = v.old /\ w.failed = {"delete"}
          /\ w.replace = v.replace
      BY <1>1 DEF Listers
    <2>2. uWork' = [uWork EXCEPT ![h] = w]
      BY <1>4 DEF Account!Goto
    <2> HIDE DEF w
    <2>3. Progress(w) /\ Kept(w) = {} /\ Kept(v) = {}
      BY <1>2, <2>1 DEF Progress, Kept
    <2>4. (\A of : Steady(of)) /\ SystemKept' /\ uGrants' \cup uAllows' \subseteq Entries
      BY <1>1, <1>4 DEF Steady, Own, SystemKept
    <2>5. Certain(w) => Replaced(w, Own(w.of, uGrants', uAllows'))
      <3> SUFFICES ASSUME Certain(w) PROVE Replaced(w, Own(w.of, uGrants', uAllows'))
        OBVIOUS
      <3>1. Replaced(v, Own(v.of, uGrants, uAllows))
        BY <1>1, <2>1 DEF Certain, ListsInv
      <3>2. Own(w.of, uGrants', uAllows') = Own(v.of, uGrants, uAllows)
        BY <1>4, <2>1
      <3> QED
        BY <2>1, <2>3, <3>1, <3>2 DEF Replaced
    <2> QED
      BY <1>1, <2>1, <2>2, <2>3, <2>4, <2>5, ListWorks
  <1> QED
    BY <1>3, <1>4 DEF Account!ClearList

\* An INSERT adds one element, or is known to have failed.
LEMMA PairInserted ==
    ASSUME ListsInv, NEW h \in Handlers, Account!InsertPair(h)
    PROVE  ListsInv'
  <1> DEFINE v == uWork[h]
  <1>1. /\ uWork \in [Handlers -> Listers \cup Others] /\ SystemKept
        /\ v \in Listers /\ v.pc = "insert" /\ UNCHANGED uRoles
        /\ uGrants \cup uAllows \subseteq Entries
    BY ListerShape DEF ListsInv, Account!InsertPair
  <1>2. Progress(v) /\ v.of \in UserIds \cup (RoleIds \ SystemRoles) /\ v.left \subseteq v.wanted
        /\ v.left \subseteq RoleIds \cup Perms
    BY <1>1, TypesAssumption DEF ListsInv, Progress, Listers
  <1>3. PICK x \in v.left :
            LET w == [v EXCEPT !.left = @ \ {x},
                               !.pc = IF @ = "insert" /\ v.left = {x} THEN "answer" ELSE @]
            IN  \/ /\ Account!Put(w.of, Account!Pairs(w.of) \cup {<<w.of, x>>})
                   /\ Account!Goto(h, w)
                \/ /\ UNCHANGED <<uGrants, uAllows>>
                   /\ Account!Goto(h, [w EXCEPT !.failed = @ \cup {"insert"}])
    BY Zenon DEF Account!InsertPair
  <1> DEFINE w == [v EXCEPT !.left = @ \ {x},
                            !.pc = IF @ = "insert" /\ v.left = {x} THEN "answer" ELSE @]
  <1>4. /\ w \in Listers /\ w.of = v.of /\ w.alone = v.alone /\ w.wanted = v.wanted
        /\ w.left = v.left \ {x} /\ w.replace = v.replace
        /\ w.pc = IF v.left = {x} THEN "answer" ELSE "insert"
        /\ w.old = v.old /\ w.failed = v.failed
    BY <1>1, Zenon DEF Listers
  <1>5. Progress(w) /\ <<v.of, x>> \in Entries
    BY <1>2, <1>4 DEF Progress, Entries
  <1>6. Kept(w) = Kept(v) \cup {<<v.of, x>>}
    <2>1. v.wanted \ w.left = (v.wanted \ v.left) \cup {x}
      BY <1>2, <1>4
    <2>2. \A a, S : {a} \X (S \cup {x}) = ({a} \X S) \cup {<<a, x>>}
      OBVIOUS
    <2> QED
      BY <1>4, <2>1, <2>2 DEF Kept
  <1>7. CASE /\ Account!Put(w.of, Account!Pairs(w.of) \cup {<<w.of, x>>})
             /\ Account!Goto(h, w)
    <2>1. uWork' = [uWork EXCEPT ![h] = w]
      BY <1>7 DEF Account!Goto
    <2> HIDE DEF w
    <2>2. Certain(w) => Replaced(w, Own(w.of, uGrants', uAllows'))
      <3> SUFFICES ASSUME Certain(w) PROVE Replaced(w, Own(w.of, uGrants', uAllows'))
        OBVIOUS
      <3>1. Replaced(v, Own(v.of, uGrants, uAllows))
        BY <1>1, <1>4 DEF Certain, ListsInv
      <3>2. Own(w.of, uGrants', uAllows') = Own(v.of, uGrants, uAllows) \cup {<<v.of, x>>}
        BY <1>4, <1>7 DEF Own, Account!Put, Account!Pairs
      <3> QED
        BY <1>1, <1>4, <1>6, <3>1, <3>2 DEF Replaced
    <2>3. \A of : of # w.of => Steady(of)
      BY <1>7 DEF Steady, Own, Account!Put, Account!Pairs
    <2>4. SystemKept' /\ uGrants' \cup uAllows' \subseteq Entries
      <3>1. CASE v.of \in UserIds
        BY <1>1, <1>4, <1>5, <1>7, <3>1 DEF SystemKept, Account!Put, Account!Pairs
      <3>2. CASE v.of \notin UserIds
        <4>1. uAllows' = uAllows \cup {<<v.of, x>>} /\ uGrants' = uGrants
          BY <1>4, <1>7, <3>2 DEF Account!Put, Account!Pairs
        <4> QED
          BY <1>1, <1>5, <4>1 DEF SystemKept
      <3> QED
        BY <3>1, <3>2
    <2> QED
      BY <1>1, <1>4, <1>5, <2>1, <2>2, <2>3, <2>4, ListWorks
  <1>8. CASE /\ UNCHANGED <<uGrants, uAllows>>
             /\ Account!Goto(h, [w EXCEPT !.failed = @ \cup {"insert"}])
    <2> DEFINE z == [w EXCEPT !.failed = @ \cup {"insert"}]
    <2> HIDE DEF w
    <2>1. /\ z \in Listers /\ z.of = v.of /\ z.alone = v.alone /\ z.wanted = w.wanted
          /\ z.left = w.left /\ z.pc = w.pc /\ z.old = v.old /\ z.replace = v.replace
          /\ z.failed = v.failed \cup {"insert"}
      BY <1>4 DEF Listers
    <2>2. uWork' = [uWork EXCEPT ![h] = z]
      BY <1>8 DEF Account!Goto
    <2> HIDE DEF z
    <2>3. Progress(z) /\ Kept(z) = Kept(w)
      BY <1>4, <1>5, <2>1 DEF Progress, Kept
    <2>4. (\A of : Steady(of)) /\ SystemKept' /\ uGrants' \cup uAllows' \subseteq Entries
      BY <1>1, <1>8 DEF Steady, Own, SystemKept
    <2>5. Certain(z) => Replaced(z, Own(z.of, uGrants', uAllows'))
      <3> SUFFICES ASSUME Certain(z) PROVE Replaced(z, Own(z.of, uGrants', uAllows'))
        OBVIOUS
      <3>1. Replaced(v, Own(v.of, uGrants, uAllows))
        BY <1>1, <2>1 DEF Certain, ListsInv
      <3>2. Own(z.of, uGrants', uAllows') = Own(v.of, uGrants, uAllows)
        BY <1>8, <2>1
      <3> QED
        BY <1>1, <1>6, <2>1, <2>3, <3>1, <3>2 DEF Replaced
    <2> QED
      BY <1>1, <2>1, <2>2, <2>3, <2>4, <2>5, ListWorks
  <1> QED
    BY <1>3, <1>7, <1>8

\* What goes with the role belongs to the role or to lists that name it.
LEMMA RoleDeleted ==
    ASSUME ListsInv, NEW h \in Handlers, Account!DeleteRole(h)
    PROVE  ListsInv'
  <1> DEFINE r == uWork[h].role
  <1>1. /\ uWork \in [Handlers -> Listers \cup Others] /\ SystemKept
        /\ uWork[h].pc = "drop" /\ r \in RoleIds \ SystemRoles
        /\ uGrants \cup uAllows \subseteq Entries
    BY ListerShape DEF ListsInv, Account!DeleteRole
  <1>2. /\ uRoles' = [uRoles EXCEPT ![r] = None]
        /\ uGrants' = {pair \in uGrants : pair[2] # r}
        /\ uAllows' = {pair \in uAllows : pair[1] # r}
        /\ uWork' = [g \in Handlers |->
                        IF g = h THEN Account!Idle
                        ELSE IF /\ Account!Lister(uWork[g])
                                /\ uWork[g].of = r \/ r \in uWork[g].wanted
                        THEN [uWork[g] EXCEPT !.alone = FALSE]
                        ELSE uWork[g]]
    BY DEF Account!DeleteRole
  <1> HIDE DEF r
  <1>3. Account!Idle \in Others /\ Account!Idle \notin Listers
    BY NotListed DEF Others
  <1>4. ASSUME NEW g \in Handlers
        PROVE  /\ uWork'[g] \in Listers \cup Others
               /\ Quiet(uWork[g], uWork'[g])
               /\ Certain(uWork'[g]) => Lasts(uWork'[g])
    <2>1. CASE g = h
      <3>1. uWork'[g] = Account!Idle
        BY <1>2, <2>1
      <3> QED
        BY <1>3, <3>1 DEF Quiet, Certain
    <2>2. CASE /\ g # h
               /\ Account!Lister(uWork[g]) /\ (uWork[g].of = r \/ r \in uWork[g].wanted)
      <3>1. uWork'[g] = [uWork[g] EXCEPT !.alone = FALSE] /\ uWork[g] \in Listers
        BY <1>1, <1>2, <2>2, ListerShape
      <3> QED
        BY <3>1, ListerMarked, QuietMarked DEF Certain
    <2>3. CASE /\ g # h
               /\ ~(Account!Lister(uWork[g]) /\ (uWork[g].of = r \/ r \in uWork[g].wanted))
      <3>1. uWork'[g] = uWork[g]
        BY <1>2, <2>3
      <3>2. ASSUME Certain(uWork[g]) PROVE Lasts(uWork[g])
        <4>1. uWork[g].of # r /\ r \notin uWork[g].wanted
          BY <1>1, <2>3, <3>2, ListerShape DEF Certain
        <4> QED
          BY <1>2, <4>1 DEF Lasts, Own
      <3> QED
        BY <1>1, <3>1, <3>2, QuietSame
    <2> QED
      BY <2>1, <2>2, <2>3
  <1>5. uWork' \in [Handlers -> Listers \cup Others]
    BY <1>2, <1>4
  <1>6. SystemKept' /\ uGrants' \cup uAllows' \subseteq Entries
    BY <1>1, <1>2 DEF SystemKept
  <1> QED
    BY <1>4, <1>5, <1>6, ListsQuiet

\* Every step of the accounts leaves the lists as they should be.
LEMMA ListsSteps == ListsInv /\ [Account!Next]_uVars => ListsInv'
  <1> SUFFICES ASSUME ListsInv, [Account!Next]_uVars PROVE ListsInv'
    OBVIOUS
  <1>1. /\ uWork \in [Handlers -> Listers \cup Others] /\ SystemKept
        /\ Account!Idle \in Others /\ Account!Idle \notin Listers
        /\ uGrants \cup uAllows \subseteq Entries
    BY NotListed DEF ListsInv, Others
  <1>2. UNCHANGED <<uRoles, uAllows>> => SystemKept'
    BY <1>1 DEF SystemKept
  <1>3. \A wanted : wanted \in Lists \cup SUBSET Perms
                        => wanted \in SUBSET UNION (Lists \cup {Perms})
    OBVIOUS
  <1>4. ASSUME NEW h \in Handlers, NEW u \in UserIds,
               Account!CreateUser(h, u) \/ Account!UpdateUser(h, u)
        PROVE  ListsInv'
    <2>1. PICK wanted \in Lists, replace \in BOOLEAN : Account!Then(h, u, wanted, replace)
      BY <1>4 DEF Account!CreateUser, Account!UpdateUser
    <2>2. uWork[h] = Account!Idle /\ UNCHANGED <<uRoles, uGrants, uAllows>>
      BY <1>4 DEF Account!CreateUser, Account!UpdateUser
    <2> QED
      BY <1>1, <1>2, <1>3, <2>1, <2>2, ListBegins
  <1>5. ASSUME NEW h \in Handlers, Account!GiveUp(h) \/ Account!Answer(h) PROVE ListsInv'
    <2>1. uWork' = [uWork EXCEPT ![h] = Account!Idle] /\ UNCHANGED <<uRoles, uGrants, uAllows>>
      BY <1>5 DEF Account!GiveUp, Account!Answer, Account!Goto
    <2> QED
      BY <1>1, <1>2, <2>1, ListsRest
  <1>6. ASSUME NEW h \in Handlers, NEW r \in RoleIds, Account!CreateRole(h, r) PROVE ListsInv'
    <2>1. PICK wanted \in SUBSET Perms : Account!Then(h, r, wanted, FALSE)
      BY <1>6 DEF Account!CreateRole
    <2>2. /\ uWork[h] = Account!Idle /\ uRoles[r] = None
          /\ uRoles' = [uRoles EXCEPT ![r] = "custom"] /\ UNCHANGED <<uGrants, uAllows>>
      BY <1>6 DEF Account!CreateRole
    <2>3. r \notin SystemRoles /\ SystemKept'
      BY <1>1, <2>2, ConsoleAssumption DEF SystemKept
    <2> QED
      BY <1>1, <1>3, <2>1, <2>2, <2>3, ListBegins
  <1>7. ASSUME NEW h \in Handlers, NEW r \in RoleIds, Account!CheckRole(h, r) PROVE ListsInv'
    <2>1. PICK next \in {"update", "drop"} :
              uWork' = [uWork EXCEPT ![h] = [pc |-> next, role |-> r]]
      BY <1>7 DEF Account!CheckRole, Account!Goto
    <2>2. uRoles[r] = "custom" /\ UNCHANGED <<uRoles, uGrants, uAllows>>
      BY <1>7 DEF Account!CheckRole
    <2>3. [pc |-> next, role |-> r] \in Others
      BY <1>1, <2>2 DEF Others, SystemKept
    <2> QED
      BY <1>2, <2>1, <2>2, <2>3, ListsRest
  <1>8. ASSUME NEW h \in Handlers, Account!UpdateRole(h) PROVE ListsInv'
    <2>1. PICK wanted \in SUBSET Perms : Account!Then(h, uWork[h].role, wanted, TRUE)
      BY <1>8 DEF Account!UpdateRole
    <2>2. uWork[h].pc = "update" /\ UNCHANGED <<uRoles, uGrants, uAllows>>
      BY <1>8 DEF Account!UpdateRole
    <2>3. uWork[h].role \in RoleIds \ SystemRoles /\ uWork[h] \notin Listers
      BY <1>1, <2>2, ListerShape DEF Listers
    <2> QED
      BY <1>2, <1>3, <2>1, <2>2, <2>3, ListBegins
  <1>9. CASE Account!Restart
    <2>1. uWork' = [h \in Handlers |-> Account!Idle] /\ UNCHANGED <<uRoles, uAllows>>
      BY <1>9 DEF Account!Restart
    <2>2. /\ uWork' \in [Handlers -> Listers \cup Others]
          /\ \A h \in Handlers : uWork'[h] \notin Listers
      BY <1>1, <2>1
    <2>3. uGrants' \cup uAllows' \subseteq Entries
      <3>1. AdminRole \in RoleIds
        BY ConsoleAssumption, TypesAssumption
      <3>2. UNCHANGED uGrants \/ \E u \in UserIds : uGrants' = uGrants \cup {<<u, AdminRole>>}
        BY <1>9 DEF Account!Restart
      <3> QED
        BY <1>1, <2>1, <3>1, <3>2 DEF Entries
    <2> QED
      BY <1>2, <2>1, <2>2, <2>3 DEF ListsInv, Certain
  <1>10. ASSUME UNCHANGED <<uRoles, uGrants, uAllows, uWork>> PROVE ListsInv'
    <2>1. \A h \in Handlers : Quiet(uWork[h], uWork'[h]) /\ Lasts(uWork'[h])
      BY <1>10, QuietSame DEF Lasts, Own
    <2> QED
      BY <1>1, <1>2, <1>10, <2>1, ListsQuiet
  <1>11. ASSUME NEW u \in UserIds, Account!DeleteUser(u) PROVE ListsInv'
    BY <1>10, <1>11 DEF Account!DeleteUser
  <1>12. CASE UNCHANGED uVars
    BY <1>10, <1>12 DEF uVars
  <1> QED
    BY <1>4, <1>5, <1>6, <1>7, <1>8, <1>9, <1>11, <1>12, ListCleared, PairInserted,
       RoleDeleted DEF Account!Next

\* Only the system roles are there, with all permissions.
LEMMA ListsStart == Account!Init => ListsInv
  <1> SUFFICES ASSUME Account!Init PROVE ListsInv
    OBVIOUS
  <1>1. uWork = [h \in Handlers |-> Account!Idle] /\ Account!Idle \in Others \ Listers
    BY NotListed DEF Account!Init, Others
  <1>2. SystemKept /\ uGrants \cup uAllows \subseteq Entries
    BY ConsoleAssumption DEF Account!Init, SystemKept, Entries
  <1> QED
    BY <1>1, <1>2 DEF ListsInv, Certain

\* System roles stay as they are, and an update that nothing came in between leaves
\* the list it was asked for, for any number of requests at the same time; where its
\* own statements failed, old entries may be left if the DELETE did, and new ones
\* missing if an INSERT did, but never both for the failure of one (users.go,
\* UpdateUser, UpdateRole, DeleteRole, assignRolesToUser).
THEOREM RolesAreExact == ConsoleSpec => []RolesExact
  <1>1. ConsoleInit => ListsInv
    BY ListsStart DEF ConsoleInit
  <1>2. ListsInv /\ [ConsoleNext]_consoleVars => ListsInv'
    <2>1. [ConsoleNext]_consoleVars => [Account!Next]_uVars
      BY DEF ConsoleNext, consoleVars
    <2> QED
      BY <2>1, ListsSteps
  <1>3. ListsInv => RolesExact
    <2> SUFFICES ASSUME ListsInv PROVE Account!ReplacedExactly /\ Account!SystemRolesKept
      BY DEF RolesExact, Account!RolesExact
    <2>1. ASSUME NEW h \in Handlers, uWork[h].pc = "answer", uWork[h].replace, uWork[h].alone
          PROVE  LET w == uWork[h]
                     asked == {w.of} \X w.wanted
                 IN  /\ Account!Listed(w.of) \subseteq asked \cup w.old
                     /\ "delete" \notin w.failed => Account!Listed(w.of) \subseteq asked
                     /\ "insert" \notin w.failed => asked \subseteq Account!Listed(w.of)
      <3>1. uWork[h] \in Listers
        BY <2>1, ListerShape DEF ListsInv
      <3>2. Certain(uWork[h]) /\ uWork[h].left = {}
        BY <2>1, <3>1 DEF Certain, ListsInv, Progress
      <3>3. /\ Replaced(uWork[h], Own(uWork[h].of, uGrants, uAllows))
            /\ Kept(uWork[h]) = {uWork[h].of} \X uWork[h].wanted
        BY <3>2 DEF ListsInv, Kept
      <3>4. Own(uWork[h].of, uGrants, uAllows) = Account!Listed(uWork[h].of)
        BY DEF Own, Account!Listed, Account!Pairs
      <3> QED
        BY <2>1, <3>3, <3>4 DEF Replaced
    <2>2. Account!SystemRolesKept
      BY DEF ListsInv, SystemKept, Account!SystemRolesKept
    <2> QED
      BY <2>1, <2>2 DEF Account!ReplacedExactly
  <1> QED
    BY <1>1, <1>2, <1>3, PTL DEF ConsoleSpec

----------------------------------------------------------------------------
(* Keywords *)

\* Every list on its way was read after what a test has to go by, and so was the
\* list that is loaded, for a test that matches.
KeywordAgeInv ==
    /\ kVersion \in Nat
    /\ DOMAIN kWork = Handlers
    /\ kMatcher.version \in 0..kVersion
    /\ \A h \in Handlers :
           kWork[h].pc = "load" =>
               /\ kWork[h].list.version \in 0..kVersion
               /\ kWork[h].floor <= kWork[h].list.version
    /\ \A h \in Handlers :
           kWork[h].pc \in {"load", "match"} =>
               /\ kWork[h].floor \in 0..kVersion
               /\ \A g \in Handlers :
                      kWork[g].pc = "load" => kWork[h].floor <= kWork[g].list.version
    /\ \A h \in Handlers : kWork[h].pc = "match" => kWork[h].floor <= kMatcher.version
    /\ \A h \in Handlers : kWork[h].pc = "matched" => kWork[h].floor <= kWork[h].version

\* No test runs at first.
LEMMA KeywordAgeStart == Keyword!Init => KeywordAgeInv
  BY DEF Keyword!Init, Keyword!Compile, Keyword!Idle, KeywordAgeInv

\* The oldest of some versions is one of them.
LEMMA OldestIsLeast ==
  ASSUME NEW S \in SUBSET Nat, S # {}
  PROVE  Keyword!Oldest(S) \in S /\ \A v \in S : Keyword!Oldest(S) <= v
  BY LeastNumber, Zenon DEF Keyword!Oldest

\* Where a handler goes that ends a load or a row.
LEMMA KeywordDone ==
  ASSUME NEW w
  PROVE  Keyword!Done(w).pc \in {"idle", "row"}
  BY DEF Keyword!Done, Keyword!NextRow, Keyword!Work, Keyword!Idle

\* Every operation on the table and every step of a test preserves the invariant.
LEMMA KeywordAgeSteps == KeywordAgeInv /\ [Keyword!Next]_kVars => KeywordAgeInv'
  <1> USE DEF KeywordAgeInv, Keyword!Goto
  <1> SUFFICES ASSUME KeywordAgeInv, [Keyword!Next]_kVars PROVE KeywordAgeInv'
    OBVIOUS
  <1>1. ASSUME NEW h \in Handlers, NEW w, kWork' = [kWork EXCEPT ![h] = w],
               w.pc \in {"idle", "row", "list"}, kVersion' \in {kVersion, kVersion + 1},
               UNCHANGED kMatcher
        PROVE  KeywordAgeInv'
    BY <1>1
  <1>2. ASSUME NEW h \in Handlers, Keyword!HandleTest(h) \/ Keyword!HandleImport(h)
        PROVE  KeywordAgeInv'
    <2>1. PICK w : /\ kWork' = [kWork EXCEPT ![h] = w] /\ w.pc \in {"list", "row"}
                   /\ UNCHANGED <<kVersion, kMatcher>>
      BY <1>2 DEF Keyword!HandleTest, Keyword!HandleImport, Keyword!Work
    <2> QED
      BY <1>1, <2>1
  <1>3. ASSUME NEW h \in Handlers, Keyword!SkipRow(h) PROVE KeywordAgeInv'
    <2>1. Keyword!NextRow(kWork[h].row).pc \in {"idle", "row"}
      BY DEF Keyword!NextRow, Keyword!Work, Keyword!Idle
    <2> QED
      BY <1>1, <1>3, <2>1 DEF Keyword!SkipRow
  <1>4. ASSUME NEW h \in Handlers, Keyword!List(h) PROVE KeywordAgeInv'
    <2>1. CASE kWork' = [kWork EXCEPT ![h] = Keyword!Done(kWork[h])]
      BY <1>1, <1>4, <2>1, KeywordDone DEF Keyword!List
    <2> DEFINE S == {kVersion} \cup {kWork[g].list.version : g \in Keyword!Pending}
               keywords == {kTable[i] : i \in KeywordIds} \ {None}
               w == [pc |-> "load", task |-> kWork[h].task, row |-> kWork[h].row,
                     list |-> [version |-> kVersion, keywords |-> keywords],
                     floor |-> Keyword!Oldest(S)]
    <2>2. CASE kWork' = [kWork EXCEPT ![h] = w]
      <3>1. S \in SUBSET Nat /\ S # {} /\ kVersion \in S
        BY DEF Keyword!Pending
      <3>2. /\ \A g \in Handlers : kWork[g].pc = "load" => kWork[g].list.version \in S
            /\ \A v \in S : v <= kVersion
        BY DEF Keyword!Pending
      <3> HIDE DEF S, keywords
      <3>3. Keyword!Oldest(S) \in Nat /\ \A v \in S : Keyword!Oldest(S) <= v
        BY <3>1, OldestIsLeast
      <3>4. UNCHANGED <<kVersion, kMatcher>>
        BY <1>4 DEF Keyword!List
      <3> QED
        BY <2>2, <3>1, <3>2, <3>3, <3>4
    <2> QED
      BY <1>4, <2>1, <2>2 DEF Keyword!List
  <1>5. ASSUME NEW h \in Handlers, Keyword!LoadKeywords(h) PROVE KeywordAgeInv'
    <2>1. /\ kWork[h].pc = "load" /\ kMatcher'.version = kWork[h].list.version
          /\ UNCHANGED kVersion
      BY <1>5 DEF Keyword!LoadKeywords, Keyword!Compile
    <2>2. CASE kWork' = [kWork EXCEPT ![h] = [pc |-> "match", task |-> "test",
                                              floor |-> kWork[h].floor]]
      BY <2>1, <2>2
    <2>3. CASE kWork' = [kWork EXCEPT ![h] = Keyword!Done(kWork[h])]
      BY <2>1, <2>3, KeywordDone
    <2> QED
      BY <1>5, <2>2, <2>3 DEF Keyword!LoadKeywords
  <1>6. ASSUME NEW h \in Handlers, Keyword!MatchContent(h) PROVE KeywordAgeInv'
    BY <1>6 DEF Keyword!MatchContent
  <1>7. ASSUME NEW h \in Handlers, Keyword!Answer(h) PROVE KeywordAgeInv'
    BY <1>7 DEF Keyword!Answer, Keyword!Idle
  <1>8. ASSUME NEW h \in Handlers, NEW i \in KeywordIds,
               \/ Keyword!HandleCreate(h, i) \/ Keyword!HandleUpdate(h, i)
               \/ Keyword!HandleDelete(h, i) \/ Keyword!ImportRow(h, i)
        PROVE  KeywordAgeInv'
    <2>1. PICK task, n : /\ kWork' = [kWork EXCEPT ![h] = Keyword!Work("list", task, n)]
                         /\ kVersion' = kVersion + 1 /\ UNCHANGED kMatcher
      BY <1>8, Zenon
         DEF Keyword!HandleCreate, Keyword!HandleUpdate, Keyword!HandleDelete,
             Keyword!ImportRow, Keyword!Create, Keyword!Update, Keyword!Delete, Keyword!Store
    <2>2. Keyword!Work("list", task, n).pc = "list"
      BY DEF Keyword!Work
    <2> QED
      BY <1>1, <2>1, <2>2
  <1>9. CASE UNCHANGED kVars
    BY <1>9 DEF kVars
  <1> QED
    BY <1>2, <1>3, <1>4, <1>5, <1>6, <1>7, <1>8, <1>9 DEF Keyword!Next

\* Where the empty keywords are: nowhere, unless an update has stored one.
KeywordOriginInv ==
    /\ DOMAIN kTable = KeywordIds
    /\ DOMAIN kWork = Handlers
    /\ \A h \in Handlers :
           /\ kWork[h].pc = "row" => kWork[h].row \in 1..Len(Csv)
           /\ kWork[h].pc \in {"list", "load"} /\ kWork[h].task = "import" =>
                  kWork[h].row \in 1..Len(Csv)
    /\ \A i \in KeywordIds : kTable[i] # None => kTable[i] \in Keyword!Keyword
    /\ kEmptied \in BOOLEAN
    /\ ~kEmptied =>
           /\ \A i \in KeywordIds : kTable[i] # None => ~kTable[i].empty
           /\ \A h \in Handlers :
                  kWork[h].pc = "load" => \A kw \in kWork[h].list.keywords : ~kw.empty
           /\ ~kMatcher.endless
           /\ \A h \in Handlers : kWork[h].pc # "endless"

\* The table is empty at first.
LEMMA KeywordOriginStart == Keyword!Init => KeywordOriginInv
  <1> SUFFICES ASSUME Keyword!Init PROVE KeywordOriginInv
    OBVIOUS
  <1>1. ~kMatcher.endless
    <2>1. kMatcher.endless = \E kw \in {} : kw.enabled /\ kw.valid /\ kw.empty
      BY DEF Keyword!Init, Keyword!Compile
    <2> QED
      BY <2>1, Zenon
  <1> QED
    BY <1>1 DEF Keyword!Init, Keyword!Idle, KeywordOriginInv

\* Where a handler goes that ends a row of an import.
LEMMA KeywordNextRow ==
  ASSUME NEW n \in 1..Len(Csv)
  PROVE  LET w == Keyword!NextRow(n)
         IN  w.pc \in {"idle", "row"} /\ (w.pc = "row" => w.row \in 1..Len(Csv))
  BY ConsoleAssumption DEF Keyword!NextRow, Keyword!Work, Keyword!Idle

\* What creates and imports store is not empty.
LEMMA ImportedKeyword ==
  ASSUME NEW kw \in Keyword!Keyword
  PROVE  Keyword!Imported(kw) \in Keyword!Keyword /\ Keyword!Imported(kw).empty = kw.empty
  BY DEF Keyword!Imported, Keyword!Keyword

\* Every operation on the table and every step of a test preserves the invariant.
LEMMA KeywordOriginSteps == KeywordOriginInv /\ [Keyword!Next]_kVars => KeywordOriginInv'
  <1> USE ConsoleAssumption DEF KeywordOriginInv, Keyword!Goto
  <1> SUFFICES ASSUME KeywordOriginInv, [Keyword!Next]_kVars PROVE KeywordOriginInv'
    OBVIOUS
  <1>1. ASSUME NEW h \in Handlers, NEW w, kWork' = [kWork EXCEPT ![h] = w],
               w.pc \in {"idle", "row", "list", "match", "matched"},
               w.pc = "row" => w.row \in 1..Len(Csv),
               w.pc = "list" /\ w.task = "import" => w.row \in 1..Len(Csv),
               UNCHANGED <<kTable, kMatcher, kEmptied>>
        PROVE  KeywordOriginInv'
    BY <1>1
  <1>2. ASSUME NEW h \in Handlers, NEW i \in KeywordIds, NEW kw, NEW task, NEW row,
               kw # None => kw \in Keyword!Keyword, ~kEmptied' /\ kw # None => ~kw.empty,
               task = "import" => row \in 1..Len(Csv),
               kTable' = [kTable EXCEPT ![i] = kw], kEmptied' \in BOOLEAN,
               kEmptied => kEmptied', UNCHANGED kMatcher,
               kWork' = [kWork EXCEPT ![h] = Keyword!Work("list", task, row)]
        PROVE  KeywordOriginInv'
    BY <1>2 DEF Keyword!Work
  <1>3. ASSUME NEW h \in Handlers, Keyword!HandleTest(h) \/ Keyword!HandleImport(h)
        PROVE  KeywordOriginInv'
    <2>1. CASE Keyword!HandleTest(h)
      BY <1>1, <2>1 DEF Keyword!HandleTest, Keyword!Work
    <2>2. CASE Keyword!HandleImport(h)
      BY <1>1, <2>2 DEF Keyword!HandleImport, Keyword!Work
    <2> QED
      BY <1>3, <2>1, <2>2
  <1>4. ASSUME NEW h \in Handlers, Keyword!SkipRow(h) PROVE KeywordOriginInv'
    BY <1>1, <1>4, KeywordNextRow DEF Keyword!SkipRow
  <1>5. ASSUME NEW h \in Handlers, kWork[h].pc \in {"list", "load"}
        PROVE  LET w == Keyword!Done(kWork[h])
               IN  w.pc \in {"idle", "row"} /\ (w.pc = "row" => w.row \in 1..Len(Csv))
    BY <1>5, KeywordNextRow DEF Keyword!Done, Keyword!Idle
  <1>6. ASSUME NEW h \in Handlers, Keyword!List(h) PROVE KeywordOriginInv'
    <2>1. /\ kWork[h].pc = "list" /\ UNCHANGED <<kTable, kMatcher, kEmptied>>
      BY <1>6 DEF Keyword!List
    <2>2. CASE kWork' = [kWork EXCEPT ![h] = Keyword!Done(kWork[h])]
      BY <1>1, <1>5, <2>1, <2>2
    <2> DEFINE keywords == {kTable[i] : i \in KeywordIds} \ {None}
    <2>3. ASSUME NEW floor,
                 kWork' = [kWork EXCEPT ![h] =
                              [pc |-> "load", task |-> kWork[h].task, row |-> kWork[h].row,
                               list |-> [version |-> kVersion, keywords |-> keywords],
                               floor |-> floor]]
          PROVE  KeywordOriginInv'
      <3>1. ~kEmptied => \A kw \in keywords : ~kw.empty
        OBVIOUS
      <3> HIDE DEF keywords
      <3> QED
        BY <2>1, <2>3, <3>1
    <2> QED
      BY <1>6, <2>2, <2>3 DEF Keyword!List
  <1>7. ASSUME NEW h \in Handlers, Keyword!LoadKeywords(h) PROVE KeywordOriginInv'
    <2>1. /\ kWork[h].pc = "load" /\ UNCHANGED <<kTable, kEmptied>>
          /\ kMatcher' = Keyword!Compile(kWork[h].list)
      BY <1>7 DEF Keyword!LoadKeywords
    <2>2. ~kEmptied => ~kMatcher'.endless
      BY <2>1 DEF Keyword!Compile
    <2>3. CASE kWork' = [kWork EXCEPT ![h] = [pc |-> "match", task |-> "test",
                                              floor |-> kWork[h].floor]]
      BY <2>1, <2>2, <2>3
    <2>4. CASE kWork' = [kWork EXCEPT ![h] = Keyword!Done(kWork[h])]
      BY <1>5, <2>1, <2>2, <2>4
    <2> QED
      BY <1>7, <2>3, <2>4 DEF Keyword!LoadKeywords
  <1>8. ASSUME NEW h \in Handlers, Keyword!MatchContent(h) PROVE KeywordOriginInv'
    BY <1>8 DEF Keyword!MatchContent
  <1>9. ASSUME NEW h \in Handlers, Keyword!Answer(h) PROVE KeywordOriginInv'
    BY <1>1, <1>9 DEF Keyword!Answer, Keyword!Idle
  <1>10. ASSUME NEW h \in Handlers, NEW i \in KeywordIds,
                Keyword!HandleCreate(h, i) \/ Keyword!HandleUpdate(h, i)
         PROVE  KeywordOriginInv'
    <2>1. PICK kw \in KeywordInputs :
              /\ kTable' = [kTable EXCEPT ![i] = kw]
              /\ kEmptied' \in BOOLEAN /\ (kEmptied => kEmptied')
              /\ ~kEmptied' => ~kw.empty
              /\ UNCHANGED kMatcher
              /\ kWork' = [kWork EXCEPT ![h] = Keyword!Work("list", "edit", 0)]
      BY <1>10 DEF Keyword!HandleCreate, Keyword!HandleUpdate, Keyword!Create,
                   Keyword!Update, Keyword!Store
    <2> QED
      BY <1>2, <2>1
  <1>11. ASSUME NEW h \in Handlers, NEW i \in KeywordIds, Keyword!HandleDelete(h, i)
         PROVE  KeywordOriginInv'
    BY <1>2, <1>11 DEF Keyword!HandleDelete, Keyword!Delete, Keyword!Store
  <1>12. ASSUME NEW h \in Handlers, NEW i \in KeywordIds, Keyword!ImportRow(h, i)
         PROVE  KeywordOriginInv'
    <2> DEFINE row == kWork[h].row
    <2>1. row \in 1..Len(Csv) /\ Csv[row] \in Keyword!Keyword
      BY <1>12 DEF Keyword!ImportRow
    <2>2. /\ Keyword!Imported(Csv[row]) \in Keyword!Keyword
          /\ ~Keyword!Imported(Csv[row]).empty
      BY <1>12, <2>1, ImportedKeyword DEF Keyword!ImportRow
    <2> QED
      BY <1>2, <1>12, <2>1, <2>2 DEF Keyword!ImportRow, Keyword!Create, Keyword!Store
  <1>13. CASE UNCHANGED kVars
    BY <1>13 DEF kVars
  <1> QED
    BY <1>3, <1>4, <1>6, <1>7, <1>8, <1>9, <1>10, <1>11, <1>12, <1>13 DEF Keyword!Next

\* A test of keywords ends unless an update stored an empty keyword, and uses a
\* list no older than the table when it began, or than the lists then on their
\* way, for any number of requests and keywords (keywords/manager.go,
\* TestKeywords; matcher.go, matchPartial).
THEOREM KeywordTestsAnswer == ConsoleSpec => []TestsAnswer
  <1>1. ConsoleInit => KeywordAgeInv /\ KeywordOriginInv
    BY KeywordAgeStart, KeywordOriginStart DEF ConsoleInit
  <1>2. /\ KeywordAgeInv /\ KeywordOriginInv
        /\ [ConsoleNext]_consoleVars
        => (KeywordAgeInv /\ KeywordOriginInv)'
    <2>1. [ConsoleNext]_consoleVars => [Keyword!Next]_kVars
      BY DEF ConsoleNext, consoleVars
    <2> QED
      BY <2>1, KeywordAgeSteps, KeywordOriginSteps
  <1>3. KeywordAgeInv /\ KeywordOriginInv => TestsAnswer
    BY DEF KeywordAgeInv, KeywordOriginInv, TestsAnswer, Keyword!TestsAnswer,
           Keyword!TestIsRecent, Keyword!OnlyUpdatesHang
  <1> QED
    BY <1>1, <1>2, <1>3, PTL DEF ConsoleSpec

----------------------------------------------------------------------------
(* Incidents: the trail of notes *)

\* The row of an incident whose status nobody else explains any more than before:
\* what explains it is in the row or is a note that is about to be added.
InRow(row) ==
    \/ row.status = row.first
    \/ row.status = "INVESTIGATING" /\ row.assigned
    \/ row.status = "RESOLVED" /\ row.resolved
Notes(w, i, status) == w.pc = "note" /\ w.note.inc = i /\ w.note.new = status

TrailInv ==
    /\ DOMAIN nIncs = IncidentIds
    /\ DOMAIN nWork = Handlers
    /\ \A i \in IncidentIds : nIncs[i] = None \/ nIncs[i] \in Incident!Incident
    /\ \A h \in Handlers :
           nWork[h].pc = "status" =>
               /\ nWork[h].inc \in IncidentIds /\ nIncs[nWork[h].inc] # None
               /\ nWork[h].new \in Incident!Statuses
    /\ nFaulty \in BOOLEAN
    /\ ~nFaulty =>
           \A i \in IncidentIds :
               nIncs[i] # None =>
                   \/ InRow(nIncs[i])
                   \/ \E note \in nNotes : note.inc = i /\ note.new = nIncs[i].status
                   \/ \E h \in Handlers : Notes(nWork[h], i, nIncs[i].status)

\* There is no incident at first.
LEMMA TrailStart == Incident!Init => TrailInv
  <1> SUFFICES ASSUME Incident!Init PROVE TrailInv
    OBVIOUS
  <1>1. /\ nIncs = [i \in IncidentIds |-> None] /\ nFaulty = FALSE
        /\ nWork = [h \in Handlers |-> [pc |-> "idle"]]
    BY DEF Incident!Init, Incident!Idle
  <1> QED
    BY <1>1 DEF TrailInv

\* A statement that fails leaves incidents and notes alone.
LEMMA TrailFails ==
  ASSUME TrailInv, NEW h \in Handlers, NEW w, w.pc # "status", Incident!Fails(h, w)
  PROVE  TrailInv'
  BY DEF TrailInv, Incident!Fails, Incident!Goto

\* A handler without a note goes on, and the tables stay as they are.
LEMMA TrailRests ==
  ASSUME TrailInv, NEW h \in Handlers, NEW w, nWork[h].pc # "note",
         nWork' = [nWork EXCEPT ![h] = w], UNCHANGED <<nIncs, nNotes, nFaulty>>,
         w.pc = "status" =>
             /\ w.inc \in IncidentIds /\ nIncs[w.inc] # None
             /\ w.new \in Incident!Statuses
  PROVE  TrailInv'
  BY DEF TrailInv, Notes

\* A handler without a note writes a row that explains its status, or whose status
\* the handler's next note gives.
LEMMA TrailWrites ==
  ASSUME TrailInv, NEW h \in Handlers, NEW i \in IncidentIds, NEW w, NEW row,
         nWork[h].pc # "note", w.pc # "status", nIncs[i] # None,
         row \in Incident!Incident,
         \/ InRow(row)
         \/ Notes(w, i, row.status)
         \/ row.status = nIncs[i].status /\ ~InRow(nIncs[i]),
         Incident!Write(h, i, row, w)
  PROVE  TrailInv'
  <1>1. CASE Incident!Fails(h, Incident!Idle)
    BY <1>1, TrailFails DEF Incident!Idle
  <1>2. CASE /\ nIncs' = [nIncs EXCEPT ![i] = row]
             /\ nWork' = [nWork EXCEPT ![h] = w]
             /\ UNCHANGED <<nNotes, nFaulty>>
    <2>1. row # None
      BY ConsoleAssumption
    <2>2. ASSUME NEW j \in IncidentIds, ~nFaulty', nIncs'[j] # None
          PROVE  \/ InRow(nIncs'[j])
                 \/ \E note \in nNotes' : note.inc = j /\ note.new = nIncs'[j].status
                 \/ \E g \in Handlers : Notes(nWork'[g], j, nIncs'[j].status)
      <3>1. CASE j # i
        BY <1>2, <2>2, <3>1 DEF TrailInv, Notes
      <3>2. CASE j = i
        <4>1. nIncs'[j] = row /\ nWork'[h] = w
          BY <1>2, <3>2 DEF TrailInv
        <4>2. CASE InRow(row) \/ Notes(w, i, row.status)
          BY <3>2, <4>1, <4>2
        <4>3. CASE row.status = nIncs[i].status /\ ~InRow(nIncs[i])
          <5>1. \/ \E note \in nNotes : note.inc = i /\ note.new = nIncs[i].status
                \/ \E g \in Handlers \ {h} : Notes(nWork[g], i, nIncs[i].status)
            BY <1>2, <2>2, <4>3 DEF TrailInv, Notes
          <5> QED
            BY <1>2, <3>2, <4>1, <4>3, <5>1 DEF TrailInv
        <4> QED
          BY <4>2, <4>3
      <3> QED
        BY <3>1, <3>2
    <2>3. \A g \in Handlers :
              nWork'[g].pc = "status" =>
                  /\ nWork'[g].inc \in IncidentIds /\ nIncs'[nWork'[g].inc] # None
                  /\ nWork'[g].new \in Incident!Statuses
      BY <1>2, <2>1 DEF TrailInv
    <2> QED
      BY <1>2, <2>2, <2>3 DEF TrailInv
  <1> QED
    BY <1>1, <1>2 DEF Incident!Write, Incident!Goto

\* The rows the operations write.
LEMMA TrailRows ==
  ASSUME NEW row \in Incident!Incident, NEW status \in Incident!Statuses
  PROVE  /\ Incident!WithStatus(row, status) \in Incident!Incident
         /\ Incident!WithStatus(row, status).status = status
         /\ Incident!Closed(row, status) \in Incident!Incident
         /\ Incident!Closed(row, status).status = status
         /\ InRow(Incident!Closed(row, "RESOLVED"))
         /\ Incident!Assigned(row) \in Incident!Incident
         /\ \/ InRow(Incident!Assigned(row))
            \/ Incident!Assigned(row).status = row.status /\ ~InRow(row)
  <1> USE DEF Incident!Incident, Incident!Statuses
  <1>1. /\ Incident!WithStatus(row, status) \in Incident!Incident
        /\ Incident!WithStatus(row, status).status = status
    BY DEF Incident!WithStatus
  <1>2. /\ Incident!Closed(row, status) \in Incident!Incident
        /\ Incident!Closed(row, status).status = status
    BY DEF Incident!Closed
  <1>3. InRow(Incident!Closed(row, "RESOLVED"))
    BY DEF Incident!Closed, InRow
  <1>4. /\ Incident!Assigned(row) \in Incident!Incident
        /\ \/ InRow(Incident!Assigned(row))
           \/ Incident!Assigned(row).status = row.status /\ ~InRow(row)
    <2> DEFINE held == [row EXCEPT !.assigned = TRUE]
               status2 == IF row.status = "OPEN" THEN "INVESTIGATING" ELSE row.status
    <2>1. /\ held \in Incident!Incident /\ held.status = row.status
          /\ held.first = row.first /\ held.resolved = row.resolved /\ held.assigned
      OBVIOUS
    <2>2. Incident!Assigned(row) = [held EXCEPT !.status = status2]
      BY DEF Incident!Assigned
    <2> HIDE DEF held
    <2>3. /\ Incident!Assigned(row) \in Incident!Incident
          /\ Incident!Assigned(row).status = status2
          /\ Incident!Assigned(row).first = row.first
          /\ Incident!Assigned(row).resolved = row.resolved
          /\ Incident!Assigned(row).assigned
      BY <2>1, <2>2
    <2> QED
      BY <2>3 DEF InRow
  <1> QED
    BY <1>1, <1>2, <1>3, <1>4

\* Every statement on incidents and notes preserves the invariant.
LEMMA TrailSteps == TrailInv /\ [Incident!Next]_nVars => TrailInv'
  <1> SUFFICES ASSUME TrailInv, [Incident!Next]_nVars PROVE TrailInv'
    OBVIOUS
  <1> USE DEF Incident!Goto
  <1>1. ASSUME NEW h \in Handlers, NEW i \in IncidentIds, Incident!Asks(h, i)
        PROVE  /\ nWork[h].pc = "idle" /\ nIncs[i] # None
               /\ nIncs[i] \in Incident!Incident
    BY <1>1 DEF Incident!Asks, Incident!Idle, Incident!Known, TrailInv
  <1>2. ASSUME NEW h \in Handlers,
               \/ Incident!ReceiveEventBatch(h) \/ Incident!StoreEvent(h)
               \/ Incident!RulesChecked(h) \/ Incident!Reply(h)
        PROVE  TrailInv'
    <2>1. \A n : Incident!NextEvent(n).pc \in {"event", "reply"}
      BY DEF Incident!NextEvent, Incident!AtEvent
    <2>2. CASE Incident!ReceiveEventBatch(h)
      <3>1. CASE UNCHANGED nWork
        BY <2>2, <3>1 DEF Incident!ReceiveEventBatch, TrailInv
      <3>2. CASE nWork' = [nWork EXCEPT ![h] = Incident!AtEvent(1)]
        <4>1. nWork[h].pc = "idle" /\ Incident!AtEvent(1).pc = "event"
          BY <2>2 DEF Incident!ReceiveEventBatch, Incident!AtEvent, Incident!Idle
        <4>2. UNCHANGED <<nIncs, nNotes, nFaulty>>
          BY <2>2 DEF Incident!ReceiveEventBatch
        <4> QED
          BY <3>2, <4>1, <4>2, TrailRests
      <3> QED
        BY <2>2, <3>1, <3>2 DEF Incident!ReceiveEventBatch
    <2>3. CASE Incident!StoreEvent(h)
      <3> DEFINE n == nWork[h].n
      <3>1. CASE nWork' = [nWork EXCEPT ![h] = Incident!AtRules(n, Incident!Triggered(n))]
                 /\ UNCHANGED <<nIncs, nNotes, nFaulty>>
        BY <2>3, <3>1, TrailRests DEF Incident!StoreEvent, Incident!AtRules
      <3>2. CASE Incident!Fails(h, Incident!NextEvent(n))
        BY <2>1, <3>2, TrailFails
      <3> QED
        BY <2>3, <3>1, <3>2 DEF Incident!StoreEvent
    <2>4. CASE Incident!RulesChecked(h)
      BY <2>1, <2>4, TrailRests DEF Incident!RulesChecked
    <2>5. CASE Incident!Reply(h)
      BY <2>5, TrailRests DEF Incident!Reply, Incident!Idle
    <2> QED
      BY <1>2, <2>2, <2>3, <2>4, <2>5
  <1>3. ASSUME NEW i \in IncidentIds, NEW row, row \in Incident!Incident, InRow(row),
               nIncs[i] = None, nIncs' \in {nIncs, [nIncs EXCEPT ![i] = row]},
               UNCHANGED <<nNotes, nWork, nFaulty>>
        PROVE  TrailInv'
    BY <1>3, ConsoleAssumption DEF TrailInv, InRow, Notes
  <1>4. ASSUME NEW h \in Handlers, NEW i \in IncidentIds, Incident!createIncident(h, i)
        PROVE  TrailInv'
    <2>1. PICK rule \in nWork[h].todo :
              LET next == Incident!AtRules(nWork[h].n, nWork[h].todo \ {rule})
              IN  \/ /\ nIncs' = Incident!Insert(i, Incident!Row(Incident!RuleColumns, "OPEN"))
                     /\ nWork' = [nWork EXCEPT ![h] = next]
                     /\ UNCHANGED <<nNotes, nFaulty>>
                  \/ Incident!Fails(h, next)
      BY <1>4 DEF Incident!createIncident
    <2> DEFINE next == Incident!AtRules(nWork[h].n, nWork[h].todo \ {rule})
    <2>2. next.pc = "rules" /\ nWork[h].pc = "rules"
      BY <1>4 DEF Incident!AtRules, Incident!createIncident
    <2>3. ~(Incident!Required \subseteq Incident!Row(Incident!RuleColumns, "OPEN").given)
      BY DEF Incident!Required, Incident!Row, Incident!RuleColumns
    <2> HIDE DEF next
    <2>4. CASE /\ nIncs' = Incident!Insert(i, Incident!Row(Incident!RuleColumns, "OPEN"))
               /\ nWork' = [nWork EXCEPT ![h] = next]
               /\ UNCHANGED <<nNotes, nFaulty>>
      <3>1. nIncs' = nIncs
        BY <2>3, <2>4 DEF Incident!Insert
      <3> QED
        BY <2>2, <2>4, <3>1, TrailRests
    <2>5. CASE Incident!Fails(h, next)
      BY <2>2, <2>5, TrailFails
    <2> QED
      BY <2>1, <2>4, <2>5 DEF next
  <1>5. ASSUME NEW i \in IncidentIds, Incident!Create(i) PROVE TrailInv'
    <2>1. PICK status \in {"OPEN"} \cup GivenStatuses :
              nIncs' = Incident!Insert(i, Incident!Row(Incident!ManagerColumns, status))
      BY <1>5 DEF Incident!Create
    <2>2. status \in Incident!Statuses
      BY ConsoleAssumption DEF Incident!Statuses
    <2>3. Incident!Row(Incident!ManagerColumns, status) \in Incident!Incident
      BY <2>2 DEF Incident!Row, Incident!Incident
    <2>4. InRow(Incident!Row(Incident!ManagerColumns, status))
      BY DEF Incident!Row, InRow
    <2> QED
      BY <1>3, <1>5, <2>1, <2>3, <2>4 DEF Incident!Create, Incident!Insert
  <1>6. ASSUME NEW i, NEW kind, NEW prev, NEW new
        PROVE  /\ Incident!Noting(i, kind, prev, new).pc = "note"
               /\ Notes(Incident!Noting(i, kind, prev, new), i, new)
    BY DEF Incident!Noting, Notes
  <1>7. ASSUME NEW h \in Handlers, NEW i \in IncidentIds,
               Incident!ReadStatus(h, i) \/ Incident!HandleAddNote(h, i)
        PROVE  TrailInv'
    <2>1. CASE Incident!ReadStatus(h, i)
      <3>1. PICK status \in Incident!Statuses :
                nWork' = [nWork EXCEPT ![h] = [pc |-> "status", inc |-> i,
                                               prev |-> nIncs[i].status, new |-> status]]
        BY <2>1 DEF Incident!ReadStatus
      <3> QED
        BY <1>1, <2>1, <3>1, TrailRests DEF Incident!ReadStatus
    <2>2. CASE Incident!HandleAddNote(h, i)
      <3>1. PICK kind, prev, new :
                nWork' = [nWork EXCEPT ![h] = Incident!Noting(i, kind, prev, new)]
        BY <2>2, Zenon DEF Incident!HandleAddNote
      <3>2. Incident!Asks(h, i) /\ UNCHANGED <<nIncs, nNotes, nFaulty>>
        BY <2>2, Zenon DEF Incident!HandleAddNote
      <3> QED
        BY <1>1, <1>6, <3>1, <3>2, TrailRests
    <2> QED
      BY <1>7, <2>1, <2>2
  <1>8. ASSUME NEW h \in Handlers, NEW i \in IncidentIds, Incident!Assign(h, i)
        PROVE  TrailInv'
    <2>1. PICK kind, prev, new :
              /\ Incident!Asks(h, i)
              /\ Incident!Write(h, i, Incident!Assigned(nIncs[i]),
                                Incident!Noting(i, kind, prev, new))
      BY <1>8, Zenon DEF Incident!Assign
    <2>2. "OPEN" \in Incident!Statuses
      BY DEF Incident!Statuses
    <2> QED
      BY <1>1, <1>6, <2>1, <2>2, TrailRows, TrailWrites
  <1>9. ASSUME NEW h \in Handlers, NEW i \in IncidentIds, Incident!Escalate(h, i)
        PROVE  TrailInv'
    <2>1. PICK kind, prev :
              /\ Incident!Asks(h, i)
              /\ Incident!Write(h, i, Incident!WithStatus(nIncs[i], "ESCALATED"),
                                Incident!Noting(i, kind, prev, "ESCALATED"))
      BY <1>9, Zenon DEF Incident!Escalate
    <2>2. "ESCALATED" \in Incident!Statuses
      BY DEF Incident!Statuses
    <2> QED
      BY <1>1, <1>6, <2>1, <2>2, TrailRows, TrailWrites
  <1>10. ASSUME NEW h \in Handlers, NEW i \in IncidentIds,
                NEW status \in {"RESOLVED", "FALSE_POSITIVE"}, Incident!Resolve(h, i, status)
         PROVE  TrailInv'
    <2>1. PICK kind, prev :
              /\ Incident!Asks(h, i)
              /\ Incident!Write(h, i, Incident!Closed(nIncs[i], status),
                                Incident!Noting(i, kind, prev, status))
      BY <1>10, Zenon DEF Incident!Resolve
    <2>2. status \in Incident!Statuses
      BY DEF Incident!Statuses
    <2> QED
      BY <1>1, <1>6, <2>1, <2>2, TrailRows, TrailWrites
  <1>11. ASSUME NEW h \in Handlers, NEW i \in IncidentIds, Incident!ResolveIncident(h, i)
         PROVE  TrailInv'
    <2>1. Incident!Idle.pc = "idle" /\ "RESOLVED" \in Incident!Statuses
      BY DEF Incident!Idle, Incident!Statuses
    <2> QED
      BY <1>1, <1>11, <2>1, TrailRows, TrailWrites DEF Incident!ResolveIncident
  <1>12. ASSUME NEW h \in Handlers, Incident!UpdateStatus(h) PROVE TrailInv'
    <2> DEFINE w == nWork[h]
    <2>1. /\ w.pc = "status" /\ w.inc \in IncidentIds /\ nIncs[w.inc] # None
          /\ w.new \in Incident!Statuses /\ nIncs[w.inc] \in Incident!Incident
      BY <1>12 DEF Incident!UpdateStatus, TrailInv
    <2>2. Incident!Write(h, w.inc, Incident!WithStatus(nIncs[w.inc], w.new),
                         Incident!Noting(w.inc, "STATUS_CHANGE", w.prev, w.new))
      BY <1>12 DEF Incident!UpdateStatus
    <2> QED
      BY <1>6, <2>1, <2>2, TrailRows, TrailWrites
  <1>13. ASSUME NEW h \in Handlers, Incident!AddNote(h) PROVE TrailInv'
    <2>1. CASE Incident!Fails(h, Incident!Idle)
      BY <2>1, TrailFails DEF Incident!Idle
    <2>2. CASE /\ nNotes' = nNotes \cup {nWork[h].note}
               /\ nWork' = [nWork EXCEPT ![h] = Incident!Idle]
               /\ UNCHANGED <<nIncs, nFaulty>>
      BY <2>2 DEF TrailInv, Notes, Incident!Idle
    <2> QED
      BY <1>13, <2>1, <2>2 DEF Incident!AddNote
  <1>14. CASE UNCHANGED nVars
    BY <1>14 DEF nVars, TrailInv
  <1> QED
    BY <1>2, <1>4, <1>5, <1>7, <1>8, <1>9, <1>10, <1>11, <1>12, <1>13, <1>14
       DEF Incident!Next

\* Unless a statement failed, the notes of an incident explain its status, or the
\* row itself does, for any number of analysts at work on it
\* (incidents/manager.go: a change of the row and its note are two statements).
THEOREM NotesExplain == ConsoleSpec => []StatusExplained
  <1>1. ConsoleInit => TrailInv
    BY TrailStart DEF ConsoleInit
  <1>2. TrailInv /\ [ConsoleNext]_consoleVars => TrailInv'
    <2>1. [ConsoleNext]_consoleVars => [Incident!Next]_nVars
      BY DEF ConsoleNext, consoleVars
    <2> QED
      BY <2>1, TrailSteps
  <1>3. TrailInv => StatusExplained
    BY DEF TrailInv, StatusExplained, Incident!StatusExplained, Incident!Known, InRow, Notes
  <1> QED
    BY <1>1, <1>2, <1>3, PTL DEF ConsoleSpec

----------------------------------------------------------------------------
(* Incidents: the events of the batch *)

\* Whether a handler has still to store event n.
HasAhead(w, n) ==
    \/ w.pc = "event" /\ w.n <= n
    \/ w.pc = "rules" /\ w.n < n
Ahead(n) == {h \in Handlers : HasAhead(nWork[h], n)}

\* A handler that went past an event without a failure has stored it, and every
\* delivery stores an event once or has it still ahead.
LogsInv ==
    /\ nLogs \in [DOMAIN Batch -> Nat]
    /\ nSends \in Nat
    /\ nFaulty \in BOOLEAN
    /\ DOMAIN nWork = Handlers
    /\ \A h \in Handlers :
           nWork[h].pc \in {"event", "rules"} => nWork[h].n \in DOMAIN Batch
    /\ ~nFaulty =>
           /\ nAcked => \A m \in DOMAIN Batch : nLogs[m] > 0
           /\ \A h \in Handlers :
                  nWork[h].pc \in {"event", "rules", "reply"} =>
                      \A m \in DOMAIN Batch : ~HasAhead(nWork[h], m) => nLogs[m] > 0
    /\ \A n \in DOMAIN Batch : nLogs[n] + Cardinality(Ahead(n)) <= nSends

\* Nothing was sent at first.
LEMMA LogsStart == Incident!Init => LogsInv
  <1> SUFFICES ASSUME Incident!Init PROVE LogsInv
    OBVIOUS
  <1>1. /\ nLogs = [n \in DOMAIN Batch |-> 0] /\ nSends = 0 /\ nFaulty = FALSE
        /\ nAcked = FALSE /\ nWork = [h \in Handlers |-> [pc |-> "idle"]]
    BY DEF Incident!Init, Incident!Idle
  <1>2. \A n : Ahead(n) = {}
    BY <1>1 DEF Ahead, HasAhead
  <1>3. \A n \in DOMAIN Batch : nLogs[n] = 0 /\ Cardinality(Ahead(n)) = 0
    BY <1>1, <1>2, FS_EmptySet
  <1>4. nLogs \in [DOMAIN Batch -> Nat]
    BY <1>1
  <1>5. DOMAIN nWork = Handlers /\ \A h \in Handlers : nWork[h].pc = "idle"
    BY <1>1
  <1>6. nSends = 0 /\ nFaulty = FALSE /\ nAcked = FALSE
    BY <1>1
  <1>7. \A n \in DOMAIN Batch : nLogs[n] + Cardinality(Ahead(n)) <= nSends
    BY <1>3, <1>6
  <1>8. \A h \in Handlers : nWork[h].pc \notin {"event", "rules", "reply"}
    BY <1>5
  <1> QED
    BY <1>4, <1>5, <1>6, <1>7, <1>8 DEF LogsInv

\* The deliveries that have an event ahead are finitely many.
LEMMA AheadFinite ==
  ASSUME NEW n
  PROVE  IsFiniteSet(Ahead(n)) /\ Cardinality(Ahead(n)) \in Nat
  <1>1. Ahead(n) \subseteq Handlers
    BY DEF Ahead
  <1> QED
    BY <1>1, ConsoleAssumption, FS_Subset, FS_CardinalityType

\* A handler goes on without storing an event: it has no event ahead that was not
\* ahead of it before, and loses one from its sight only after a failure.
LEMMA LogsRest ==
  ASSUME LogsInv, NEW h \in Handlers, NEW w, nWork' = [nWork EXCEPT ![h] = w],
         w.pc \in {"event", "rules"} => w.n \in DOMAIN Batch,
         \A n \in DOMAIN Batch : HasAhead(w, n) => HasAhead(nWork[h], n),
         nFaulty' \in BOOLEAN, nFaulty => nFaulty',
         ~nFaulty' /\ w.pc \in {"event", "rules", "reply"} =>
             \A n \in DOMAIN Batch : ~HasAhead(w, n) => nLogs[n] > 0,
         ~nFaulty' /\ nAcked' => \A n \in DOMAIN Batch : nLogs[n] > 0,
         UNCHANGED <<nLogs, nSends>>
  PROVE  LogsInv'
  <1>1. ASSUME NEW n \in DOMAIN Batch PROVE nLogs'[n] + Cardinality(Ahead(n)') <= nSends'
    <2>1. Ahead(n)' \subseteq Ahead(n)
      BY DEF Ahead, LogsInv
    <2>2. Cardinality(Ahead(n)') \in Nat /\ Cardinality(Ahead(n)') <= Cardinality(Ahead(n))
      BY <2>1, AheadFinite, FS_Subset, FS_CardinalityType
    <2> QED
      BY <2>2, AheadFinite DEF LogsInv
  <1>2. \A g \in Handlers : g # h => nWork'[g] = nWork[g]
    BY DEF LogsInv
  <1>3. nWork'[h] = w /\ DOMAIN nWork' = Handlers
    BY DEF LogsInv
  <1>4. \A g \in Handlers :
            nWork'[g].pc \in {"event", "rules"} => nWork'[g].n \in DOMAIN Batch
    BY <1>2, <1>3 DEF LogsInv
  <1>5. ~nFaulty' =>
            \A g \in Handlers :
                nWork'[g].pc \in {"event", "rules", "reply"} =>
                    \A m \in DOMAIN Batch : ~HasAhead(nWork'[g], m) => nLogs'[m] > 0
    BY <1>2, <1>3 DEF LogsInv
  <1> QED
    BY <1>1, <1>3, <1>4, <1>5 DEF LogsInv

\* A delivery begins: every event is ahead of one more handler at most.
LEMMA LogsBegin ==
  ASSUME LogsInv, NEW h \in Handlers, Incident!ReceiveEventBatch(h)
  PROVE  LogsInv'
  <1>1. /\ nSends' = nSends + 1 /\ nWork[h].pc = "idle"
        /\ UNCHANGED <<nLogs, nAcked, nFaulty>>
        /\ \/ nWork' = [nWork EXCEPT ![h] = Incident!AtEvent(1)]
           \/ UNCHANGED nWork
    BY DEF Incident!ReceiveEventBatch, Incident!Idle, Incident!Goto
  <1>2. /\ Incident!AtEvent(1).pc = "event" /\ Incident!AtEvent(1).n = 1
        /\ 1 \in DOMAIN Batch
        /\ \A n \in DOMAIN Batch : HasAhead(Incident!AtEvent(1), n)
    BY ConsoleAssumption DEF Incident!AtEvent, HasAhead
  <1>3. ASSUME NEW n \in DOMAIN Batch PROVE nLogs'[n] + Cardinality(Ahead(n)') <= nSends'
    <2>1. Ahead(n)' \subseteq Ahead(n) \cup {h}
      BY <1>1 DEF Ahead, LogsInv
    <2>2. /\ IsFiniteSet(Ahead(n) \cup {h}) /\ Cardinality(Ahead(n) \cup {h}) \in Nat
          /\ Cardinality(Ahead(n) \cup {h}) <= Cardinality(Ahead(n)) + 1
      <3>1. IsFiniteSet(Ahead(n)) /\ Cardinality(Ahead(n)) \in Nat
        BY AheadFinite
      <3> DEFINE S == Ahead(n)
      <3> HIDE DEF S
      <3>2. /\ IsFiniteSet(S \cup {h})
            /\ Cardinality(S \cup {h}) =
                   IF h \in S THEN Cardinality(S) ELSE Cardinality(S) + 1
        BY <3>1, FS_AddElement DEF S
      <3> QED
        BY <3>1, <3>2 DEF S
    <2>3. Cardinality(Ahead(n)') <= Cardinality(Ahead(n) \cup {h}) /\ Cardinality(Ahead(n)') \in Nat
      BY <2>1, <2>2, FS_Subset, FS_CardinalityType
    <2> QED
      BY <1>1, <2>2, <2>3, AheadFinite DEF LogsInv
  <1>4. ASSUME NEW g \in Handlers
        PROVE  \/ nWork'[g] = nWork[g]
               \/ nWork'[g] = Incident!AtEvent(1)
    BY <1>1 DEF LogsInv
  <1>5. DOMAIN nWork' = Handlers
    BY <1>1 DEF LogsInv
  <1>6. \A g \in Handlers :
            nWork'[g].pc \in {"event", "rules"} => nWork'[g].n \in DOMAIN Batch
    BY <1>2, <1>4 DEF LogsInv
  <1>7. ~nFaulty =>
            \A g \in Handlers :
                nWork'[g].pc \in {"event", "rules", "reply"} =>
                    \A m \in DOMAIN Batch : ~HasAhead(nWork'[g], m) => nLogs[m] > 0
    BY <1>2, <1>4 DEF LogsInv
  <1> QED
    BY <1>1, <1>3, <1>5, <1>6, <1>7 DEF LogsInv

\* An event is stored: it is ahead of one handler less.
LEMMA LogsStore ==
  ASSUME LogsInv, NEW h \in Handlers, nWork[h].pc = "event", NEW w, w.pc = "rules",
         w.n = nWork[h].n, nLogs' = [nLogs EXCEPT ![nWork[h].n] = @ + 1],
         nWork' = [nWork EXCEPT ![h] = w], UNCHANGED <<nSends, nAcked, nFaulty>>
  PROVE  LogsInv'
  <1> DEFINE n == nWork[h].n
  <1>1. n \in DOMAIN Batch /\ n \in Nat
    BY ConsoleAssumption DEF LogsInv
  <1>2. nLogs' \in [DOMAIN Batch -> Nat] /\ nLogs'[n] = nLogs[n] + 1
    BY <1>1 DEF LogsInv
  <1>3. \A m \in DOMAIN Batch : nLogs'[m] >= nLogs[m] /\ (m # n => nLogs'[m] = nLogs[m])
    BY <1>1 DEF LogsInv
  <1>4. \A m \in DOMAIN Batch : HasAhead(w, m) <=> HasAhead(nWork[h], m) /\ m # n
    BY <1>1, ConsoleAssumption DEF HasAhead
  <1>5. HasAhead(nWork[h], n)
    BY <1>1 DEF HasAhead
  <1>6. nWork'[h] = w /\ \A g \in Handlers : g # h => nWork'[g] = nWork[g]
    BY DEF LogsInv
  <1> HIDE DEF n
  <1>7. ASSUME NEW m \in DOMAIN Batch PROVE nLogs'[m] + Cardinality(Ahead(m)') <= nSends'
    <2>1. CASE m = n
      <3>1. Ahead(m)' = Ahead(m) \ {h} /\ h \in Ahead(m)
        BY <1>4, <1>5, <1>6, <2>1 DEF Ahead
      <3>2. Cardinality(Ahead(m)') = Cardinality(Ahead(m)) - 1
        BY <3>1, AheadFinite, FS_RemoveElement
      <3> QED
        BY <1>2, <2>1, <3>2, AheadFinite DEF LogsInv
    <2>2. CASE m # n
      <3>1. Ahead(m)' = Ahead(m)
        BY <1>4, <1>6, <2>2 DEF Ahead
      <3> QED
        BY <1>3, <2>2, <3>1 DEF LogsInv
    <2> QED
      BY <2>1, <2>2
  <1>8. \A g \in Handlers :
            nWork'[g].pc \in {"event", "rules"} => nWork'[g].n \in DOMAIN Batch
    BY <1>1, <1>6 DEF LogsInv
  <1>9. ASSUME ~nFaulty, NEW g \in Handlers, nWork'[g].pc \in {"event", "rules", "reply"},
               NEW m \in DOMAIN Batch, ~HasAhead(nWork'[g], m)
        PROVE  nLogs'[m] > 0
    <2>1. nLogs[n] \in Nat /\ nLogs[m] \in Nat
      BY <1>1 DEF LogsInv, n
    <2>2. CASE m = n
      BY <1>2, <2>1, <2>2
    <2>3. CASE m # n
      <3>1. nLogs[m] > 0
        BY <1>4, <1>6, <1>9, <2>3 DEF LogsInv
      <3> QED
        BY <1>3, <2>1, <2>3, <3>1
    <2> QED
      BY <2>2, <2>3
  <1>10. ~nFaulty /\ nAcked => \A m \in DOMAIN Batch : nLogs'[m] > 0
    BY <1>2, <1>3 DEF LogsInv
  <1>11. DOMAIN nWork' = Handlers
    BY DEF LogsInv
  <1> QED
    BY <1>2, <1>7, <1>8, <1>9, <1>10, <1>11 DEF LogsInv

\* A handler that stores no event goes where none is ahead of it.
LEMMA LogsAside ==
  ASSUME LogsInv, NEW h \in Handlers, NEW w, nWork' = [nWork EXCEPT ![h] = w],
         w.pc \in {"idle", "status", "note"}, nFaulty' \in {nFaulty, TRUE},
         UNCHANGED <<nLogs, nSends, nAcked>>
  PROVE  LogsInv'
  <1>1. \A n : ~HasAhead(w, n)
    BY DEF HasAhead
  <1>2. nFaulty' \in BOOLEAN /\ (nFaulty => nFaulty')
    BY DEF LogsInv
  <1>3. ~nFaulty' /\ nAcked' => \A n \in DOMAIN Batch : nLogs[n] > 0
    BY <1>2 DEF LogsInv
  <1> QED
    BY <1>1, <1>2, <1>3, LogsRest

\* A handler fails on its way to w, where no more is ahead of it.
LEMMA LogsFails ==
  ASSUME LogsInv, NEW h \in Handlers, NEW w, Incident!Fails(h, w),
         w.pc \in {"event", "rules"} => w.n \in DOMAIN Batch,
         \A n \in DOMAIN Batch : HasAhead(w, n) => HasAhead(nWork[h], n)
  PROVE  LogsInv'
  <1>1. /\ nFaulty' = TRUE /\ nWork' = [nWork EXCEPT ![h] = w]
        /\ UNCHANGED <<nLogs, nSends, nAcked>>
    BY DEF Incident!Fails, Incident!Goto
  <1> QED
    BY <1>1, LogsRest

\* A handler goes on at the next event, or answers, with the same ahead of it as
\* after the rules of event n.
LEMMA AheadOfNext ==
  ASSUME NEW n \in DOMAIN Batch
  PROVE  LET w == Incident!NextEvent(n)
         IN  /\ w.pc \in {"event", "reply"}
             /\ w.pc = "event" => w.n \in DOMAIN Batch
             /\ \A m \in DOMAIN Batch : HasAhead(w, m) <=> n < m
  <1>1. CASE n < Len(Batch)
    BY <1>1, ConsoleAssumption DEF Incident!NextEvent, Incident!AtEvent, HasAhead
  <1>2. CASE n = Len(Batch)
    BY <1>2, ConsoleAssumption DEF Incident!NextEvent, HasAhead
  <1> QED
    BY <1>1, <1>2, ConsoleAssumption

\* Every statement about the events and the incidents preserves the invariant.
LEMMA LogsSteps == LogsInv /\ [Incident!Next]_nVars => LogsInv'
  <1> SUFFICES ASSUME LogsInv, [Incident!Next]_nVars PROVE LogsInv'
    OBVIOUS
  <1> USE DEF Incident!Goto
  <1>1. ASSUME NEW h \in Handlers, nWork[h].pc \in {"event", "rules"}
        PROVE  /\ nWork[h].n \in DOMAIN Batch
               /\ \A m \in DOMAIN Batch : nWork[h].n < m => HasAhead(nWork[h], m)
               /\ nWork[h].pc = "rules" =>
                      \A m \in DOMAIN Batch : HasAhead(nWork[h], m) => nWork[h].n < m
    BY <1>1, ConsoleAssumption DEF LogsInv, HasAhead
  <1>2. ASSUME NEW h \in Handlers, Incident!StoreEvent(h) PROVE LogsInv'
    <2> DEFINE n == nWork[h].n
               w == Incident!AtRules(n, Incident!Triggered(n))
    <2>1. nWork[h].pc = "event"
      BY <1>2 DEF Incident!StoreEvent
    <2>2. CASE /\ nLogs' = [nLogs EXCEPT ![n] = @ + 1]
               /\ nWork' = [nWork EXCEPT ![h] = w]
               /\ UNCHANGED <<nSends, nAcked, nFaulty>>
      <3>1. w.pc = "rules" /\ w.n = n
        BY DEF Incident!AtRules
      <3> QED
        BY <2>1, <2>2, <3>1, LogsStore
    <2>3. CASE Incident!Fails(h, Incident!NextEvent(n))
      BY <1>1, <2>1, <2>3, AheadOfNext, LogsFails
    <2> QED
      BY <1>2, <2>2, <2>3 DEF Incident!StoreEvent
  <1>3. ASSUME NEW h \in Handlers, Incident!RulesChecked(h) PROVE LogsInv'
    <2>1. /\ nWork[h].pc = "rules"
          /\ nWork' = [nWork EXCEPT ![h] = Incident!NextEvent(nWork[h].n)]
          /\ UNCHANGED <<nLogs, nSends, nAcked, nFaulty>>
      BY <1>3 DEF Incident!RulesChecked
    <2> DEFINE w == Incident!NextEvent(nWork[h].n)
    <2>2. /\ w.pc \in {"event", "rules"} => w.n \in DOMAIN Batch
          /\ \A m \in DOMAIN Batch : HasAhead(w, m) <=> HasAhead(nWork[h], m)
      BY <1>1, <2>1, AheadOfNext
    <2>3. ~nFaulty => \A m \in DOMAIN Batch : ~HasAhead(nWork[h], m) => nLogs[m] > 0
      BY <2>1 DEF LogsInv
    <2>4. ~nFaulty /\ nAcked => \A m \in DOMAIN Batch : nLogs[m] > 0
      BY DEF LogsInv
    <2>5. nFaulty \in BOOLEAN
      BY DEF LogsInv
    <2> HIDE DEF w
    <2> QED
      BY <2>1, <2>2, <2>3, <2>4, <2>5, LogsRest DEF w
  <1>4. ASSUME NEW h \in Handlers, Incident!Reply(h) PROVE LogsInv'
    <2>1. /\ nWork[h].pc = "reply" /\ nWork' = [nWork EXCEPT ![h] = Incident!Idle]
          /\ UNCHANGED <<nLogs, nSends, nFaulty>>
      BY <1>4 DEF Incident!Reply
    <2>2. \A m : ~HasAhead(nWork[h], m) /\ ~HasAhead(Incident!Idle, m)
      BY <2>1 DEF HasAhead, Incident!Idle
    <2>3. ~nFaulty => \A m \in DOMAIN Batch : nLogs[m] > 0
      BY <2>1, <2>2 DEF LogsInv
    <2>4. Incident!Idle.pc = "idle" /\ nFaulty \in BOOLEAN
      BY DEF Incident!Idle, LogsInv
    <2> QED
      BY <2>1, <2>2, <2>3, <2>4, LogsRest
  <1>5. ASSUME NEW h \in Handlers, NEW i \in IncidentIds, Incident!createIncident(h, i)
        PROVE  LogsInv'
    <2>1. PICK rule \in nWork[h].todo :
              LET next == Incident!AtRules(nWork[h].n, nWork[h].todo \ {rule})
              IN  \/ /\ nWork' = [nWork EXCEPT ![h] = next]
                     /\ UNCHANGED <<nLogs, nSends, nAcked, nFaulty>>
                  \/ Incident!Fails(h, next)
      BY <1>5 DEF Incident!createIncident
    <2> DEFINE next == Incident!AtRules(nWork[h].n, nWork[h].todo \ {rule})
    <2>2. nWork[h].pc = "rules"
      BY <1>5 DEF Incident!createIncident
    <2>3. /\ next.pc = "rules" /\ next.n = nWork[h].n /\ next.n \in DOMAIN Batch
          /\ \A m \in DOMAIN Batch : HasAhead(next, m) <=> HasAhead(nWork[h], m)
      BY <1>1, <2>2 DEF Incident!AtRules, HasAhead
    <2> HIDE DEF next
    <2>4. CASE /\ nWork' = [nWork EXCEPT ![h] = next]
               /\ UNCHANGED <<nLogs, nSends, nAcked, nFaulty>>
      <3>1. ~nFaulty => \A m \in DOMAIN Batch : ~HasAhead(nWork[h], m) => nLogs[m] > 0
        BY <2>2 DEF LogsInv
      <3>2. /\ ~nFaulty /\ nAcked => \A m \in DOMAIN Batch : nLogs[m] > 0
            /\ nFaulty \in BOOLEAN
        BY DEF LogsInv
      <3> QED
        BY <2>3, <2>4, <3>1, <3>2, LogsRest
    <2>5. CASE Incident!Fails(h, next)
      BY <2>3, <2>5, LogsFails
    <2> QED
      BY <2>1, <2>4, <2>5 DEF next
  <1>6. ASSUME NEW h \in Handlers, NEW w, w.pc \in {"idle", "status", "note"},
               Incident!Fails(h, w)
        PROVE  LogsInv'
    BY <1>6, LogsAside DEF Incident!Fails
  <1>7. ASSUME NEW h \in Handlers, NEW i, NEW row, NEW w,
               w.pc \in {"idle", "note"}, Incident!Write(h, i, row, w), UNCHANGED nSends
        PROVE  LogsInv'
    <2>1. CASE nWork' = [nWork EXCEPT ![h] = w] /\ UNCHANGED <<nLogs, nSends, nAcked, nFaulty>>
      <3>1. w.pc \in {"idle", "status", "note"}
        BY <1>7
      <3>2. nFaulty' \in {nFaulty, TRUE}
        BY <2>1
      <3> QED
        BY ONLY LogsInv, <2>1, <3>1, <3>2, LogsAside
    <2>2. CASE Incident!Fails(h, Incident!Idle)
      BY <1>6, <2>2 DEF Incident!Idle
    <2> QED
      BY <1>7, <2>1, <2>2 DEF Incident!Write
  <1>8. ASSUME NEW i, NEW kind, NEW prev, NEW new
        PROVE  Incident!Noting(i, kind, prev, new).pc = "note"
    BY DEF Incident!Noting
  <1>9. ASSUME NEW h \in Handlers, NEW i \in IncidentIds, Incident!ReadStatus(h, i)
        PROVE  LogsInv'
    <2>1. PICK w : /\ w.pc = "status" /\ nWork' = [nWork EXCEPT ![h] = w]
                   /\ UNCHANGED <<nLogs, nSends, nAcked, nFaulty>>
      BY <1>9 DEF Incident!ReadStatus
    <2> QED
      BY <2>1, LogsAside
  <1>10. ASSUME NEW h \in Handlers, NEW i \in IncidentIds, Incident!HandleAddNote(h, i)
         PROVE  LogsInv'
    <2>1. PICK kind, prev, new :
              /\ nWork' = [nWork EXCEPT ![h] = Incident!Noting(i, kind, prev, new)]
              /\ UNCHANGED <<nIncs, nNotes, nLogs, nSends, nAcked, nFaulty>>
      BY <1>10, Zenon DEF Incident!HandleAddNote
    <2> QED
      BY <1>8, <2>1, LogsAside
  <1>11. ASSUME NEW h \in Handlers, NEW i \in IncidentIds,
                \/ Incident!Assign(h, i) \/ Incident!Escalate(h, i)
                \/ Incident!ResolveIncident(h, i)
                \/ \E status \in {"RESOLVED", "FALSE_POSITIVE"} : Incident!Resolve(h, i, status)
         PROVE  LogsInv'
    <2>1. PICK row, w : /\ Incident!Write(h, i, row, w) /\ Incident!Asks(h, i)
                        /\ \/ w = Incident!Idle
                           \/ \E kind, prev, new : w = Incident!Noting(i, kind, prev, new)
      BY <1>11, Zenon
         DEF Incident!Assign, Incident!Escalate, Incident!ResolveIncident, Incident!Resolve
    <2>2. w.pc \in {"idle", "note"}
      BY <1>8, <2>1 DEF Incident!Idle
    <2>3. UNCHANGED nSends
      BY <2>1 DEF Incident!Write, Incident!Fails
    <2> QED
      BY <1>7, <2>1, <2>2, <2>3
  <1>12. ASSUME NEW h \in Handlers, Incident!UpdateStatus(h) PROVE LogsInv'
    <2>1. PICK i, row, kind, prev, new :
              Incident!Write(h, i, row, Incident!Noting(i, kind, prev, new))
      BY <1>12, Zenon DEF Incident!UpdateStatus
    <2>2. UNCHANGED nSends
      BY <2>1 DEF Incident!Write, Incident!Fails
    <2> QED
      BY <1>7, <1>8, <2>1, <2>2
  <1>13. ASSUME NEW h \in Handlers, Incident!AddNote(h) PROVE LogsInv'
    <2>1. CASE Incident!Fails(h, Incident!Idle)
      BY <1>6, <2>1 DEF Incident!Idle
    <2>2. CASE /\ nWork' = [nWork EXCEPT ![h] = Incident!Idle]
               /\ UNCHANGED <<nLogs, nSends, nAcked, nFaulty>>
      BY <2>2, LogsAside DEF Incident!Idle
    <2> QED
      BY <1>13, <2>1, <2>2 DEF Incident!AddNote
  <1>14. ASSUME UNCHANGED <<nLogs, nWork, nSends, nAcked, nFaulty>> PROVE LogsInv'
    BY <1>14 DEF LogsInv, Ahead
  <1>15. ASSUME NEW i \in IncidentIds, Incident!Create(i) PROVE LogsInv'
    BY <1>14, <1>15 DEF Incident!Create
  <1>16. CASE UNCHANGED nVars
    BY <1>14, <1>16 DEF nVars
  <1> QED
    BY <1>2, <1>3, <1>4, <1>5, <1>9, <1>10, <1>11, <1>12, <1>13, <1>15, <1>16, LogsBegin
       DEF Incident!Next

\* Unless a statement failed, a batch the agent was told is logged is logged to its
\* last event, and no event is logged more often than the batch was delivered, for
\* any number of deliveries at once (events.go, ReceiveEventBatch).
THEOREM AckedIsLogged == ConsoleSpec => []AckedIsStored
  <1>1. ConsoleInit => LogsInv
    BY LogsStart DEF ConsoleInit
  <1>2. LogsInv /\ [ConsoleNext]_consoleVars => LogsInv'
    <2>1. [ConsoleNext]_consoleVars => [Incident!Next]_nVars
      BY DEF ConsoleNext, consoleVars
    <2> QED
      BY <2>1, LogsSteps
  <1>3. LogsInv => AckedIsStored
    <2>1. ASSUME LogsInv, NEW n \in DOMAIN Batch PROVE nLogs[n] <= nSends
      BY <2>1, AheadFinite DEF LogsInv
    <2> QED
      BY <2>1 DEF LogsInv, AckedIsStored, Incident!AckedIsStored
  <1> QED
    BY <1>1, <1>2, <1>3, PTL DEF ConsoleSpec

----------------------------------------------------------------------------
(* Classification: points and findings *)

\* Sum satisfies the equation: it adds up the points.
LEMMA SumAdds ==
    ASSUME NEW c, Len(c) \in Nat
    PROVE  \E g : Sums(c, Len(c), g) /\ Engine!Sum(c) = g[Len(c)]
  <1> DEFINE g == CHOOSE f : Sums(c, Len(c), f)
  <1>1. Sums(c, Len(c), g)
    BY SumsExist
  <1>2. Engine!Sum(c) = g[Len(c)]
    BY DEF Engine!Sum, Sums
  <1> QED
    BY <1>1, <1>2

\* More points add up to more.
LEMMA SumGrows ==
    ASSUME NEW c, NEW d, Len(c) \in Nat, Len(d) = Len(c),
           \A n \in 1..Len(c) : c[n] \in Nat /\ d[n] \in Nat /\ c[n] <= d[n]
    PROVE  /\ Engine!Sum(c) \in Nat /\ Engine!Sum(d) \in Nat
           /\ Engine!Sum(c) <= Engine!Sum(d)
  <1> DEFINE k == Len(c)
  <1>1. PICK g : Sums(c, k, g) /\ Engine!Sum(c) = g[k]
    BY SumAdds
  <1>2. PICK h : Sums(d, k, h) /\ Engine!Sum(d) = h[k]
    BY SumAdds
  <1> HIDE DEF k
  <1>3. k \in Nat /\ \A n \in 1..k : c[n] \in Nat /\ d[n] \in Nat /\ c[n] <= d[n]
    BY DEF k
  <1>4. g \in [0..k -> Nat] /\ g[0] = 0 /\ \A n \in 1..k : g[n] = g[n - 1] + c[n]
    BY <1>1, <1>3, SumsAdd
  <1>5. h \in [0..k -> Nat] /\ h[0] = 0 /\ \A n \in 1..k : h[n] = h[n - 1] + d[n]
    BY <1>2, <1>3, SumsAdd
  <1> DEFINE P == {n \in 0..k : g[n] <= h[n]}
  <1>6. 0 \in P
    BY <1>3, <1>4, <1>5
  <1>7. ASSUME NEW n \in 0..(k - 1), n \in P PROVE n + 1 \in P
    <2>1. /\ n + 1 \in 1..k /\ (n + 1) - 1 = n
          /\ g[n + 1] = g[n] + c[n + 1] /\ h[n + 1] = h[n] + d[n + 1]
          /\ g[n] \in Nat /\ h[n] \in Nat /\ g[n] <= h[n]
          /\ c[n + 1] \in Nat /\ d[n + 1] \in Nat /\ c[n + 1] <= d[n + 1]
      BY <1>3, <1>4, <1>5, <1>7
    <2> QED
      BY <2>1
  <1>8. 0..k \subseteq P
    <2> HIDE DEF P
    <2> QED
      BY <1>3, <1>6, <1>7, IntervalInduction
  <1>9. k \in 0..k
    BY <1>3
  <1>10. g[k] \in Nat /\ h[k] \in Nat /\ g[k] <= h[k]
    BY <1>4, <1>5, <1>8, <1>9
  <1> QED
    BY <1>1, <1>2, <1>10

\* What is multiplied grows with its factor.
LEMMA ProductGrows ==
    ASSUME NEW a \in Nat, NEW b \in Nat, NEW c \in Nat, b <= c
    PROVE  a * b \in Nat /\ a * c \in Nat /\ a * b <= a * c
  <1>1. \A x, y \in Nat : x * y \in Nat
    OBVIOUS
  <1>2. c - b \in Nat /\ a * (c - b) \in Nat
    BY <1>1
  <1>3. a * c = a * b + a * (c - b)
    BY Z3
  <1> QED
    BY <1>1, <1>2, <1>3

\* A table of points: rows of a mark and a number.
Weights(weight) == /\ Len(weight) \in Nat /\ DOMAIN weight = 1..Len(weight)
                   /\ \A n \in 1..Len(weight) : weight[n][2] \in Nat

\* The tables of the phases are such.
LEMMA TablesWeigh ==
    /\ Weights(Engine!PathWeight) /\ Weights(Engine!CountWeight)
    /\ Weights(Engine!SecretWeight)
  <1>1. Weights(Engine!PathWeight)
    BY DEF Weights, Engine!PathWeight
  <1>2. Weights(Engine!CountWeight)
    BY DEF Weights, Engine!CountWeight
  <1>3. Weights(Engine!SecretWeight)
    BY DEF Weights, Engine!SecretWeight
  <1> QED
    BY <1>1, <1>2, <1>3

\* More marks are more points.
LEMMA PresentGrows ==
    ASSUME NEW weight, Weights(weight), NEW S, NEW T, S \subseteq T
    PROVE  LET c == Engine!Sum(Engine!Present(weight, S))
               d == Engine!Sum(Engine!Present(weight, T))
           IN  c \in Nat /\ d \in Nat /\ c <= d
  <1> DEFINE c == Engine!Present(weight, S)
             d == Engine!Present(weight, T)
             k == Len(weight)
  <1>1. Len(c) = k /\ Len(d) = k /\ k \in Nat
    BY DEF Weights, Engine!Present
  <1>2. \A n \in 1..k : c[n] \in Nat /\ d[n] \in Nat /\ c[n] <= d[n]
    BY DEF Weights, Engine!Present
  <1> HIDE DEF c, d, k
  <1>3. Engine!Sum(c) \in Nat /\ Engine!Sum(d) \in Nat /\ Engine!Sum(c) <= Engine!Sum(d)
    BY <1>1, <1>2, SumGrows
  <1> QED
    BY <1>3 DEF c, d

\* More occurrences are more points.
LEMMA CountedGrows ==
    ASSUME NEW weight, Weights(weight), NEW S, NEW T,
           \A n \in 1..Len(weight) : /\ S[weight[n][1]] \in Nat /\ T[weight[n][1]] \in Nat
                                     /\ S[weight[n][1]] <= T[weight[n][1]]
    PROVE  LET c == Engine!Sum(Engine!Counted(weight, S))
               d == Engine!Sum(Engine!Counted(weight, T))
           IN  c \in Nat /\ d \in Nat /\ c <= d
  <1> DEFINE c == Engine!Counted(weight, S)
             d == Engine!Counted(weight, T)
             k == Len(weight)
  <1>1. Len(c) = k /\ Len(d) = k /\ k \in Nat
    BY DEF Weights, Engine!Counted
  <1>2. ASSUME NEW n \in 1..k PROVE c[n] \in Nat /\ d[n] \in Nat /\ c[n] <= d[n]
    <2> DEFINE w == weight[n][2]
               s == S[weight[n][1]]
               t == T[weight[n][1]]
    <2>1. w \in Nat /\ s \in Nat /\ t \in Nat /\ s <= t
      BY DEF Weights
    <2>2. c[n] = w * s /\ d[n] = w * t
      BY DEF Weights, Engine!Counted
    <2> HIDE DEF w, s, t, c, d
    <2>3. w * s \in Nat /\ w * t \in Nat /\ w * s <= w * t
      BY <2>1, ProductGrows
    <2> QED
      BY <2>2, <2>3
  <1> HIDE DEF c, d, k
  <1>3. Engine!Sum(c) \in Nat /\ Engine!Sum(d) \in Nat /\ Engine!Sum(c) <= Engine!Sum(d)
    BY <1>1, <1>2, SumGrows
  <1> QED
    BY <1>3 DEF c, d

\* The recursion equation behind MergeFindings, for the first n findings.
Merges(first, more, n, g) ==
    g = [i \in 0..n |-> IF i = 0 THEN <<>>
                        ELSE IF i <= Len(first) THEN Engine!Put(g[i - 1], first[i])
                        ELSE Engine!PutOptional(g[i - 1], more[i - Len(first)])]

\* There are findings so merged.
LEMMA MergesExist ==
    ASSUME NEW first, NEW more, NEW n \in Nat
    PROVE  \E g : Merges(first, more, n, g)
  <1> DEFINE Step(i, m) == IF i <= Len(first) THEN Engine!Put(m, first[i])
                           ELSE Engine!PutOptional(m, more[i - Len(first)])
             P == {k \in 0..n : \E g : Merges(first, more, k, g)}
  <1>1. ASSUME NEW k \in Nat, NEW g
        PROVE  Merges(first, more, k, g) <=>
                   g = [i \in 0..k |-> IF i = 0 THEN <<>> ELSE Step(i, g[i - 1])]
    BY DEF Merges
  <1> HIDE DEF Next
  <1>2. 0 \in P
    <2> DEFINE h == [i \in 0..0 |-> <<>>]
    <2>1. h = [i \in 0..0 |-> IF i = 0 THEN <<>> ELSE Step(i, h[i - 1])]
      OBVIOUS
    <2> HIDE DEF h
    <2>2. Merges(first, more, 0, h)
      BY <1>1, <2>1
    <2>3. 0 \in 0..n
      OBVIOUS
    <2> QED
      BY <2>2, <2>3
  <1>3. ASSUME NEW k \in 0..(n - 1), k \in P PROVE k + 1 \in P
    <2>1. PICK g : g = [i \in 0..k |-> IF i = 0 THEN <<>> ELSE Step(i, g[i - 1])]
      BY <1>1, <1>3
    <2> DEFINE h == [i \in 0..(k + 1) |-> IF i = k + 1 THEN Step(k + 1, g[k]) ELSE g[i]]
    <2>2. \A i \in 0..k : h[i] = g[i]
      OBVIOUS
    <2>3. \A i \in 0..k : g[i] = IF i = 0 THEN <<>> ELSE Step(i, g[i - 1])
      BY <2>1
    <2>4. ASSUME NEW i \in 0..(k + 1)
          PROVE  h[i] = IF i = 0 THEN <<>> ELSE Step(i, h[i - 1])
      <3>1. CASE i \in 0..k
        <4>1. i # 0 => h[i - 1] = g[i - 1]
          BY <3>1, <2>2
        <4> QED
          BY <3>1, <2>2, <2>3, <4>1
      <3>2. CASE i = k + 1
        <4>1. h[i - 1] = g[k] /\ i # 0 /\ h[i] = Step(i, g[k])
          BY <3>2
        <4> QED
          BY <3>2, <4>1
      <3> QED
        BY <3>1, <3>2
    <2>5. h = [i \in 0..(k + 1) |-> h[i]]
      OBVIOUS
    <2> HIDE DEF h
    <2>6. h = [i \in 0..(k + 1) |-> IF i = 0 THEN <<>> ELSE Step(i, h[i - 1])]
      BY <2>4, <2>5
    <2>7. k + 1 \in 0..n /\ k + 1 \in Nat
      OBVIOUS
    <2> QED
      BY <1>1, <2>6, <2>7
  <1>4. 0..n \subseteq P
    <2> HIDE DEF P
    <2> QED
      BY <1>2, <1>3, IntervalInduction
  <1>5. n \in P
    BY <1>4
  <1> QED
    BY <1>5

\* Putting a finding in its place leaves those of other keys alone.
LEMMA PutAside ==
    ASSUME NEW merged, NEW f, NEW key, f.key # key
    PROVE  LET put == Engine!Put(merged, f)
           IN  /\ key \in DOMAIN put <=> key \in DOMAIN merged
               /\ key \in DOMAIN merged => put[key] = merged[key]
  BY DEF Engine!Put, Engine!With

\* An optional finding leaves a hard one alone.
LEMMA OptionalAside ==
    ASSUME NEW merged, NEW f, NEW key \in DOMAIN merged, merged[key].hard
    PROVE  LET put == Engine!PutOptional(merged, f)
           IN  key \in DOMAIN put /\ put[key] = merged[key]
  <1>1. CASE f.key # key
    BY <1>1, PutAside DEF Engine!PutOptional
  <1>2. CASE f.key = key
    BY <1>2, Zenon DEF Engine!PutOptional
  <1> QED
    BY <1>1, <1>2

\* Hard findings with keys of their own are among the merged ones as they are.
LEMMA HardKept ==
    ASSUME NEW first, NEW more, Len(first) \in Nat, Len(more) \in Nat,
           \A m, n \in 1..Len(first) : first[m].key = first[n].key => m = n,
           NEW n \in 1..Len(first), first[n].hard
    PROVE  LET merged == Engine!MergeFindings(first, more)
           IN  first[n].key \in DOMAIN merged /\ merged[first[n].key] = first[n]
  <1> DEFINE a == Len(first)
             b == Len(more)
             all == a + b
             key == first[n].key
             g == CHOOSE f : Merges(first, more, a + b, f)
  <1>1. all \in Nat
    OBVIOUS
  <1>2. Merges(first, more, all, g)
    <2>1. \E f : Merges(first, more, all, f)
      BY <1>1, MergesExist
    <2> QED
      BY <2>1
  <1>3. Engine!MergeFindings(first, more) = g[all]
    BY DEF Engine!MergeFindings, Merges
  <1> HIDE DEF g
  <1>4. /\ g[0] = <<>>
        /\ \A i \in 1..a : g[i] = Engine!Put(g[i - 1], first[i])
        /\ \A i \in (a + 1)..all : g[i] = Engine!PutOptional(g[i - 1], more[i - a])
    <2>1. \A i \in 0..all : g[i] = IF i = 0 THEN <<>>
                                    ELSE IF i <= a THEN Engine!Put(g[i - 1], first[i])
                                    ELSE Engine!PutOptional(g[i - 1], more[i - a])
      BY <1>2 DEF Merges
    <2> QED
      BY <1>1, <2>1
  <1> DEFINE P == {i \in 0..all :
                       IF i < n THEN key \notin DOMAIN g[i]
                       ELSE key \in DOMAIN g[i] /\ g[i][key] = first[n]}
  <1>5. 0 \in P
    BY <1>4
  <1>6. ASSUME NEW i \in 0..(all - 1), i \in P PROVE i + 1 \in P
    <2>1. i + 1 \in 0..all /\ (i + 1) - 1 = i
      OBVIOUS
    <2>2. CASE i + 1 \in 1..a /\ i + 1 # n
      <3>1. g[i + 1] = Engine!Put(g[i], first[i + 1]) /\ first[i + 1].key # key
        BY <1>4, <2>1, <2>2
      <3>2. /\ key \in DOMAIN g[i + 1] <=> key \in DOMAIN g[i]
            /\ key \in DOMAIN g[i] => g[i + 1][key] = g[i][key]
        <4> HIDE DEF key
        <4> QED
          BY <3>1, PutAside
      <3> QED
        BY <1>6, <2>1, <2>2, <3>2
    <2>3. CASE i + 1 = n
      <3>1. g[i + 1] = Engine!Put(g[i], first[n]) /\ key \notin DOMAIN g[i]
        BY <1>4, <1>6, <2>1, <2>3
      <3>2. key \in DOMAIN g[i + 1] /\ g[i + 1][key] = first[n]
        BY <3>1 DEF Engine!Put, Engine!With
      <3> QED
        BY <2>1, <2>3, <3>2
    <2>4. CASE i + 1 > a
      <3>1. /\ g[i + 1] = Engine!PutOptional(g[i], more[i + 1 - a])
            /\ key \in DOMAIN g[i] /\ g[i][key] = first[n]
        BY <1>4, <1>6, <2>1, <2>4
      <3>2. g[i][key].hard
        BY <3>1, Zenon
      <3>3. key \in DOMAIN g[i + 1] /\ g[i + 1][key] = g[i][key]
        <4> HIDE DEF key
        <4> QED
          BY <3>1, <3>2, OptionalAside
      <3> QED
        BY <2>1, <2>4, <3>1, <3>3
    <2> QED
      BY <2>2, <2>3, <2>4
  <1>7. 0..all \subseteq P
    <2> HIDE DEF P, all
    <2> QED
      BY <1>1, <1>5, <1>6, IntervalInduction
  <1>8. all \in P /\ ~(all < n)
    BY <1>7
  <1> QED
    BY <1>3, <1>8

\* What the detectors see in a file, in any case.
Described(f) ==
    /\ f.size \in Nat /\ f.bulk \in BOOLEAN
    /\ f.counts \in [{Engine!CountWeight[n][1] : n \in DOMAIN Engine!CountWeight} -> Nat]
    /\ Len(f.findings) \in Nat /\ DOMAIN f.findings = 1..Len(f.findings)
    /\ \A m, n \in DOMAIN f.findings : f.findings[m].key = f.findings[n].key => m = n

\* The points of the phases, and the risk they arrive at.
Points(f) == Engine!phase1PreAnalysis(f) + Engine!phase2ContentPatterns(f)
Scored(f) ==
    IF Engine!phase0FastFilter(f) # -1 THEN Engine!phase0FastFilter(f)
    ELSE Points(f) + Engine!phase3ContextLogic(f)
LevelOfFile(f) == Engine!Level(Engine!Clamp(Scored(f)))
RiskOf(f) == Engine!Risks[LevelOfFile(f) + 1]

\* What Classify cannot see of a remote file leaves a file in any case.
LEMMA SeenDescribed ==
    ASSUME NEW f \in Samples, NEW withContent \in BOOLEAN
    PROVE  Described(Engine!Seen(f, withContent))
  <1> DEFINE g == Engine!Seen(f, withContent)
             unseen == [f EXCEPT !.size = 0, !.counts = [p \in DOMAIN f.counts |-> 0],
                                 !.secrets = {}, !.findings = <<>>, !.bulk = FALSE]
  <1>1. Described(f)
    BY FilesAssumption DEF Described
  <1>2. Described(unseen)
    <2>1. /\ unseen.size = 0 /\ unseen.counts = [p \in DOMAIN f.counts |-> 0]
          /\ unseen.findings = <<>> /\ unseen.bulk = FALSE
      BY FilesAssumption
    <2> HIDE DEF unseen
    <2>2. /\ unseen.size \in Nat /\ unseen.bulk \in BOOLEAN
          /\ Len(unseen.findings) = 0 /\ DOMAIN unseen.findings = 1..0
      <3>1. Len(<<>>) = 0 /\ DOMAIN <<>> = 1..0
        OBVIOUS
      <3>2. unseen.size = 0 /\ unseen.findings = <<>> /\ unseen.bulk \in BOOLEAN
        BY <2>1
      <3> QED
        BY <3>1, <3>2
    <2>3. unseen.counts
              \in [{Engine!CountWeight[n][1] : n \in DOMAIN Engine!CountWeight} -> Nat]
      BY <1>1, <2>1 DEF Described
    <2> QED
      BY <2>2, <2>3 DEF Described
  <1>3. g = f \/ g = unseen
    BY DEF Engine!Seen
  <1> QED
    BY <1>1, <1>2, <1>3, Zenon

\* What each phase adds is a number, and more for more evidence.
LEMMA PhasesGrow ==
    ASSUME NEW f, NEW g, Described(f), Described(g), f.path \subseteq g.path,
           \A p \in DOMAIN f.counts : f.counts[p] <= g.counts[p],
           f.secrets \subseteq g.secrets, g.examples \subseteq f.examples, f.bulk => g.bulk
    PROVE  /\ Points(f) \in Nat /\ Points(g) \in Nat /\ Points(f) <= Points(g)
           /\ Engine!phase3ContextLogic(f) \in {0, 30} /\ Engine!phase3ContextLogic(g) \in {0, 30}
           /\ Engine!phase3ContextLogic(f) <= Engine!phase3ContextLogic(g)
  <1>1. LET c == Engine!phase1PreAnalysis(f)
            d == Engine!phase1PreAnalysis(g)
        IN  c \in Nat /\ d \in Nat /\ c <= d
    BY TablesWeigh, PresentGrows DEF Engine!phase1PreAnalysis
  <1>2. LET c == Engine!phase2Secrets(f)
            d == Engine!phase2Secrets(g)
        IN  c \in Nat /\ d \in Nat /\ c <= d
    <2> DEFINE S == f.secrets \ (f.examples \cap Engine!Suppressible)
               T == g.secrets \ (g.examples \cap Engine!Suppressible)
    <2>1. S \subseteq T
      OBVIOUS
    <2> HIDE DEF S, T
    <2>2. LET c == Engine!Sum(Engine!Present(Engine!SecretWeight, S))
              d == Engine!Sum(Engine!Present(Engine!SecretWeight, T))
          IN  c \in Nat /\ d \in Nat /\ c <= d
      BY <2>1, TablesWeigh, PresentGrows
    <2> QED
      BY <2>2 DEF S, T, Engine!phase2Secrets
  <1>3. LET c == Engine!Sum(Engine!Counted(Engine!CountWeight, f.counts))
            d == Engine!Sum(Engine!Counted(Engine!CountWeight, g.counts))
        IN  c \in Nat /\ d \in Nat /\ c <= d
    <2>1. Weights(Engine!CountWeight)
      BY TablesWeigh
    <2>2. ASSUME NEW n \in 1..Len(Engine!CountWeight)
          PROVE  LET p == Engine!CountWeight[n][1]
                 IN  f.counts[p] \in Nat /\ g.counts[p] \in Nat /\ f.counts[p] <= g.counts[p]
      <3> DEFINE p == Engine!CountWeight[n][1]
                 Q == {Engine!CountWeight[m][1] : m \in DOMAIN Engine!CountWeight}
      <3>1. p \in Q
        BY <2>1 DEF Weights
      <3>2. f.counts \in [Q -> Nat] /\ g.counts \in [Q -> Nat]
        BY DEF Described
      <3> HIDE DEF p, Q
      <3>3. f.counts[p] \in Nat /\ g.counts[p] \in Nat /\ f.counts[p] <= g.counts[p]
        BY <3>1, <3>2
      <3> QED
        BY <3>3 DEF p
    <2> QED
      BY <2>1, <2>2, CountedGrows
  <1>4. /\ Engine!phase3ContextLogic(f) \in {0, 30} /\ Engine!phase3ContextLogic(g) \in {0, 30}
        /\ Engine!phase3ContextLogic(f) <= Engine!phase3ContextLogic(g)
    <2>1. CASE f.bulk = TRUE
      BY <2>1 DEF Engine!phase3ContextLogic
    <2>2. CASE f.bulk = FALSE
      BY <2>2 DEF Engine!phase3ContextLogic
    <2> QED
      BY <2>1, <2>2 DEF Described
  <1> QED
    BY <1>1, <1>2, <1>3, <1>4 DEF Points, Engine!phase2ContentPatterns

\* The fast filter decides with one of three scores, or not.
LEMMA FastFilter ==
    ASSUME NEW f, Described(f)
    PROVE  Engine!phase0FastFilter(f) \in {-1, 0, 95, 100}
  BY DEF Engine!phase0FastFilter, Described

\* More evidence never lowers the level.
LEMMA LevelGrows ==
    ASSUME NEW f, NEW g, Described(f), Described(g), Engine!Evidence(f, g)
    PROVE  LevelOfFile(f) <= LevelOfFile(g)
  <1> DEFINE a == Engine!phase0FastFilter(f)
             b == Engine!phase0FastFilter(g)
             x == Points(f) + Engine!phase3ContextLogic(f)
             y == Points(g) + Engine!phase3ContextLogic(g)
  <1>1. x \in Nat /\ y \in Nat /\ x <= y
    BY PhasesGrow DEF Engine!Evidence
  <1>2. a \in {-1, 0, 95, 100} /\ (b = a \/ (a = -1 /\ b = 95))
    BY DEF Engine!Evidence, Engine!phase0FastFilter, Described
  <1>3. /\ Scored(f) = IF a # -1 THEN a ELSE x
        /\ Scored(g) = IF b # -1 THEN b ELSE y
    BY DEF Scored
  <1> HIDE DEF a, b, x, y
  <1> DEFINE s == Scored(f)
             t == Scored(g)
  <1>4. s \in Nat /\ t \in Nat /\ (s <= t \/ t = 95)
    BY <1>1, <1>2, <1>3
  <1> HIDE DEF s, t
  <1>5. Engine!Level(Engine!Clamp(s)) <= Engine!Level(Engine!Clamp(t))
    BY <1>4 DEF Engine!Level, Engine!Clamp
  <1> QED
    BY <1>5 DEF s, t, LevelOfFile

\* There are four levels.
LEMMA LevelTyped ==
    ASSUME NEW s \in Int
    PROVE  Engine!Level(Engine!Clamp(s)) \in 0..3
  BY DEF Engine!Level, Engine!Clamp

\* Each level has a risk of its own.
LEMMA RisksApart ==
    ASSUME NEW m \in 1..4, NEW n \in 1..4, Engine!Risks[m] = Engine!Risks[n]
    PROVE  m = n
  BY DEF Engine!Risks

\* What a file scores is a number.
LEMMA ScoredTyped ==
    ASSUME NEW f, Described(f)
    PROVE  Scored(f) \in Nat /\ Points(f) \in Nat
  <1>1. Points(f) \in Nat /\ Engine!phase3ContextLogic(f) \in {0, 30}
    <2>1. f.bulk => f.bulk
      OBVIOUS
    <2>2. \A p \in DOMAIN f.counts : f.counts[p] <= f.counts[p]
      BY DEF Described
    <2> QED
      BY <2>1, <2>2, PhasesGrow
  <1>2. Engine!phase0FastFilter(f) \in {-1, 0, 95, 100}
    BY FastFilter
  <1> QED
    BY <1>1, <1>2 DEF Scored

\* Hence more evidence never lowers the risk.
LEMMA RiskGrows ==
    ASSUME NEW f, NEW g, Described(f), Described(g), Engine!Evidence(f, g),
           NEW m \in 1..4, NEW n \in 1..4,
           RiskOf(f) = Engine!Risks[m], RiskOf(g) = Engine!Risks[n]
    PROVE  m <= n
  <1>1. LevelOfFile(f) \in 0..3 /\ LevelOfFile(g) \in 0..3
    BY ScoredTyped, LevelTyped DEF LevelOfFile
  <1>2. LevelOfFile(f) + 1 = m /\ LevelOfFile(g) + 1 = n
    <2>1. LevelOfFile(f) + 1 \in 1..4 /\ LevelOfFile(g) + 1 \in 1..4
      BY <1>1
    <2> QED
      BY <2>1, RisksApart DEF RiskOf
  <1>3. LevelOfFile(f) <= LevelOfFile(g)
    BY LevelGrows
  <1> QED
    BY <1>1, <1>2, <1>3

----------------------------------------------------------------------------
(* Classification: the requests *)

\* A file that waits for the provider's answer is one the fast filter leaves to the
\* phases, with their points.
Asked(w) ==
    /\ Described(w.file) /\ Engine!phase0FastFilter(w.file) = -1
    /\ w.score = Points(w.file)

\* Hard findings of a file the phases judge are among the merged ones as they are.
KeepsHard(f, merged) ==
    Engine!phase0FastFilter(f) = -1 =>
        \A n \in DOMAIN f.findings :
            f.findings[n].hard => /\ f.findings[n].key \in DOMAIN merged
                                  /\ merged[f.findings[n].key] = f.findings[n]

\* The fields of a result, and the request whose result the rules have replaced.
IsResult(r) == {"class", "score", "findings", "risk", "rule"} \subseteq DOMAIN r
Ruled(w, result) == [w EXCEPT !.pc = "done", !.result = result]

\* A result carries the score and the risk of its file.  The rules change the class
\* and the score and leave the rest.
Judged(w) ==
    /\ {"pc", "file", "late", "result"} \subseteq DOMAIN w
    /\ IsResult(w.result)
    /\ Described(w.file)
    /\ w.result.score \in 0..100
    /\ w.result.risk = RiskOf(w.file)
    /\ KeepsHard(w.file, w.result.findings)
    /\ w.late => w.result.findings = Engine!MergeFindings(w.file.findings, <<>>)

\* A change of the rules that is not yet loaded, or not yet answered, is one the
\* table has seen, and what was loaded after it is no older.
RulesInv ==
    /\ cVersion \in Nat
    /\ cCache.version \in 0..cVersion
    /\ DOMAIN cWork = Handlers
    /\ \A h \in Handlers : cWork[h].pc = "provider" => Asked(cWork[h])
    /\ \A h \in Engine!Finished : Judged(cWork[h])
    /\ \A h \in Handlers :
           cWork[h].pc \in {"reload", "stored"} => cWork[h].version \in 0..cVersion
    /\ Engine!OwnRuleApplies

\* Evidence is merged so that what is hard stays, and a late answer has no findings.
LEMMA MergedKeepsHard ==
    ASSUME NEW f, Described(f), NEW more, Len(more) \in Nat
    PROVE  KeepsHard(f, Engine!MergeFindings(f.findings, more))
  <1> DEFINE merged == Engine!MergeFindings(f.findings, more)
  <1>1. /\ Len(f.findings) \in Nat /\ DOMAIN f.findings = 1..Len(f.findings)
        /\ \A m, n \in 1..Len(f.findings) : f.findings[m].key = f.findings[n].key => m = n
    BY DEF Described
  <1>2. ASSUME NEW n \in 1..Len(f.findings), f.findings[n].hard
        PROVE  /\ f.findings[n].key \in DOMAIN merged
               /\ merged[f.findings[n].key] = f.findings[n]
    BY <1>1, <1>2, HardKept
  <1> HIDE DEF merged
  <1>3. \A n \in DOMAIN f.findings :
            f.findings[n].hard => /\ f.findings[n].key \in DOMAIN merged
                                  /\ merged[f.findings[n].key] = f.findings[n]
    BY <1>1, <1>2, Zenon
  <1> QED
    BY <1>3, Zenon DEF KeepsHard, merged

\* Scores end at 100.
LEMMA ClampTyped ==
    ASSUME NEW s \in Nat
    PROVE  Engine!Clamp(s) \in 0..100
  BY DEF Engine!Clamp

\* What phase 4 makes of a score.
LEMMA ResultOf ==
    ASSUME NEW f, Described(f), NEW late \in BOOLEAN, NEW findings, NEW score,
           score = Scored(f), KeepsHard(f, findings),
           late => findings = Engine!MergeFindings(f.findings, <<>>)
    PROVE  Judged(Engine!AtRules(f, late, Engine!Result(score, findings)))
  <1> DEFINE result == Engine!Result(score, findings)
             w == Engine!AtRules(f, late, result)
  <1>1. /\ IsResult(result)
        /\ result.findings = findings /\ result.score = Engine!Clamp(score)
    BY DEF Engine!Result, IsResult
  <1>2. result.risk = RiskOf(f)
    BY DEF Engine!Result, RiskOf, LevelOfFile
  <1>3. result.score \in 0..100
    <2>1. score \in Nat
      BY ScoredTyped
    <2>2. Engine!Clamp(score) \in 0..100
      BY <2>1, ClampTyped
    <2> QED
      BY <1>1, <2>2
  <1> HIDE DEF result
  <1>4. /\ {"pc", "file", "late", "result"} \subseteq DOMAIN w
        /\ w.file = f /\ w.result = result
    BY DEF Engine!AtRules
  <1>5. w.late => late
    BY Zenon DEF Engine!AtRules
  <1> HIDE DEF w
  <1>6. w.late => w.result.findings = Engine!MergeFindings(w.file.findings, <<>>)
    BY <1>1, <1>4, <1>5, Zenon
  <1>7. KeepsHard(w.file, w.result.findings)
    BY <1>1, <1>4, Zenon
  <1>8. Judged(w)
    BY <1>1, <1>2, <1>3, <1>4, <1>6, <1>7 DEF Judged
  <1> QED
    BY <1>8 DEF w, result

\* A request turns to something that changes no rule.
LEMMA RulesAside ==
    ASSUME RulesInv, NEW h \in Handlers, NEW w, cWork' = [cWork EXCEPT ![h] = w],
           UNCHANGED <<cTable, cVersion, cCache>>,
           w.pc \in {"idle", "provider", "rules", "done"},
           w.pc = "provider" => Asked(w), w.pc \in {"rules", "done"} => Judged(w)
    PROVE  RulesInv'
  <1> USE DEF RulesInv
  <1>1. /\ DOMAIN cWork' = Handlers /\ cWork'[h] = w
        /\ \A g \in Handlers \ {h} : cWork'[g] = cWork[g]
    OBVIOUS
  <1>2. \A g \in Handlers :
            /\ cWork'[g].pc = "provider" => Asked(cWork'[g])
            /\ cWork'[g].pc \in {"rules", "done"} => Judged(cWork'[g])
    BY <1>1, Zenon DEF Engine!Finished
  <1>3. \A g \in Handlers :
            cWork'[g].pc \in {"reload", "stored"} => cWork'[g].version \in 0..cVersion'
    BY <1>1
  <1>4. Engine!OwnRuleApplies'
    BY <1>1 DEF Engine!OwnRuleApplies
  <1> QED
    BY <1>1, <1>2, <1>3, <1>4 DEF Engine!Finished

\* A request that changes the rules or loads them; what is judged stays judged.
LEMMA RulesElsewhere ==
    ASSUME RulesInv, NEW h \in Handlers, NEW w, cWork' = [cWork EXCEPT ![h] = w],
           w.pc \in {"reload", "stored"}, cVersion' \in Nat, cVersion <= cVersion',
           w.version \in 0..cVersion',
           \/ UNCHANGED cCache /\ w.pc = "reload"
           \/ cCache'.version = cVersion' /\ cVersion' = cVersion
    PROVE  RulesInv'
  <1> USE DEF RulesInv
  <1>1. /\ DOMAIN cWork' = Handlers /\ cWork'[h] = w
        /\ \A g \in Handlers \ {h} : cWork'[g] = cWork[g]
    OBVIOUS
  <1>2. cCache'.version \in 0..cVersion'
    OBVIOUS
  <1>3. \A g \in Handlers :
            /\ cWork'[g].pc = "provider" => Asked(cWork'[g])
            /\ cWork'[g].pc \in {"rules", "done"} => Judged(cWork'[g])
    BY <1>1, Zenon DEF Engine!Finished
  <1>4. \A g \in Handlers :
            cWork'[g].pc \in {"reload", "stored"} => cWork'[g].version \in 0..cVersion'
    BY <1>1
  <1>5. Engine!OwnRuleApplies'
    BY <1>1, <1>4 DEF Engine!OwnRuleApplies
  <1> QED
    BY <1>1, <1>2, <1>3, <1>4, <1>5 DEF Engine!Finished

\* What only the rules may change leaves a result judged.
LEMMA RuledJudged ==
    ASSUME NEW v, Judged(v), NEW w, NEW result,
           w = Ruled(v, result),
           IsResult(result),
           result.findings = v.result.findings, result.risk = v.result.risk,
           result.score \in 0..100
    PROVE  w.pc = "done" /\ Judged(w)
  <1>1. /\ {"pc", "file", "late", "result"} \subseteq DOMAIN w
        /\ w.pc = "done" /\ w.file = v.file /\ w.result = result /\ w.late = v.late
    BY DEF Judged, Ruled
  <1>2. w.late => w.result.findings = Engine!MergeFindings(w.file.findings, <<>>)
    BY <1>1, Zenon DEF Judged
  <1>3. KeepsHard(w.file, w.result.findings) /\ Described(w.file)
    BY <1>1, Zenon DEF Judged
  <1>4. w.result.score \in 0..100 /\ w.result.risk = RiskOf(w.file)
    BY <1>1 DEF Judged
  <1> QED
    BY <1>1, <1>2, <1>3, <1>4, Zenon DEF Judged

\* Every step of a classification and of a change of the rules preserves the invariant.
LEMMA RulesSteps == RulesInv /\ [Engine!Next]_cVars => RulesInv'
  <1> SUFFICES ASSUME RulesInv, [Engine!Next]_cVars PROVE RulesInv'
    OBVIOUS
  <1>1. ASSUME NEW h \in Handlers, Engine!Classify(h) PROVE RulesInv'
    <2>1. PICK g \in Samples, withContent \in BOOLEAN :
              LET f == Engine!Seen(g, withContent)
                  fast == Engine!phase0FastFilter(f)
                  score == Engine!phase1PreAnalysis(f) + Engine!phase2ContentPatterns(f)
                  found == Engine!MergeFindings(f.findings, <<>>)
              IN  Engine!Goto(h, CASE fast # -1 ->
                                       Engine!AtRules(f, FALSE, Engine!Result(fast, <<>>))
                                   [] fast = -1 /\ Engine!Ambiguous(score) ->
                                       [pc |-> "provider", file |-> f, score |-> score]
                                   [] OTHER -> Engine!AtRules(f, FALSE,
                                       Engine!Result(score + Engine!phase3ContextLogic(f),
                                                     found)))
      BY <1>1, Zenon DEF Engine!Classify
    <2> DEFINE f == Engine!Seen(g, withContent)
               fast == Engine!phase0FastFilter(f)
               score == Engine!phase1PreAnalysis(f) + Engine!phase2ContentPatterns(f)
               found == Engine!MergeFindings(f.findings, <<>>)
               quick == Engine!Result(fast, <<>>)
               slow == Engine!Result(score + Engine!phase3ContextLogic(f), found)
               asked == fast = -1 /\ Engine!Ambiguous(score)
               w == CASE fast # -1 -> Engine!AtRules(f, FALSE, quick)
                      [] asked -> [pc |-> "provider", file |-> f, score |-> score]
                      [] OTHER -> Engine!AtRules(f, FALSE, slow)
    <2>2. cWork' = [cWork EXCEPT ![h] = w]
      BY <2>1, Zenon DEF Engine!Goto
    <2>3. Described(f)
      BY SeenDescribed
    <2>4. KeepsHard(f, found)
      BY <2>3, MergedKeepsHard, EmptySeq
    <2> HIDE DEF f, found
    <2>5. fast # -1 => KeepsHard(f, <<>>) /\ fast = Scored(f)
      BY DEF KeepsHard, Scored
    <2>6. fast = -1 => score + Engine!phase3ContextLogic(f) = Scored(f)
      BY DEF Scored, Points
    <2>7. score = Points(f)
      BY DEF Points
    <2> HIDE DEF fast, score, asked
    <2>8. fast # -1 => Judged(Engine!AtRules(f, FALSE, quick))
      BY <2>3, <2>5, ResultOf
    <2>9. fast = -1 => Judged(Engine!AtRules(f, FALSE, slow))
      BY <2>3, <2>4, <2>6, ResultOf
    <2> HIDE DEF quick, slow
    <2>10. CASE fast # -1
      <3>1. w = Engine!AtRules(f, FALSE, quick) /\ w.pc = "rules"
        BY <2>10 DEF Engine!AtRules, asked
      <3> HIDE DEF w
      <3>2. Judged(w)
        BY <2>8, <2>10, <3>1
      <3> QED
        BY <1>1, <2>2, <3>1, <3>2, RulesAside DEF Engine!Classify
    <2>11. CASE asked
      <3>1. w = [pc |-> "provider", file |-> f, score |-> score]
        BY <2>11 DEF asked
      <3> HIDE DEF w
      <3>2. w.pc = "provider" /\ Asked(w)
        BY <2>3, <2>7, <2>11, <3>1 DEF Asked, asked, fast
      <3> QED
        BY <1>1, <2>2, <3>2, RulesAside DEF Engine!Classify
    <2>12. CASE fast = -1 /\ ~asked
      <3>1. w = Engine!AtRules(f, FALSE, slow) /\ w.pc = "rules"
        BY <2>12 DEF Engine!AtRules
      <3> HIDE DEF w
      <3>2. Judged(w)
        BY <2>9, <2>12, <3>1
      <3> QED
        BY <1>1, <2>2, <3>1, <3>2, RulesAside DEF Engine!Classify
    <2> QED
      BY <2>10, <2>11, <2>12
  <1>2. ASSUME NEW h \in Handlers, Engine!Execute(h) PROVE RulesInv'
    <2> DEFINE f == cWork[h].file
    <2>1. PICK answer \in Answers, inTime \in BOOLEAN :
              LET optional == IF Engine!Accepted(answer, inTime) THEN answer.findings ELSE <<>>
              IN  Engine!Goto(h, Engine!AtRules(f, ~inTime,
                      Engine!Result(cWork[h].score + Engine!phase3ContextLogic(f),
                                    Engine!MergeFindings(f.findings, optional))))
      BY <1>2, Zenon DEF Engine!Execute
    <2> DEFINE optional == IF Engine!Accepted(answer, inTime) THEN answer.findings ELSE <<>>
               found == Engine!MergeFindings(f.findings, optional)
               score == cWork[h].score + Engine!phase3ContextLogic(f)
               w == Engine!AtRules(f, ~inTime, Engine!Result(score, found))
    <2>2. cWork' = [cWork EXCEPT ![h] = w]
      BY <2>1, Zenon DEF Engine!Goto
    <2>3. Asked(cWork[h])
      BY <1>2 DEF Engine!Execute, RulesInv
    <2>4. Described(f) /\ score = Scored(f)
      BY <2>3 DEF Asked, Scored
    <2>5. Len(optional) \in Nat
      <3>1. Len(answer.findings) \in Nat /\ Len(<<>>) \in Nat
        BY FilesAssumption
      <3> QED
        BY <3>1
    <2>6. ~inTime => found = Engine!MergeFindings(f.findings, <<>>)
      BY DEF Engine!Accepted
    <2>7. w.pc = "rules"
      BY DEF Engine!AtRules
    <2> HIDE DEF f, score, optional
    <2>8. KeepsHard(f, found)
      BY <2>4, <2>5, MergedKeepsHard
    <2> HIDE DEF found
    <2>9. Judged(w)
      BY <2>4, <2>6, <2>8, ResultOf
    <2> HIDE DEF w
    <2> QED
      BY <1>2, <2>2, <2>7, <2>9, RulesAside DEF Engine!Execute
  <1>3. ASSUME NEW h \in Handlers, Engine!Evaluate(h) PROVE RulesInv'
    <2> DEFINE v == cWork[h]
    <2>1. PICK w : /\ cWork' = [cWork EXCEPT ![h] = w]
                   /\ \/ w = Ruled(v, v.result)
                      \/ \E rule \in Engine!FirstMatching(v.file) :
                             w = Ruled(v, [v.result EXCEPT !.class = rule.class, !.score = 100,
                                                           !.rule = rule])
      BY <1>3, Zenon DEF Engine!Evaluate, Engine!Goto, Ruled
    <2>2. Judged(v)
      BY <1>3, Zenon DEF Engine!Evaluate, RulesInv, Engine!Finished
    <2> HIDE DEF v
    <2>3. IsResult(v.result) /\ v.result.score \in 0..100
      BY <2>2 DEF Judged
    <2>4. w.pc = "done" /\ Judged(w)
      <3>1. CASE w = Ruled(v, v.result)
        BY <2>2, <2>3, <3>1, RuledJudged, Zenon
      <3>2. ASSUME NEW rule, w = Ruled(v, [v.result EXCEPT !.class = rule.class, !.score = 100,
                                                           !.rule = rule])
            PROVE  w.pc = "done" /\ Judged(w)
        <4> DEFINE result == [v.result EXCEPT !.class = rule.class, !.score = 100,
                                              !.rule = rule]
        <4>1. /\ IsResult(result) /\ result.score \in 0..100
              /\ result.findings = v.result.findings /\ result.risk = v.result.risk
          BY <2>3 DEF IsResult
        <4> HIDE DEF result
        <4>2. w = Ruled(v, result)
          BY <3>2, Zenon DEF result
        <4> QED
          BY <2>2, <4>1, <4>2, RuledJudged, Zenon
      <3> QED
        BY <2>1, <3>1, <3>2, Zenon
    <2>5. UNCHANGED <<cTable, cVersion, cCache>>
      BY <1>3, Zenon DEF Engine!Evaluate
    <2>6. w.pc \in {"idle", "provider", "rules", "done"} /\ w.pc # "provider"
      BY <2>4
    <2> QED
      BY <2>1, <2>4, <2>5, <2>6, RulesAside, Zenon
  <1>4. ASSUME NEW h \in Handlers, Engine!Answer(h) PROVE RulesInv'
    BY <1>4, RulesAside DEF Engine!Answer, Engine!Goto, Engine!Idle
  <1>5. ASSUME NEW h \in Handlers, NEW i \in RuleIds, Engine!WriteRule(h, i) PROVE RulesInv'
    <2>1. PICK w : /\ cWork' = [cWork EXCEPT ![h] = w]
                   /\ w.pc = "reload" /\ w.version = cVersion + 1
      <3> DEFINE w == [pc |-> "reload", version |-> cVersion + 1,
                       rules |-> Engine!Enabled(cTable')]
      <3>1. cWork' = [cWork EXCEPT ![h] = w]
        BY <1>5, Zenon DEF Engine!WriteRule, Engine!Goto
      <3>2. w.pc = "reload" /\ w.version = cVersion + 1
        OBVIOUS
      <3> HIDE DEF w
      <3> QED
        BY <3>1, <3>2, Zenon
    <2>2. cVersion' = cVersion + 1 /\ UNCHANGED cCache
      BY <1>5 DEF Engine!WriteRule
    <2>3. cWork'[h] = w /\ \A g \in Handlers \ {h} : cWork'[g] = cWork[g]
      BY <2>1 DEF RulesInv
    <2>4. cVersion' \in Nat /\ cVersion <= cVersion' /\ w.version \in 0..cVersion'
      BY <2>1, <2>2 DEF RulesInv
    <2> QED
      BY <2>1, <2>2, <2>4, RulesElsewhere
  <1>6. ASSUME NEW h \in Handlers, Engine!loadRulesFromDB(h) PROVE RulesInv'
    <2>1. PICK w : /\ cWork' = [cWork EXCEPT ![h] = w]
                   /\ w.pc = "stored" /\ w.version = cWork[h].version
      <3> DEFINE w == [pc |-> "stored", version |-> cWork[h].version]
      <3>1. cWork' = [cWork EXCEPT ![h] = w]
        BY <1>6, Zenon DEF Engine!loadRulesFromDB, Engine!Goto
      <3>2. w.pc = "stored" /\ w.version = cWork[h].version
        OBVIOUS
      <3> HIDE DEF w
      <3> QED
        BY <3>1, <3>2, Zenon
    <2>2. cWork[h].pc = "reload" /\ cVersion' = cVersion /\ cCache'.version = cVersion
      BY <1>6 DEF Engine!loadRulesFromDB
    <2>3. cVersion' \in Nat /\ cVersion <= cVersion' /\ w.version \in 0..cVersion'
      BY <2>1, <2>2 DEF RulesInv
    <2> QED
      BY <2>1, <2>2, <2>3, RulesElsewhere
  <1>7. CASE UNCHANGED cVars
    BY <1>7 DEF cVars, RulesInv, Engine!OwnRuleApplies, Engine!Finished
  <1> QED
    BY <1>1, <1>2, <1>3, <1>4, <1>5, <1>6, <1>7 DEF Engine!Next

\* Nothing is classified, and no rule changed, at first.
LEMMA RulesStart == Engine!Init => RulesInv
  BY DEF Engine!Init, Engine!Idle, RulesInv, Engine!OwnRuleApplies, Engine!Finished

\* The invariant holds in every state.
LEMMA RulesAlways == ConsoleSpec => []RulesInv
  <1>1. ConsoleInit => RulesInv
    BY RulesStart DEF ConsoleInit
  <1>2. RulesInv /\ [ConsoleNext]_consoleVars => RulesInv'
    <2>1. [ConsoleNext]_consoleVars => [Engine!Next]_cVars
      BY DEF ConsoleNext, consoleVars
    <2> QED
      BY <2>1, RulesSteps
  <1> QED
    BY <1>1, <1>2, PTL DEF ConsoleSpec

\* Whoever changed a rule and got the answer finds the change, or a later one, in
\* the rules that are applied, unless the last reload failed, for any number of
\* administrators at once (rule_engine.go, AddRule, UpdateRule, DeleteRule,
\* loadRulesFromDB).
THEOREM OwnRulesApply == ConsoleSpec => []OwnRuleApplies
  <1>1. RulesInv => OwnRuleApplies
    BY DEF RulesInv, OwnRuleApplies
  <1> QED
    BY <1>1, RulesAlways, PTL

\* Whatever a provider answers, and when, hard evidence stays as it is, and an
\* answer after the deadline is as good as none, for any files and findings
\* (orchestrator.go, Execute; findings.go, MergeFindings).
THEOREM ProvidersBounded == ConsoleSpec => []ProviderBounded
  <1>1. RulesInv => ProviderBounded
    <2> SUFFICES ASSUME RulesInv PROVE Engine!HardEvidenceKept /\ Engine!LateAnswerIgnored
      BY DEF ProviderBounded, Engine!ProviderBounded
    <2>1. \A h \in Engine!Finished : Judged(cWork[h])
      BY DEF RulesInv
    <2>2. Engine!LateAnswerIgnored
      BY <2>1, Zenon DEF Judged, Engine!LateAnswerIgnored
    <2>3. Engine!HardEvidenceKept
      BY <2>1, Zenon DEF Judged, KeepsHard, Engine!HardEvidenceKept
    <2> QED
      BY <2>2, <2>3
  <1> QED
    BY <1>1, RulesAlways, PTL

\* More evidence at the same path never lowers the risk, for all files the detectors
\* may describe, over all phases, thresholds and the clamping of scores
\* (classification_engine.go, phases 0 to 4).
THEOREM EvidenceNeverLowers == ConsoleSpec => []MoreEvidenceNeverLowers
  <1>1. RulesInv => MoreEvidenceNeverLowers
    <2> SUFFICES ASSUME RulesInv, NEW h \in Engine!Finished, NEW k \in Engine!Finished,
                        Engine!Evidence(cWork[h].file, cWork[k].file),
                        NEW m \in 1..4, NEW n \in 1..4,
                        cWork[h].result.risk = Engine!Risks[m],
                        cWork[k].result.risk = Engine!Risks[n]
                 PROVE  m <= n
      BY DEF MoreEvidenceNeverLowers, Engine!MoreEvidenceNeverLowers
    <2>1. Judged(cWork[h]) /\ Judged(cWork[k])
      BY DEF RulesInv
    <2>2. /\ Described(cWork[h].file) /\ Described(cWork[k].file)
          /\ RiskOf(cWork[h].file) = Engine!Risks[m] /\ RiskOf(cWork[k].file) = Engine!Risks[n]
      BY <2>1 DEF Judged
    <2> QED
      BY <2>2, RiskGrows
  <1> QED
    BY <1>1, RulesAlways, PTL

----------------------------------------------------------------------------
(* Cloud scans: what the goroutines hold, and the verdicts *)

\* The objects of a bucket, and what its goroutine may be doing.
Objects(b) == Cloud!Range(Keys[b])
Samplings(b) == [pc : {"slot", "get"}, todo : Seq(Objects(b)) \ {<<>>}, size : Nat,
                 as : {"structured"} \cup Cloud!Range(Label), stale : BOOLEAN]
Works(b) == [pc : {"idle", "ready", "end"}]
                \cup [pc : {"list"}, got : Seq(Objects(b))]
                \cup [pc : {"next"}, todo : Seq(Objects(b))]
                \cup [pc : {"head"}, todo : Seq(Objects(b)) \ {<<>>}]
                \cup Samplings(b)

CloudTyped ==
    /\ DOMAIN tStore = DOMAIN Initial
    /\ \A o \in DOMAIN Initial : tStore[o] \in Cloud!Range(Initial) \cup Versions
    /\ DOMAIN tWork = Cloud!Buckets
    /\ \A b \in Cloud!Buckets : tWork[b] \in Works(b)
    /\ \A o \in DOMAIN Initial : o \in tWritten \/ tStore[o] = Initial[o]

\* What is downloaded is still what HeadObject saw; the size of an empty object may
\* be the one in the list.
Fresh(w) == w.pc \in {"slot", "get"} /\ ~w.stale
SizeKnown(w, store) ==
    store[Head(w.todo)] # None /\ store[Head(w.todo)].size \in {0, w.size}

\* The list gives the sizes of objects that are there.
SizesTyped ==
    /\ DOMAIN tListed = DOMAIN Initial
    /\ \A o \in DOMAIN Initial : tListed[o].size \in Nat

\* What may be said of an object that was read as text.
Fair(o, status, clean, text) ==
    /\ status = "compliant" => clean \/ NameSays[o] = "public" \/ text = "hidden"
    /\ status = "noncompliant" => ~clean \/ NameSays[o] = "sensitive"

VerdictsInv ==
    /\ CloudTyped
    /\ \A b \in Cloud!Buckets : Fresh(tWork[b]) => SizeKnown(tWork[b], tStore)
    /\ Cloud!VerdictsTrue

\* What a goroutine holds in each of its states.
LEMMA WorkShape ==
    ASSUME NEW b, NEW w \in Works(b)
    PROVE  /\ w.pc = "list" => w.got \in Seq(Objects(b))
           /\ w.pc \in {"next", "head", "slot", "get"} => w.todo \in Seq(Objects(b))
           /\ w.pc \in {"head", "slot", "get"} => w.todo # <<>>
           /\ w.pc \in {"slot", "get"} => w \in Samplings(b)
  BY DEF Works, Samplings

\* A goroutine that samples: its list, whose head is sampled, and the size it was told.
LEMMA SamplingShape ==
    ASSUME NEW b, NEW w \in Samplings(b)
    PROVE  /\ w \in Works(b) /\ w.todo \in Seq(Objects(b)) /\ w.todo # <<>>
           /\ w.pc \in {"slot", "get"} /\ w.size \in Nat /\ w.stale \in BOOLEAN
  BY DEF Works, Samplings

\* A slot is taken for the sample that was asked for.
LEMMA SamplingGets ==
    ASSUME NEW b, NEW w \in Samplings(b), NEW v, v = [w EXCEPT !.pc = "get"]
    PROVE  v \in Samplings(b) /\ v.todo = w.todo /\ v.size = w.size /\ v.stale = w.stale
  BY DEF Samplings

\* A write leaves what is held as it is, save that it is stale.
LEMMA SamplingStale ==
    ASSUME NEW b, NEW w \in Samplings(b), NEW v, v = [w EXCEPT !.stale = TRUE]
    PROVE  v \in Works(b) /\ v \in Samplings(b) /\ v.todo = w.todo /\ v.stale /\ v.pc = w.pc
  BY DEF Samplings, Works

\* The keys of a bucket are its objects.
LEMMA ObjectsHere ==
    ASSUME NEW b \in Cloud!Buckets
    PROVE  /\ Keys[b] \in Seq(Objects(b)) /\ Objects(b) \subseteq DOMAIN Initial
           /\ \A o \in Objects(b) : \E n \in 1..Len(Keys[b]) : Keys[b][n] = o
  <1>1. Keys[b] \in Seq(DOMAIN Initial)
    BY CloudAssumption
  <1>2. DOMAIN Keys[b] = 1..Len(Keys[b]) /\ Len(Keys[b]) \in Nat
        /\ \A n \in 1..Len(Keys[b]) : Keys[b][n] \in DOMAIN Initial
    BY <1>1
  <1>3. Objects(b) = {Keys[b][n] : n \in 1..Len(Keys[b])}
    BY <1>2 DEF Objects, Cloud!Range
  <1>4. Keys[b] = [n \in 1..Len(Keys[b]) |-> Keys[b][n]]
    BY <1>1
  <1>5. Keys[b] \in Seq(Objects(b))
    BY <1>2, <1>3, <1>4
  <1> QED
    BY <1>2, <1>3, <1>5

\* The head of a list and the rest of it.
LEMMA HeadTail ==
    ASSUME NEW S, NEW s \in Seq(S), s # <<>>
    PROVE  /\ Head(s) \in S /\ Head(s) = s[1] /\ Tail(s) \in Seq(S)
           /\ Cloud!Range(s) = {Head(s)} \cup Cloud!Range(Tail(s))
  <1>1. Len(s) \in Nat /\ Len(s) >= 1 /\ DOMAIN s = 1..Len(s) /\ Head(s) = s[1]
    OBVIOUS
  <1>2. Tail(s) \in Seq(S) /\ Len(Tail(s)) = Len(s) - 1 /\ DOMAIN Tail(s) = 1..Len(s) - 1
        /\ \A n \in 1..Len(s) - 1 : Tail(s)[n] = s[n + 1]
    BY <1>1
  <1>3. \A n \in 1..Len(s) : n = 1 \/ (n - 1 \in 1..Len(s) - 1 /\ s[n] = Tail(s)[n - 1])
    BY <1>1, <1>2
  <1>4. Cloud!Range(s) \subseteq {Head(s)} \cup Cloud!Range(Tail(s))
    <2> SUFFICES ASSUME NEW n \in 1..Len(s)
                 PROVE  s[n] \in {Head(s)} \cup Cloud!Range(Tail(s))
      BY <1>1 DEF Cloud!Range
    <2>1. CASE n = 1
      BY <1>1, <2>1
    <2>2. CASE n - 1 \in 1..Len(s) - 1 /\ s[n] = Tail(s)[n - 1]
      BY <1>2, <2>2 DEF Cloud!Range
    <2> QED
      BY <1>3, <2>1, <2>2
  <1>5. \A n \in 1..Len(s) - 1 : n + 1 \in 1..Len(s) /\ 1 \in 1..Len(s)
    BY <1>1
  <1>6. {Head(s)} \cup Cloud!Range(Tail(s)) \subseteq Cloud!Range(s)
    BY <1>1, <1>2, <1>5 DEF Cloud!Range
  <1> QED
    BY <1>1, <1>2, <1>4, <1>6

\* What a check makes of the answer is true of the setting.
LEMMA OutcomeTrue ==
    ASSUME NEW check, NEW setting, NEW answer \in {setting, "denied", "error"}
    PROVE  /\ Cloud!Outcome(check, answer) = "noncompliant" => setting # "on"
           /\ Cloud!Outcome(check, answer) = "compliant" => setting \in Cloud!Good(check)
  BY DEF Cloud!Outcome, Cloud!Good

\* The lesser of two numbers.
LEMMA LeastOf ==
    ASSUME NEW m \in Nat, NEW n \in Nat
    PROVE  /\ Cloud!Least(m, n) \in 0..n
           /\ n <= m => Cloud!Least(m, n) = n
           /\ m <= n => Cloud!Least(m, n) = m
  BY DEF Cloud!Least

\* The first n elements of a list.
LEMMA FirstElements ==
    ASSUME NEW S, NEW s \in Seq(S), NEW n \in Nat
    PROVE  /\ Cloud!FirstOf(s, n) \in Seq(S)
           /\ Len(s) <= n => Cloud!FirstOf(s, n) = s
  <1>1. Len(s) \in Nat /\ \A k \in 1..Len(s) : s[k] \in S
    OBVIOUS
  <1> DEFINE m == Cloud!Least(n, Len(s))
  <1>2. m \in 0..Len(s) /\ Cloud!FirstOf(s, n) = SubSeq(s, 1, m) /\ (Len(s) <= n => m = Len(s))
    <2>1. m \in 0..Len(s) /\ (Len(s) <= n => m = Len(s))
      BY <1>1, LeastOf
    <2>2. Cloud!FirstOf(s, n) = SubSeq(s, 1, m)
      BY Zenon DEF Cloud!FirstOf
    <2> QED
      BY <2>1, <2>2
  <1> HIDE DEF m
  <1>3. /\ SubSeq(s, 1, m) \in Seq(S) /\ Len(SubSeq(s, 1, m)) = m
        /\ \A k \in 1..m : SubSeq(s, 1, m)[k] = s[k]
    <2>1. (\A k \in 1..m : s[k] \in S) /\ 1 \in Int /\ m \in Int
      BY ONLY <1>1, <1>2
    <2>2. /\ SubSeq(s, 1, m) \in Seq(S)
          /\ Len(SubSeq(s, 1, m)) = IF 1 <= m THEN m - 1 + 1 ELSE 0
          /\ \A k \in 1..m - 1 + 1 : SubSeq(s, 1, m)[k] = s[1 + k - 1]
      BY <2>1, SubSeqProperties
    <2> QED
      BY ONLY <1>1, <1>2, <2>2
  <1>4. m = Len(s) => SubSeq(s, 1, m) = s
    BY <1>1, <1>3, SeqEqual
  <1> QED
    BY <1>2, <1>3, <1>4

FirstOnes(s, n) == {s[k] : k \in 1..n}

\* The elements of a list.
LEMMA RangeOf ==
    ASSUME NEW S, NEW s \in Seq(S)
    PROVE  Cloud!Range(s) = FirstOnes(s, Len(s))
  <1>1. DOMAIN s = 1..Len(s)
    OBVIOUS
  <1> QED
    BY ONLY <1>1 DEF Cloud!Range, FirstOnes

\* The elements of its first part.
LEMMA FirstPart ==
    ASSUME NEW S, NEW s \in Seq(S), NEW n \in 0..Len(s), NEW part, part = SubSeq(s, 1, n)
    PROVE  part \in Seq(S) /\ Cloud!Range(part) = FirstOnes(s, n)
  <1>1. (\A k \in 1..n : s[k] \in S) /\ 1 \in Int /\ n \in Int
    OBVIOUS
  <1>2. /\ part \in Seq(S) /\ Len(part) = IF 1 <= n THEN n - 1 + 1 ELSE 0
        /\ \A k \in 1..n - 1 + 1 : part[k] = s[1 + k - 1]
    BY <1>1, SubSeqProperties
  <1>3. n \in Nat
    OBVIOUS
  <1>4. Len(part) = n /\ \A k \in 1..n : part[k] = s[k]
    BY ONLY <1>2, <1>3
  <1>5. Cloud!Range(part) = FirstOnes(part, Len(part))
    BY <1>2, RangeOf
  <1>6. FirstOnes(part, n) = FirstOnes(s, n)
    BY ONLY <1>4 DEF FirstOnes
  <1> QED
    BY <1>2, <1>4, <1>5, <1>6

\* A goroutine goes on; the objects stay what they are.
LEMMA GoroutineTyped ==
    ASSUME CloudTyped, NEW b \in Cloud!Buckets, NEW w \in Works(b), Cloud!Goto(b, w),
           UNCHANGED <<tStore, tWritten>>
    PROVE  CloudTyped' /\ tWork'[b] = w /\ \A c \in Cloud!Buckets \ {b} : tWork'[c] = tWork[c]
  BY DEF CloudTyped, Cloud!Goto

\* What is left to list of a bucket: present keys that are sorted after the others.
Absent(b, got) == {o \in Objects(b) :
                      tStore[o] = None \/ \E g \in Cloud!Range(got) : ~Cloud!Before(b, g, o)}
More(b, got) == Without(Keys[b], Absent(b, got))

\* They are objects of the bucket, in its order.
LEMMA MoreHere ==
    ASSUME NEW b \in Cloud!Buckets, NEW got
    PROVE  /\ More(b, got) \in Seq(Objects(b))
           /\ Leaves(Keys[b], Absent(b, got), Len(Keys[b]), More(b, got))
           /\ Cloud!Without(Keys[b], Absent(b, got)) = More(b, got)
  <1>1. Keys[b] \in Seq(Objects(b))
    BY ObjectsHere
  <1>2. Cloud!Without(Keys[b], Absent(b, got)) = Without(Keys[b], Absent(b, got))
    BY DEF Cloud!Without, Without
  <1> QED
    BY <1>1, <1>2, WithoutLeaves DEF More

\* A page of the list, and what it does.
LEMMA PageListed ==
    ASSUME CloudTyped, NEW b \in Cloud!Buckets, Cloud!listObjects(b)
    PROVE  /\ tWork[b].pc = "list" /\ tWork[b].got \in Seq(Objects(b))
           /\ UNCHANGED tFindings
           /\ LET got == tWork[b].got
              IN  \/ /\ tTruncated' = TRUE /\ Cloud!Goto(b, Cloud!AtNext(got))
                     /\ UNCHANGED tErrors
                  \/ /\ Cloud!Error("content", b) /\ Cloud!Goto(b, Cloud!AtNext(got))
                     /\ UNCHANGED tTruncated
                  \/ /\ \E size \in 0..Len(More(b, got)) :
                            LET all == got \o SubSeq(More(b, got), 1, size)
                            IN  /\ tTruncated' = (tTruncated \/ Len(all) > MaxObjects)
                                /\ Cloud!Goto(b, 
                                       IF size < Len(More(b, got))
                                       THEN [pc |-> "list",
                                             got |-> Cloud!FirstOf(all, MaxObjects)]
                                       ELSE Cloud!AtNext(Cloud!FirstOf(all, MaxObjects)))
                     /\ UNCHANGED tErrors
  <1> DEFINE got == tWork[b].got
             more == Cloud!Without(Keys[b], {o \in Cloud!Range(Keys[b]) :
                         \/ tStore[o] = None
                         \/ \E g \in Cloud!Range(got) : ~Cloud!Before(b, g, o)})
  <1>1. tWork[b].pc = "list" /\ tWork[b].got \in Seq(Objects(b))
    BY WorkShape DEF CloudTyped, Cloud!listObjects
  <1>2. more = More(b, got) /\ Len(More(b, got)) \in Nat
    <2>1. more = Cloud!Without(Keys[b], Absent(b, got))
      BY DEF Absent, Objects
    <2>2. more = More(b, got) /\ More(b, got) \in Seq(Objects(b))
      <3> HIDE DEF got, more
      <3> QED
        BY <2>1, MoreHere
    <2> QED
      BY <2>2
  <1>3. \A n \in Nat : Cloud!Least(1, n)..n \subseteq 0..n
    BY DEF Cloud!Least
  <1>4. /\ UNCHANGED tFindings
        /\ \/ /\ tTruncated' = TRUE /\ Cloud!Goto(b, Cloud!AtNext(got))
              /\ UNCHANGED tErrors
           \/ /\ Cloud!Error("content", b) /\ Cloud!Goto(b, Cloud!AtNext(got))
              /\ UNCHANGED tTruncated
           \/ /\ \E size \in Cloud!Least(1, Len(more))..Len(more) :
                     LET all == got \o SubSeq(more, 1, size)
                     IN  /\ tTruncated' = (tTruncated \/ Len(all) > MaxObjects)
                         /\ Cloud!Goto(b, IF size < Len(more)
                                    THEN [pc |-> "list", got |-> Cloud!FirstOf(all, MaxObjects)]
                                    ELSE Cloud!AtNext(Cloud!FirstOf(all, MaxObjects)))
              /\ UNCHANGED tErrors
    BY Zenon DEF Cloud!listObjects
  <1> HIDE DEF more
  <1>5. Cloud!Least(1, Len(more))..Len(more) \subseteq 0..Len(More(b, got))
    BY <1>2, <1>3
  <1> HIDE DEF got
  <1> QED
    BY <1>1, <1>2, <1>4, <1>5, Zenon DEF got

\* Pages are lists of objects of the bucket, and so is what is kept of them.
LEMMA PageHere ==
    ASSUME CloudTyped, NEW b \in Cloud!Buckets, Cloud!listObjects(b)
    PROVE  \E w \in Works(b) : Cloud!Goto(b, w) /\ w.pc \in {"list", "next"}
  <1> DEFINE got == tWork[b].got
  <1>1. got \in Seq(Objects(b)) /\ MaxObjects \in Nat
    BY PageListed, CloudAssumption
  <1>2. ASSUME NEW list \in Seq(Objects(b))
        PROVE  /\ Cloud!AtNext(list) \in Works(b) /\ Cloud!AtNext(list).pc = "next"
               /\ [pc |-> "list", got |-> list] \in Works(b)
               /\ [pc |-> "list", got |-> list].pc = "list"
    BY <1>2 DEF Cloud!AtNext, Works
  <1>3. CASE Cloud!Goto(b, Cloud!AtNext(got))
    BY <1>1, <1>2, <1>3
  <1>4. ASSUME NEW size \in 0..Len(More(b, got)),
               LET all == got \o SubSeq(More(b, got), 1, size)
               IN  Cloud!Goto(b, IF size < Len(More(b, got))
                                 THEN [pc |-> "list", got |-> Cloud!FirstOf(all, MaxObjects)]
                                 ELSE Cloud!AtNext(Cloud!FirstOf(all, MaxObjects)))
        PROVE  \E w \in Works(b) : Cloud!Goto(b, w) /\ w.pc \in {"list", "next"}
    <2> DEFINE all == got \o SubSeq(More(b, got), 1, size)
               kept == Cloud!FirstOf(all, MaxObjects)
    <2>1. SubSeq(More(b, got), 1, size) \in Seq(Objects(b))
      <3>1. More(b, got) \in Seq(Objects(b))
        BY MoreHere
      <3>2. (\A k \in 1..size : More(b, got)[k] \in Objects(b)) /\ 1 \in Int /\ size \in Int
        BY <3>1
      <3> QED
        BY <3>2, SubSeqProperties
    <2>2. all \in Seq(Objects(b))
      BY <1>1, <2>1, ConcatProperties
    <2> HIDE DEF got, all
    <2>3. kept \in Seq(Objects(b))
      BY <1>1, <2>2, FirstElements
    <2> HIDE DEF kept
    <2>4. Cloud!Goto(b, [pc |-> "list", got |-> kept]) \/ Cloud!Goto(b, Cloud!AtNext(kept))
      BY <1>4, Zenon DEF all, kept, got
    <2> QED
      BY <1>2, <2>3, <2>4
  <1> QED
    <2> HIDE DEF got
    <2> QED
      BY <1>3, <1>4, PageListed, Zenon DEF got

\* A goroutine goes on, with a sample that is fresh only if its size is known.
LEMMA VerdictsGo ==
    ASSUME VerdictsInv, NEW b \in Cloud!Buckets, NEW w \in Works(b), Cloud!Goto(b, w),
           UNCHANGED <<tStore, tWritten>>, Fresh(w) => SizeKnown(w, tStore), Cloud!VerdictsTrue'
    PROVE  VerdictsInv'
  <1>1. CloudTyped' /\ tWork'[b] = w /\ \A c \in Cloud!Buckets \ {b} : tWork'[c] = tWork[c]
    BY GoroutineTyped DEF VerdictsInv
  <1>2. \A c \in Cloud!Buckets : Fresh(tWork'[c]) => SizeKnown(tWork'[c], tStore')
    BY <1>1 DEF VerdictsInv
  <1> QED
    BY <1>1, <1>2 DEF VerdictsInv

\* What is reported of an object.
LEMMA VerdictReported ==
    ASSUME Cloud!VerdictsTrue, NEW b, NEW status, NEW clean, NEW text, NEW stale,
           Cloud!Reports(b, status, clean, text, stale),
           ~stale => Fair(Head(tWork[b].todo), status, clean, text)
    PROVE  Cloud!VerdictsTrue'
  <1> DEFINE f == [rule |-> "object-content", resource |-> Head(tWork[b].todo),
                   status |-> status, clean |-> clean, read |-> text, stale |-> stale]
  <1>1. tFindings' = tFindings \cup {f}
    BY DEF Cloud!Reports
  <1>2. /\ f.rule = "object-content" /\ f.resource = Head(tWork[b].todo)
        /\ f.status = status /\ f.clean = clean /\ f.read = text /\ f.stale = stale
    OBVIOUS
  <1> HIDE DEF f
  <1>3. Cloud!CleanIsWhole'
    BY <1>1, <1>2 DEF Fair, Cloud!VerdictsTrue, Cloud!CleanIsWhole, Cloud!Contents
  <1>4. Cloud!PostureTrue'
    BY <1>1, <1>2 DEF Cloud!VerdictsTrue, Cloud!PostureTrue, Cloud!Contents
  <1> QED
    BY <1>3, <1>4 DEF Cloud!VerdictsTrue

\* What is reported of a setting.
LEMMA VerdictAssessed ==
    ASSUME Cloud!VerdictsTrue, NEW resource, NEW check \in Cloud!Range(Cloud!BucketChecks),
           Cloud!Assess(resource, check)
    PROVE  Cloud!VerdictsTrue'
  <1>1. PICK answer \in {Settings[resource][check], "denied", "error"} :
            tFindings' = tFindings \cup
                {[rule |-> check, resource |-> resource, status |-> Cloud!Outcome(check, answer)]}
    BY DEF Cloud!Assess
  <1> DEFINE f == [rule |-> check, resource |-> resource, status |-> Cloud!Outcome(check, answer)]
  <1>2. f.rule = check /\ f.resource = resource /\ f.status = Cloud!Outcome(check, answer)
    OBVIOUS
  <1>3. check # "object-content"
    BY DEF Cloud!Range, Cloud!BucketChecks
  <1> HIDE DEF f
  <1>4. tFindings' = tFindings \cup {f}
    BY <1>1 DEF f
  <1>5. /\ f.status = "noncompliant" => Settings[f.resource][f.rule] # "on"
        /\ f.status = "compliant" => Settings[f.resource][f.rule] \in Cloud!Good(f.rule)
    BY <1>2, OutcomeTrue
  <1>6. Cloud!CleanIsWhole'
    BY <1>2, <1>3, <1>4 DEF Cloud!VerdictsTrue, Cloud!CleanIsWhole, Cloud!Contents
  <1>7. Cloud!PostureTrue'
    BY <1>4, <1>5 DEF Cloud!VerdictsTrue, Cloud!PostureTrue, Cloud!Contents
  <1> QED
    BY <1>6, <1>7 DEF Cloud!VerdictsTrue

\* What the loops of the handler still have to do.
LeftTyped ==
    /\ tPc \in {"posture-regions", "regions"} => tLeft \in Seq(Cloud!Buckets)
    /\ tPc = "posture" => tLeft \in Seq(Cloud!Buckets \X Cloud!Range(Cloud!BucketChecks))

\* The nine checks of a bucket.
LEMMA ChecksShape ==
    /\ Len(Cloud!BucketChecks) = 9 /\ DOMAIN Cloud!BucketChecks = 1..9
    /\ \A k \in 1..9 : Cloud!BucketChecks[k] \in Cloud!Range(Cloud!BucketChecks)
    /\ \A check \in Cloud!Range(Cloud!BucketChecks) : \E k \in 1..9 : Cloud!BucketChecks[k] = check
  <1>1. Len(Cloud!BucketChecks) = 9 /\ DOMAIN Cloud!BucketChecks = 1..9
    BY DEF Cloud!BucketChecks
  <1> QED
    BY <1>1 DEF Cloud!Range

\* Every check of every bucket of a list, and nothing else.
LEMMA ChecksOfList ==
    ASSUME NEW S, NEW list \in Seq(S)
    PROVE  /\ Cloud!ChecksOf(list) \in Seq(S \X Cloud!Range(Cloud!BucketChecks))
           /\ \A i \in 1..Len(list), check \in Cloud!Range(Cloud!BucketChecks) :
                  <<list[i], check>> \in Cloud!Range(Cloud!ChecksOf(list))
  <1> DEFINE P(n) == <<list[((n - 1) \div 9) + 1], Cloud!BucketChecks[((n - 1) % 9) + 1]>>
             C == Cloud!ChecksOf(list)
  <1>1. Len(list) \in Nat /\ \A i \in 1..Len(list) : list[i] \in S
    OBVIOUS
  <1>2. C = [n \in 1..Len(list) * 9 |-> P(n)]
    BY ChecksShape DEF Cloud!ChecksOf
  <1>3. ASSUME NEW L \in Nat, NEW n \in 1..L * 9
        PROVE  ((n - 1) \div 9) + 1 \in 1..L /\ ((n - 1) % 9) + 1 \in 1..9
    BY <1>3
  <1>4. ASSUME NEW n \in 1..Len(list) * 9 PROVE P(n) \in S \X Cloud!Range(Cloud!BucketChecks)
    <2>1. ((n - 1) \div 9) + 1 \in 1..Len(list) /\ ((n - 1) % 9) + 1 \in 1..9
      BY <1>1, <1>3
    <2> QED
      BY <1>1, <2>1, ChecksShape
  <1>5. ASSUME NEW L \in Nat, NEW i \in 1..L, NEW k \in 1..9
        PROVE  /\ 9 * (i - 1) + k \in 1..L * 9
               /\ ((9 * (i - 1) + k - 1) \div 9) + 1 = i /\ ((9 * (i - 1) + k - 1) % 9) + 1 = k
    BY <1>5
  <1>6. ASSUME NEW i \in 1..Len(list), NEW check \in Cloud!Range(Cloud!BucketChecks)
        PROVE  \E n \in 1..Len(list) * 9 : P(n) = <<list[i], check>>
    <2>1. PICK k \in 1..9 : Cloud!BucketChecks[k] = check
      BY ChecksShape
    <2>2. /\ 9 * (i - 1) + k \in 1..Len(list) * 9
          /\ ((9 * (i - 1) + k - 1) \div 9) + 1 = i /\ ((9 * (i - 1) + k - 1) % 9) + 1 = k
      BY <1>1, <1>5
    <2>3. P(9 * (i - 1) + k) = <<list[i], check>>
      BY <2>1, <2>2
    <2> QED
      BY <2>2, <2>3
  <1> HIDE DEF P, C
  <1>7. Len(list) * 9 \in Nat
    BY <1>1
  <1>8. C \in Seq(S \X Cloud!Range(Cloud!BucketChecks)) /\ DOMAIN C = 1..Len(list) * 9
    BY <1>2, <1>4, <1>7
  <1>9. ASSUME NEW i \in 1..Len(list), NEW check \in Cloud!Range(Cloud!BucketChecks)
        PROVE  <<list[i], check>> \in Cloud!Range(C)
    BY <1>2, <1>6, <1>8 DEF Cloud!Range
  <1> QED
    BY <1>8, <1>9 DEF C

\* Every bucket of the list is one of the account, and so is each that is found.
LEMMA LeftSteps ==
    ASSUME LeftTyped, Cloud!Next \/ UNCHANGED tVars
    PROVE  LeftTyped'
  <1>1. ASSUME UNCHANGED <<tPc, tLeft>> PROVE LeftTyped'
    BY <1>1 DEF LeftTyped
  <1>2. ASSUME tPc' \notin {"posture-regions", "regions", "posture"} PROVE LeftTyped'
    BY <1>2 DEF LeftTyped
  <1>3. CASE Cloud!HandleAWSS3Scan
    BY <1>2, <1>3 DEF Cloud!HandleAWSS3Scan
  <1>4. CASE Cloud!assessAccountPosture
    BY <1>2, <1>4 DEF Cloud!assessAccountPosture
  <1>5. CASE Cloud!assessBucketPosture
    <2>1. tPc = "posture" /\ tPc' = tPc /\ tLeft # <<>> /\ (tLeft' = <<>> \/ tLeft' = Tail(tLeft))
      BY <1>5 DEF Cloud!assessBucketPosture
    <2>2. <<>> \in Seq(Cloud!Buckets \X Cloud!Range(Cloud!BucketChecks))
      OBVIOUS
    <2>3. tLeft' \in Seq(Cloud!Buckets \X Cloud!Range(Cloud!BucketChecks))
      <3>1. tLeft \in Seq(Cloud!Buckets \X Cloud!Range(Cloud!BucketChecks))
        BY <2>1 DEF LeftTyped
      <3>2. Tail(tLeft) \in Seq(Cloud!Buckets \X Cloud!Range(Cloud!BucketChecks))
        BY <2>1, <3>1, HeadTail
      <3> QED
        BY <2>1, <2>2, <3>2, Zenon
    <2> QED
      BY <2>1, <2>3 DEF LeftTyped
  <1>6. CASE Cloud!ScanPosture
    BY <1>2, <1>6 DEF Cloud!ScanPosture
  <1>7. CASE Cloud!ListBuckets
    <2>1. tLeft' = Cloud!FirstOf(BucketNames, MaxBuckets) \/ tLeft' = <<>>
      BY <1>7 DEF Cloud!ListBuckets
    <2>2. tPc' \in {"posture-regions", "regions"}
      BY <1>7 DEF Cloud!ListBuckets, Cloud!Then
    <2>3. BucketNames \in Seq(Cloud!Buckets) /\ MaxBuckets \in Nat
      BY CloudAssumption
    <2>4. tLeft' \in Seq(Cloud!Buckets)
      <3>1. Cloud!FirstOf(BucketNames, MaxBuckets) \in Seq(Cloud!Buckets)
        BY <2>3, FirstElements
      <3> QED
        BY <2>1, <3>1, EmptySeq, Zenon
    <2> QED
      BY <2>2, <2>4 DEF LeftTyped
  <1>8. CASE Cloud!LocateBucket
    <2>1. /\ tPc \in {"posture-regions", "regions"} /\ tPc' = tPc
          /\ tLeft # <<>> /\ tLeft' = Tail(tLeft)
      BY <1>8 DEF Cloud!LocateBucket, Cloud!Locating
    <2>2. tLeft' \in Seq(Cloud!Buckets)
      BY <2>1, HeadTail DEF LeftTyped
    <2> QED
      BY <2>1, <2>2 DEF LeftTyped
  <1>9. CASE Cloud!Discovered
    <2>1. tPc' \in {"posture", "content"}
      BY <1>9 DEF Cloud!Discovered, Cloud!Then
    <2>2. tPc = "posture-regions" =>
              tLeft' = Cloud!ChecksOf(Cloud!Without(BucketNames, Cloud!Buckets \ tFound))
      BY <1>9 DEF Cloud!Discovered
    <2>3. tPc' = "posture" => tPc = "posture-regions"
      BY <1>9 DEF Cloud!Discovered, Cloud!Then, Cloud!Locating
    <2>4. Cloud!Without(BucketNames, Cloud!Buckets \ tFound) \in Seq(Cloud!Buckets)
      <3>1. Cloud!Without(BucketNames, Cloud!Buckets \ tFound)
                = Without(BucketNames, Cloud!Buckets \ tFound)
        BY DEF Cloud!Without, Without
      <3> QED
        BY <3>1, CloudAssumption, WithoutLeaves
    <2>5. tPc' = "posture" => tLeft' \in Seq(Cloud!Buckets \X Cloud!Range(Cloud!BucketChecks))
      BY <2>2, <2>3, <2>4, ChecksOfList
    <2> QED
      BY <2>1, <2>5 DEF LeftTyped
  <1>10. CASE Cloud!ScanContent
    BY <1>2, <1>10 DEF Cloud!ScanContent
  <1>11. CASE Cloud!Expire
    BY <1>1, <1>11 DEF Cloud!Expire
  <1>12. ASSUME NEW b \in Cloud!Buckets,
                \/ Cloud!StartBucket(b) \/ Cloud!listObjects(b) \/ Cloud!NextObject(b)
                \/ Cloud!HeadObject(b) \/ Cloud!TakeSlot(b) \/ Cloud!downloadObject(b)
                \/ \E o \in Cloud!Range(Keys[b]), version \in Versions :
                       Cloud!WriteObject(b, o, version)
         PROVE  LeftTyped'
    <2>1. UNCHANGED <<tPc, tLeft>>
      BY <1>12 DEF Cloud!StartBucket, Cloud!listObjects, Cloud!NextObject, Cloud!HeadObject,
                   Cloud!TakeSlot, Cloud!downloadObject, Cloud!WriteObject, Cloud!Rest
    <2> QED
      BY <1>1, <2>1
  <1>13. CASE UNCHANGED tVars
    BY <1>1, <1>13 DEF tVars
  <1> QED
    BY <1>3, <1>4, <1>5, <1>6, <1>7, <1>8, <1>9, <1>10, <1>11, <1>12, <1>13 DEF Cloud!Next

\* The size that HeadObject makes out, and what it hands on to the download.
SizeOf(o) == IF tStore[o].size = 0 THEN tListed[o].size ELSE tStore[o].size
HandedOn(b, o) == Cloud!Sampling("slot", tWork[b], SizeOf(o), Label[o], FALSE)

\* That is a sample of the object at the head of the list.
LEMMA SamplingTyped ==
    ASSUME CloudTyped, SizesTyped, NEW b \in Cloud!Buckets, tWork[b].pc = "head",
           NEW o, o = Head(tWork[b].todo), tStore[o] # None
    PROVE  LET w == HandedOn(b, o)
           IN  w \in Samplings(b) /\ w.todo = tWork[b].todo /\ tStore[o].size \in {0, w.size}
  <1> DEFINE v == tWork[b]
             w == HandedOn(b, o)
  <1>1. v \in Works(b) /\ v.todo \in Seq(Objects(b)) /\ v.todo # <<>>
    BY WorkShape DEF CloudTyped
  <1>2. o \in Objects(b) /\ o \in DOMAIN Initial
    BY <1>1, HeadTail, ObjectsHere
  <1>3. tStore[o] \in Cloud!Range(Initial) \cup Versions
    BY <1>2 DEF CloudTyped
  <1>4. SizeOf(o) \in Nat /\ tStore[o].size \in {0, SizeOf(o)}
    BY <1>2, <1>3, CloudAssumption DEF SizesTyped, SizeOf
  <1>5. Label[o] \in Cloud!Range(Label)
    BY <1>2, CloudAssumption DEF Cloud!Range
  <1>6. w \in Samplings(b) /\ w.todo = v.todo /\ w.size = SizeOf(o)
    BY <1>1, <1>4, <1>5 DEF Samplings, Cloud!Sampling, HandedOn
  <1> QED
    BY <1>4, <1>6

\* What HeadObject does: an answer, silence about what is gone, empty or has the key
\* of a directory, or a sample.
LEMMA HeadDone ==
    ASSUME NEW b, Cloud!HeadObject(b)
    PROVE  LET o == Head(tWork[b].todo)
           IN  \/ Cloud!ReportsError(b)
               \/ Cloud!Reports(b, "unsupported", FALSE, "unreadable", FALSE)
               \/ /\ tStore[o] = None \/ o \in Placeholders \/ tStore[o].size = 0
                  /\ Cloud!Goto(b, Cloud!AtNext(Tail(tWork[b].todo))) /\ UNCHANGED Cloud!result
               \/ /\ tStore[o] # None
                  /\ Cloud!Goto(b, HandedOn(b, o)) /\ UNCHANGED Cloud!result
  <1> DEFINE o == Head(tWork[b].todo)
  <1>1. SizeOf(o) = 0 => tStore[o].size = 0
    BY DEF SizeOf
  <1>2. \/ Cloud!ReportsError(b)
        \/ Cloud!SkippedAs(b, FALSE)
        \/ /\ tStore[o] = None \/ o \in Placeholders \/ SizeOf(o) = 0
           /\ Cloud!Goto(b, Cloud!AtNext(Tail(tWork[b].todo))) /\ UNCHANGED Cloud!result
        \/ /\ tStore[o] # None
           /\ Cloud!Goto(b, HandedOn(b, o)) /\ UNCHANGED Cloud!result
    BY Zenon DEF Cloud!HeadObject, SizeOf, HandedOn
  <1> QED
    BY <1>1, <1>2, Zenon DEF Cloud!SkippedAs

\* One object after the other: the head, a slot, and the download.
LEMMA VerdictsHead ==
    ASSUME VerdictsInv, SizesTyped, NEW b \in Cloud!Buckets, Cloud!HeadObject(b)
    PROVE  VerdictsInv'
  <1> DEFINE v == tWork[b]
             o == Head(v.todo)
  <1>1. /\ v \in Works(b) /\ v.pc = "head" /\ v.todo \in Seq(Objects(b)) /\ v.todo # <<>>
        /\ CloudTyped
    BY WorkShape DEF VerdictsInv, CloudTyped, Cloud!HeadObject
  <1>2. o \in Objects(b) /\ Tail(v.todo) \in Seq(Objects(b)) /\ o \in DOMAIN Initial
    BY <1>1, HeadTail, ObjectsHere
  <1>3. UNCHANGED <<tStore, tWritten>>
    BY DEF Cloud!HeadObject, Cloud!Rest
  <1>4. /\ Cloud!AtNext(Tail(v.todo)) \in Works(b) /\ ~Fresh(Cloud!AtNext(Tail(v.todo)))
    BY <1>2 DEF Works, Cloud!AtNext, Fresh
  <1>5. UNCHANGED tFindings => Cloud!VerdictsTrue'
    BY DEF VerdictsInv, Cloud!VerdictsTrue, Cloud!CleanIsWhole, Cloud!PostureTrue, Cloud!Contents
  <1>6. CASE \/ Cloud!ReportsError(b)
             \/ Cloud!Goto(b, Cloud!AtNext(Tail(v.todo))) /\ UNCHANGED tFindings
    BY <1>3, <1>4, <1>5, <1>6, VerdictsGo DEF Cloud!ReportsError
  <1>7. CASE Cloud!Reports(b, "unsupported", FALSE, "unreadable", FALSE)
    <2>1. Cloud!VerdictsTrue'
      BY <1>7, VerdictReported DEF VerdictsInv, Fair
    <2>2. Cloud!Goto(b, Cloud!AtNext(Tail(v.todo)))
      BY <1>7 DEF Cloud!Reports
    <2> QED
      BY <1>3, <1>4, <2>1, <2>2, VerdictsGo
  <1>8. CASE Cloud!Goto(b, HandedOn(b, o)) /\ tStore[o] # None /\ UNCHANGED tFindings
    <2> DEFINE w == HandedOn(b, o)
    <2>1. w \in Samplings(b) /\ w.todo = v.todo /\ tStore[o].size \in {0, w.size}
      BY <1>1, <1>8, SamplingTyped
    <2> HIDE DEF w
    <2>2. w \in Works(b) /\ SizeKnown(w, tStore)
      BY <1>8, <2>1, SamplingShape DEF SizeKnown
    <2>3. Cloud!Goto(b, w)
      BY <1>8 DEF w
    <2> QED
      BY <1>3, <1>5, <1>8, <2>2, <2>3, VerdictsGo
  <1>9. UNCHANGED Cloud!result => UNCHANGED tFindings
    BY DEF Cloud!result
  <1> HIDE DEF v, o
  <1> QED
    BY <1>6, <1>7, <1>8, <1>9, HeadDone, Zenon DEF v, o

\* A slot for the download, and a deadline instead of it.
LEMMA VerdictsSlot ==
    ASSUME VerdictsInv, NEW b \in Cloud!Buckets, Cloud!TakeSlot(b)
    PROVE  VerdictsInv'
  <1> DEFINE v == tWork[b]
  <1>1. /\ v \in Works(b) /\ v.pc = "slot" /\ v \in Samplings(b) /\ CloudTyped
    BY WorkShape DEF VerdictsInv, CloudTyped, Cloud!TakeSlot
  <1>2. UNCHANGED <<tStore, tWritten>>
    BY DEF Cloud!TakeSlot, Cloud!Rest
  <1>3. CASE Cloud!Goto(b, [v EXCEPT !.pc = "get"]) /\ UNCHANGED tFindings
    <2> DEFINE w == [v EXCEPT !.pc = "get"]
    <2>1. w \in Samplings(b) /\ w.todo = v.todo /\ w.size = v.size /\ w.stale = v.stale
      BY <1>1, SamplingGets
    <2> HIDE DEF w
    <2>2. w \in Works(b) /\ (Fresh(w) => SizeKnown(w, tStore))
      <3>1. Fresh(w) => Fresh(v)
        BY <1>1, <2>1 DEF Fresh
      <3>2. Fresh(v) => SizeKnown(v, tStore)
        BY DEF VerdictsInv
      <3> QED
        BY <2>1, <3>1, <3>2, SamplingShape DEF SizeKnown
    <2>3. Cloud!VerdictsTrue'
      BY <1>3 DEF VerdictsInv, Cloud!VerdictsTrue, Cloud!CleanIsWhole, Cloud!PostureTrue,
         Cloud!Contents
    <2>4. Cloud!Goto(b, w)
      BY <1>3 DEF w
    <2> QED
      BY <1>2, <2>2, <2>3, <2>4, VerdictsGo
  <1>4. CASE Cloud!Reports(b, "unsupported", FALSE, "unreadable", v.stale)
    <2>1. Cloud!VerdictsTrue'
      BY <1>4, VerdictReported DEF VerdictsInv, Fair
    <2>2. Tail(v.todo) \in Seq(Objects(b)) /\ Cloud!Goto(b, Cloud!AtNext(Tail(v.todo)))
      BY <1>1, <1>4, SamplingShape, HeadTail DEF Cloud!Reports
    <2>3. /\ Cloud!AtNext(Tail(v.todo)) \in Works(b) /\ ~Fresh(Cloud!AtNext(Tail(v.todo)))
      BY <2>2 DEF Works, Cloud!AtNext, Fresh
    <2> QED
      BY <1>2, <2>1, <2>2, <2>3, VerdictsGo
  <1>5. \/ Cloud!Goto(b, [v EXCEPT !.pc = "get"]) /\ UNCHANGED Cloud!result
        \/ Cloud!Reports(b, "unsupported", FALSE, "unreadable", v.stale)
    BY Zenon DEF Cloud!TakeSlot, Cloud!SkippedAs
  <1>6. UNCHANGED Cloud!result => UNCHANGED tFindings
    BY DEF Cloud!result
  <1> HIDE DEF v
  <1> QED
    BY <1>3, <1>4, <1>5, <1>6, Zenon

\* What is said of an object that was read: its sensitive content is in one of
\* its units, and a sample taken to be the whole object is as long as the object.
LEMMA FindingTrue ==
    ASSUME NEW o \in DOMAIN Initial, NEW obj, NEW size, NEW as, obj.size \in Nat,
           obj.secret \in 0..obj.size, NEW stale \in BOOLEAN, ~stale => obj.size \in {0, size},
           as = "structured" => obj.size <= MaxObject,
           NEW text \in {"shown", "hidden", "unreadable"}
    PROVE  LET limit == IF as = "structured" THEN MaxObject ELSE Cloud!Least(size, MaxSample)
               status == Cloud!classificationFinding(o, text,
                             obj.secret \in 1..Cloud!Least(obj.size, limit),
                             Cloud!Whole(as, size))
           IN  ~stale => Fair(o, status, obj.secret = 0, text)
  <1> DEFINE limit == IF as = "structured" THEN MaxObject ELSE Cloud!Least(size, MaxSample)
             n == Cloud!Least(obj.size, limit)
             sensitive == obj.secret \in 1..n
             status == Cloud!classificationFinding(o, text, sensitive, Cloud!Whole(as, size))
  <1>1. MaxObject \in Nat /\ MaxSample \in Nat
    BY CloudAssumption
  <1>2. ASSUME ~stale, Cloud!Whole(as, size), obj.secret # 0 PROVE sensitive
    <2>1. obj.size # 0 /\ size = obj.size
      BY <1>2
    <2>2. n = obj.size
      <3>1. CASE as = "structured"
        BY <1>1, <3>1, LeastOf
      <3>2. CASE as # "structured"
        <4>1. size <= MaxSample
          BY <1>2, <3>2 DEF Cloud!Whole
        <4>2. limit = size
          BY <1>1, <2>1, <3>2, <4>1, LeastOf
        <4> HIDE DEF limit
        <4> QED
          BY <2>1, <4>2, LeastOf
      <3> QED
        BY <3>1, <3>2
    <2> HIDE DEF n
    <2> QED
      BY <1>2, <2>2
  <1> HIDE DEF n
  <1>3. sensitive \in BOOLEAN /\ (sensitive => obj.secret # 0)
    OBVIOUS
  <1> HIDE DEF sensitive
  <1>4. NameSays[o] \in {"nothing", "public", "sensitive"}
    BY CloudAssumption
  <1>5. /\ status = "noncompliant" => sensitive \/ NameSays[o] = "sensitive"
        /\ status = "compliant" => /\ Cloud!Whole(as, size)
                                  /\ \/ NameSays[o] = "public" \/ text = "hidden"
                                     \/ ~sensitive
    BY <1>3, <1>4 DEF Cloud!classificationFinding
  <1> HIDE DEF status
  <1>6. ~stale => Fair(o, status, obj.secret = 0, text)
    BY <1>2, <1>3, <1>5 DEF Fair
  <1> QED
    BY <1>6, Zenon DEF status, sensitive, n, limit

\* Of an object that is gone nothing is said but what its name says.
LEMMA FindingGone ==
    ASSUME NEW o, NEW text
    PROVE  Fair(o, Cloud!classificationFinding(o, text, FALSE, FALSE), TRUE, text)
  BY DEF Fair, Cloud!classificationFinding

\* The download, and what is said of the object.
LEMMA VerdictsDownload ==
    ASSUME VerdictsInv, NEW b \in Cloud!Buckets, Cloud!downloadObject(b)
    PROVE  VerdictsInv'
  <1> DEFINE v == tWork[b]
             o == Head(v.todo)
             obj == tStore[o]
             limit == IF v.as = "structured" THEN MaxObject ELSE Cloud!Least(v.size, MaxSample)
             text == Cloud!Read(o, obj)
             gone == Cloud!classificationFinding(o, text, FALSE, FALSE)
             status == Cloud!classificationFinding(o, text,
                           obj.secret \in 1..Cloud!Least(obj.size, limit),
                           Cloud!Whole(v.as, v.size))
  <1>1. /\ v \in Works(b) /\ v.pc = "get" /\ v \in Samplings(b) /\ CloudTyped
    BY WorkShape DEF VerdictsInv, CloudTyped, Cloud!downloadObject
  <1>2. v.todo \in Seq(Objects(b)) /\ v.todo # <<>> /\ v.size \in Nat /\ v.stale \in BOOLEAN
    <2> HIDE DEF v
    <2> QED
      BY <1>1, SamplingShape
  <1>3. o \in DOMAIN Initial /\ Tail(v.todo) \in Seq(Objects(b))
    BY <1>2, HeadTail, ObjectsHere
  <1>4. UNCHANGED <<tStore, tWritten>>
    BY DEF Cloud!downloadObject, Cloud!Rest
  <1>5. Fresh(v) => SizeKnown(v, tStore)
    BY DEF VerdictsInv
  <1>6. /\ Cloud!AtNext(Tail(v.todo)) \in Works(b) /\ ~Fresh(Cloud!AtNext(Tail(v.todo)))
    BY <1>3 DEF Works, Cloud!AtNext, Fresh
  <1>7. UNCHANGED tFindings => Cloud!VerdictsTrue'
    BY DEF VerdictsInv, Cloud!VerdictsTrue, Cloud!CleanIsWhole, Cloud!PostureTrue, Cloud!Contents
  <1>8. \/ Cloud!ReportsError(b)
        \/ Cloud!Reports(b, "unsupported", FALSE, "unreadable", v.stale)
        \/ Cloud!Reports(b, gone, TRUE, text, v.stale)
        \/ /\ Cloud!Goto(b, Cloud!Sampling("slot", v, v.size, "structured", v.stale))
           /\ UNCHANGED Cloud!result
        \/ /\ obj # None /\ ~(v.as = "structured" /\ obj.size > MaxObject)
           /\ Cloud!Reports(b, status, obj.secret = 0, text, v.stale)
    BY Zenon DEF Cloud!downloadObject, Cloud!SkippedAs
  <1>9. CASE Cloud!ReportsError(b)
    <2>1. Cloud!Goto(b, Cloud!AtNext(Tail(v.todo))) /\ UNCHANGED tFindings
      BY <1>9 DEF Cloud!ReportsError
    <2> QED
      BY <1>4, <1>6, <1>7, <2>1, VerdictsGo
  <1>10. ASSUME NEW s, NEW clean, NEW said, Cloud!Reports(b, s, clean, said, v.stale),
                ~v.stale => Fair(o, s, clean, said)
         PROVE  VerdictsInv'
    <2>1. Cloud!VerdictsTrue'
      BY <1>10, VerdictReported DEF VerdictsInv
    <2>2. Cloud!Goto(b, Cloud!AtNext(Tail(v.todo)))
      BY <1>10 DEF Cloud!Reports
    <2> QED
      BY <1>4, <1>6, <2>1, <2>2, VerdictsGo
  <1>11. CASE /\ Cloud!Goto(b, Cloud!Sampling("slot", v, v.size, "structured", v.stale))
              /\ UNCHANGED Cloud!result
    <2> DEFINE w == Cloud!Sampling("slot", v, v.size, "structured", v.stale)
    <2>1. w \in Samplings(b) /\ w.todo = v.todo /\ w.size = v.size /\ w.stale = v.stale
      BY <1>2 DEF Samplings, Cloud!Sampling
    <2>2. Cloud!Goto(b, w) /\ UNCHANGED tFindings
      BY <1>11 DEF w, Cloud!result
    <2> HIDE DEF w
    <2>3. Fresh(w) => SizeKnown(w, tStore)
      BY <1>1, <1>5, <2>1 DEF Fresh, SizeKnown
    <2> QED
      BY <1>4, <1>7, <2>1, <2>2, <2>3, SamplingShape, VerdictsGo
  <1>12. CASE Cloud!Reports(b, "unsupported", FALSE, "unreadable", v.stale)
    BY <1>10, <1>12 DEF Fair
  <1>13. CASE Cloud!Reports(b, gone, TRUE, text, v.stale)
    BY <1>10, <1>13, FindingGone
  <1>14. CASE /\ obj # None /\ ~(v.as = "structured" /\ obj.size > MaxObject)
              /\ Cloud!Reports(b, status, obj.secret = 0, text, v.stale)
    <2>1. obj \in Cloud!Range(Initial) \cup Versions
      BY <1>1, <1>3 DEF CloudTyped
    <2>2. /\ obj.size \in Nat /\ obj.secret \in 0..obj.size /\ MaxObject \in Nat
          /\ obj.read \in [{"text", "format"} -> {"shown", "hidden", "unreadable"}]
      BY <1>14, <2>1, CloudAssumption
    <2>3. ~v.stale => obj.size \in {0, v.size}
      BY <1>1, <1>5 DEF Fresh, SizeKnown
    <2>4. v.as = "structured" => obj.size <= MaxObject
      <3>1. obj.size \in Nat /\ MaxObject \in Nat
        BY <2>2
      <3>2. ~(v.as = "structured" /\ obj.size > MaxObject)
        BY <1>14
      <3> HIDE DEF obj, v
      <3> QED
        BY ONLY <3>1, <3>2
    <2>5. text \in {"shown", "hidden", "unreadable"}
      BY <1>3, <1>14, <2>2, CloudAssumption DEF Cloud!Read
    <2> HIDE DEF obj, text, o
    <2>6. ~v.stale => Fair(o, status, obj.secret = 0, text)
      BY <1>2, <1>3, <2>2, <2>3, <2>4, <2>5, FindingTrue
    <2> QED
      BY <1>10, <1>14, <2>6
  <1> HIDE DEF v, o, obj, text, gone, status
  <1> QED
    BY <1>8, <1>9, <1>11, <1>12, <1>13, <1>14, Zenon

\* The owner writes: what a goroutine holds of that object is stale from then on.
LEMMA WrittenTyped ==
    ASSUME CloudTyped, NEW b \in Cloud!Buckets, NEW o \in Objects(b), NEW version \in Versions,
           Cloud!WriteObject(b, o, version)
    PROVE  /\ CloudTyped'
           /\ \A c \in Cloud!Buckets :
                  \/ tWork'[c] = tWork[c]
                  \/ tWork[c] \in Samplings(c) /\ tWork'[c] = [tWork[c] EXCEPT !.stale = TRUE]
           /\ tWork[b] \in Samplings(b) /\ Head(tWork[b].todo) = o => tWork'[b].stale
           /\ tStore' = [tStore EXCEPT ![o] = version] /\ tWritten' = tWritten \cup {o}
  <1>1. /\ tStore' = [tStore EXCEPT ![o] = version] /\ tWritten' = tWritten \cup {o}
        /\ tWork' = IF tWork[b].pc \in {"slot", "get"} /\ Head(tWork[b].todo) = o
                    THEN [tWork EXCEPT ![b].stale = TRUE] ELSE tWork
    BY DEF Cloud!WriteObject
  <1>2. o \in DOMAIN Initial
    BY ObjectsHere
  <1>3. \A c \in Cloud!Buckets :
            \/ tWork'[c] = tWork[c]
            \/ tWork[c] \in Samplings(c) /\ tWork'[c] = [tWork[c] EXCEPT !.stale = TRUE]
    BY <1>1, WorkShape DEF CloudTyped
  <1>4. tWork[b] \in Samplings(b) /\ Head(tWork[b].todo) = o => tWork'[b].stale
    <2>1. ASSUME tWork[b] \in Samplings(b), Head(tWork[b].todo) = o PROVE tWork'[b].stale
      <3>1. tWork'[b] = [tWork[b] EXCEPT !.stale = TRUE]
        BY <1>1, <2>1, SamplingShape DEF CloudTyped
      <3> QED
        BY <2>1, <3>1, SamplingStale
    <2> QED
      BY <2>1
  <1>5. DOMAIN tWork' = Cloud!Buckets
    BY <1>1 DEF CloudTyped
  <1>6. \A c \in Cloud!Buckets : tWork'[c] \in Works(c)
    BY <1>3, SamplingStale DEF CloudTyped
  <1>7. /\ DOMAIN tStore' = DOMAIN Initial
        /\ \A p \in DOMAIN Initial : tStore'[p] \in Cloud!Range(Initial) \cup Versions
        /\ \A p \in DOMAIN Initial : p \in tWritten' \/ tStore'[p] = Initial[p]
    BY <1>1, <1>2 DEF CloudTyped
  <1> QED
    BY <1>1, <1>3, <1>4, <1>5, <1>6, <1>7 DEF CloudTyped

\* A write makes what is held of the object stale, and nothing else.
LEMMA VerdictsWritten ==
    ASSUME VerdictsInv, NEW b \in Cloud!Buckets, NEW o \in Objects(b), NEW version \in Versions,
           Cloud!WriteObject(b, o, version)
    PROVE  VerdictsInv'
  <1>1. CloudTyped /\ UNCHANGED tFindings /\ o \in DOMAIN Initial
    BY ObjectsHere DEF VerdictsInv, Cloud!WriteObject, Cloud!result
  <1>2. /\ CloudTyped'
        /\ \A c \in Cloud!Buckets :
               \/ tWork'[c] = tWork[c]
               \/ tWork[c] \in Samplings(c) /\ tWork'[c] = [tWork[c] EXCEPT !.stale = TRUE]
        /\ tWork[b] \in Samplings(b) /\ Head(tWork[b].todo) = o => tWork'[b].stale
        /\ tStore' = [tStore EXCEPT ![o] = version]
    BY <1>1, WrittenTyped
  <1>3. ASSUME NEW c \in Cloud!Buckets, Fresh(tWork'[c]) PROVE SizeKnown(tWork'[c], tStore')
    <2>1. tWork'[c] = tWork[c]
      <3>1. ~tWork'[c].stale
        BY <1>3 DEF Fresh
      <3>2. ~(tWork[c] \in Samplings(c) /\ tWork'[c] = [tWork[c] EXCEPT !.stale = TRUE])
        BY <3>1, SamplingStale
      <3> QED
        BY <1>2, <3>2
    <2>2. tWork[c] \in Samplings(c) /\ SizeKnown(tWork[c], tStore)
      BY <1>1, <1>3, <2>1, WorkShape DEF VerdictsInv, CloudTyped, Fresh
    <2>3. Head(tWork[c].todo) \in Objects(c) /\ Head(tWork[c].todo) \in DOMAIN Initial
      <3>1. tWork[c].todo \in Seq(Objects(c)) /\ tWork[c].todo # <<>>
        BY <2>2, SamplingShape
      <3> QED
        BY <3>1, HeadTail, ObjectsHere
    <2>4. Head(tWork[c].todo) # o
      <3>1. CASE c = b
        BY <1>2, <1>3, <2>2, <3>1 DEF Fresh
      <3>2. CASE c # b
        BY <2>3, <3>2, CloudAssumption DEF Objects
      <3> QED
        BY <3>1, <3>2
    <2>5. tStore'[Head(tWork[c].todo)] = tStore[Head(tWork[c].todo)]
      BY <1>1, <1>2, <2>3, <2>4 DEF CloudTyped
    <2> QED
      BY <2>1, <2>2, <2>5 DEF SizeKnown
  <1>4. Cloud!VerdictsTrue'
    BY <1>1 DEF VerdictsInv, Cloud!VerdictsTrue, Cloud!CleanIsWhole, Cloud!PostureTrue,
       Cloud!Contents
  <1> QED
    BY <1>2, <1>3, <1>4 DEF VerdictsInv

\* A goroutine begins, lists, or looks for its next object: nothing is sampled.
LEMMA VerdictsAside ==
    ASSUME VerdictsInv, NEW b \in Cloud!Buckets, NEW w \in Works(b), Cloud!Goto(b, w),
           w.pc \in {"list", "next", "head", "end"}, UNCHANGED <<tStore, tWritten, tFindings>>
    PROVE  VerdictsInv'
  <1>1. Cloud!VerdictsTrue'
    BY DEF VerdictsInv, Cloud!VerdictsTrue, Cloud!CleanIsWhole, Cloud!PostureTrue, Cloud!Contents
  <1>2. ~Fresh(w)
    BY DEF Fresh
  <1> QED
    BY <1>1, <1>2, VerdictsGo

\* What a goroutine that is about to take its next object does.
LEMMA NextTyped ==
    ASSUME CloudTyped, NEW b \in Cloud!Buckets, Cloud!NextObject(b) \/ Cloud!StartBucket(b)
    PROVE  /\ \E w \in Works(b) : Cloud!Goto(b, w) /\ w.pc \in {"list", "head", "end"}
           /\ UNCHANGED <<tStore, tWritten, tFindings>>
  <1>1. UNCHANGED <<tStore, tWritten, tFindings>>
    BY DEF Cloud!NextObject, Cloud!StartBucket, Cloud!Rest, Cloud!result
  <1>2. CASE Cloud!StartBucket(b)
    <2>1. Cloud!Goto(b, [pc |-> "list", got |-> <<>>])
      BY <1>2 DEF Cloud!StartBucket
    <2>2. [pc |-> "list", got |-> <<>>] \in Works(b)
      BY DEF Works
    <2> QED
      BY <1>1, <2>1, <2>2
  <1>3. CASE Cloud!NextObject(b)
    <2>1. tWork[b].pc = "next" /\ tWork[b].todo \in Seq(Objects(b))
      BY <1>3, WorkShape DEF CloudTyped, Cloud!NextObject
    <2>2. \/ Cloud!Goto(b, [pc |-> "end"])
          \/ tWork[b].todo # <<>> /\ Cloud!Goto(b, [pc |-> "head", todo |-> tWork[b].todo])
      BY <1>3, Zenon DEF Cloud!NextObject
    <2>3. [pc |-> "end"] \in Works(b)
      BY DEF Works
    <2>4. tWork[b].todo # <<>> => [pc |-> "head", todo |-> tWork[b].todo] \in Works(b)
      BY <2>1 DEF Works
    <2> QED
      BY <1>1, <2>2, <2>3, <2>4
  <1> QED
    BY <1>2, <1>3

\* The sizes are those of objects that are there.
LEMMA SizesListed ==
    ASSUME CloudTyped, SizesTyped, NEW b \in Cloud!Buckets, Cloud!listObjects(b)
    PROVE  SizesTyped'
  <1> DEFINE got == tWork[b].got
             more == Cloud!Without(Keys[b], {o \in Cloud!Range(Keys[b]) :
                         \/ tStore[o] = None
                         \/ \E g \in Cloud!Range(got) : ~Cloud!Before(b, g, o)})
             Page(n) == Cloud!Range(SubSeq(more, 1, n))
             Sized(n) == [o \in DOMAIN tListed |->
                             IF o \in Page(n)
                             THEN [size |-> tStore[o].size, archived |-> tStore[o].archived]
                             ELSE tListed[o]]
  <1>1. UNCHANGED tListed \/ \E n \in Cloud!Least(1, Len(more))..Len(more) : tListed' = Sized(n)
    BY Zenon DEF Cloud!listObjects
  <1>2. more \in Seq(Objects(b)) /\ Leaves(Keys[b], Absent(b, got), Len(Keys[b]), more)
    <2>1. more = Cloud!Without(Keys[b], Absent(b, got))
      BY DEF Absent, Objects
    <2> HIDE DEF got, more
    <2> QED
      BY <2>1, MoreHere
  <1>3. \A a \in 1..Len(more) : more[a] \notin Absent(b, got)
    BY <1>2, Zenon DEF Leaves
  <1> HIDE DEF more
  <1>4. Len(more) \in Nat /\ Cloud!Least(1, Len(more)) \in Nat
    BY <1>2 DEF Cloud!Least
  <1>5. ASSUME NEW n \in Cloud!Least(1, Len(more))..Len(more), NEW o \in Page(n)
        PROVE  tStore[o].size \in Nat
    <2>1. n \in 0..Len(more)
      BY <1>4
    <2>2. Page(n) = FirstOnes(more, n)
      BY <1>2, <2>1, FirstPart
    <2>3. PICK a \in 1..Len(more) : o = more[a]
      BY <1>5, <2>1, <2>2 DEF FirstOnes
    <2>4. o \in Objects(b) /\ o \in DOMAIN Initial
      BY <1>2, <2>3, ObjectsHere
    <2>5. tStore[o] # None /\ tStore[o] \in Cloud!Range(Initial) \cup Versions
      BY <1>3, <2>3, <2>4 DEF Absent, CloudTyped
    <2> QED
      BY <2>5, CloudAssumption
  <1> HIDE DEF Page
  <1>6. \A n \in Cloud!Least(1, Len(more))..Len(more) :
            /\ DOMAIN Sized(n) = DOMAIN Initial
            /\ \A o \in DOMAIN Initial : Sized(n)[o].size \in Nat
    BY <1>5 DEF SizesTyped
  <1> HIDE DEF Sized
  <1> QED
    BY <1>1, <1>6 DEF SizesTyped

\* No other step changes them.
LEMMA SizesSteps ==
    CloudTyped /\ SizesTyped /\ [Cloud!Next]_tVars => SizesTyped'
  <1> SUFFICES ASSUME CloudTyped, SizesTyped, [Cloud!Next]_tVars PROVE SizesTyped'
    OBVIOUS
  <1>1. ASSUME UNCHANGED tListed PROVE SizesTyped'
    BY <1>1 DEF SizesTyped
  <1>2. CASE \/ Cloud!HandleAWSS3Scan \/ Cloud!assessAccountPosture \/ Cloud!assessBucketPosture
             \/ Cloud!ScanPosture \/ Cloud!ListBuckets \/ Cloud!LocateBucket \/ Cloud!Discovered
             \/ Cloud!ScanContent \/ Cloud!Expire \/ UNCHANGED tVars
    BY <1>1, <1>2 DEF Cloud!HandleAWSS3Scan, Cloud!assessAccountPosture, Cloud!ScanPosture,
       Cloud!assessBucketPosture, Cloud!ListBuckets, Cloud!LocateBucket, Cloud!Discovered,
       Cloud!ScanContent, Cloud!Expire, tVars
  <1>3. ASSUME NEW b \in Cloud!Buckets,
               \/ Cloud!StartBucket(b) \/ Cloud!NextObject(b) \/ Cloud!HeadObject(b)
               \/ Cloud!TakeSlot(b) \/ Cloud!downloadObject(b)
               \/ \E o \in Cloud!Range(Keys[b]), version \in Versions :
                      Cloud!WriteObject(b, o, version)
        PROVE  SizesTyped'
    BY <1>1, <1>3 DEF Cloud!StartBucket, Cloud!NextObject, Cloud!HeadObject, Cloud!TakeSlot,
       Cloud!downloadObject, Cloud!WriteObject, Cloud!Rest
  <1> QED
    BY <1>2, <1>3, SizesListed DEF Cloud!Next

\* Every step of a scan leaves the verdicts true.
LEMMA VerdictsSteps ==
    VerdictsInv /\ LeftTyped /\ SizesTyped /\ [Cloud!Next]_tVars => VerdictsInv'
  <1> SUFFICES ASSUME VerdictsInv, LeftTyped, SizesTyped, [Cloud!Next]_tVars
               PROVE  VerdictsInv'
    OBVIOUS
  <1>1. CloudTyped
    BY DEF VerdictsInv
  <1>2. ASSUME UNCHANGED <<tStore, tWritten, tWork>>, Cloud!VerdictsTrue' PROVE VerdictsInv'
    BY <1>2 DEF VerdictsInv, CloudTyped
  <1>3. UNCHANGED tFindings => Cloud!VerdictsTrue'
    BY DEF VerdictsInv, Cloud!VerdictsTrue, Cloud!CleanIsWhole, Cloud!PostureTrue, Cloud!Contents
  <1>4. CASE \/ Cloud!HandleAWSS3Scan \/ Cloud!ScanPosture \/ Cloud!ListBuckets
             \/ Cloud!LocateBucket \/ Cloud!ScanContent \/ Cloud!Expire \/ UNCHANGED tVars
    <2>1. UNCHANGED <<tStore, tWritten, tWork, tFindings>>
      BY <1>4 DEF Cloud!HandleAWSS3Scan, Cloud!ScanPosture, Cloud!ListBuckets, Cloud!LocateBucket,
                  Cloud!ScanContent, Cloud!Expire, Cloud!result, tVars
    <2> QED
      BY <1>2, <1>3, <2>1
  <1>5. CASE Cloud!assessAccountPosture
    <2>1. "public-access-block" \in Cloud!Range(Cloud!BucketChecks)
      BY ChecksShape DEF Cloud!BucketChecks
    <2>2. Cloud!Assess(AccountID, "public-access-block") /\ UNCHANGED <<tStore, tWritten, tWork>>
      BY <1>5 DEF Cloud!assessAccountPosture
    <2> QED
      BY <1>2, <2>1, <2>2, VerdictAssessed DEF VerdictsInv
  <1>6. CASE Cloud!assessBucketPosture
    <2>1. /\ tPc = "posture" /\ tLeft # <<>> /\ UNCHANGED <<tStore, tWritten, tWork>>
          /\ Cloud!Assess(Head(tLeft)[1], Head(tLeft)[2]) \/ UNCHANGED tFindings
      BY <1>6 DEF Cloud!assessBucketPosture
    <2>2. tLeft \in Seq(Cloud!Buckets \X Cloud!Range(Cloud!BucketChecks))
      BY <2>1 DEF LeftTyped
    <2>3. Head(tLeft) \in Cloud!Buckets \X Cloud!Range(Cloud!BucketChecks)
      BY <2>1, <2>2, HeadTail
    <2>4. Head(tLeft)[2] \in Cloud!Range(Cloud!BucketChecks)
      BY <2>3
    <2> QED
      BY <1>2, <1>3, <2>1, <2>4, VerdictAssessed DEF VerdictsInv
  <1>7. CASE Cloud!Discovered
    <2>1. /\ UNCHANGED <<tStore, tWritten, tFindings>>
          /\ \/ UNCHANGED tWork
             \/ tWork' = [b \in Cloud!Buckets |->
                             IF b \in tFound THEN [pc |-> "ready"] ELSE Cloud!Idle]
      BY <1>7 DEF Cloud!Discovered, Cloud!result
    <2>2. CASE UNCHANGED tWork
      BY <1>2, <1>3, <2>1, <2>2
    <2>3. CASE tWork' = [b \in Cloud!Buckets |->
                             IF b \in tFound THEN [pc |-> "ready"] ELSE Cloud!Idle]
      <3>1. DOMAIN tWork' = Cloud!Buckets
            /\ \A b \in Cloud!Buckets : tWork'[b] \in Works(b) /\ ~Fresh(tWork'[b])
        BY <2>3 DEF Works, Fresh, Cloud!Idle
      <3> QED
        BY <1>1, <1>3, <2>1, <3>1 DEF VerdictsInv, CloudTyped
    <2> QED
      BY <2>1, <2>2, <2>3
  <1>8. ASSUME NEW b \in Cloud!Buckets, Cloud!listObjects(b) PROVE VerdictsInv'
    <2>1. UNCHANGED <<tStore, tWritten, tFindings>>
      BY <1>1, <1>8, PageListed DEF Cloud!listObjects, Cloud!Rest
    <2> QED
      BY <1>1, <1>8, <2>1, PageHere, VerdictsAside
  <1>9. ASSUME NEW b \in Cloud!Buckets, Cloud!NextObject(b) \/ Cloud!StartBucket(b)
        PROVE  VerdictsInv'
    BY <1>1, <1>9, NextTyped, VerdictsAside
  <1>10. ASSUME NEW b \in Cloud!Buckets, NEW o \in Cloud!Range(Keys[b]), NEW version \in Versions,
                Cloud!WriteObject(b, o, version)
         PROVE  VerdictsInv'
    BY <1>10, VerdictsWritten DEF Objects
  <1> QED
    BY <1>4, <1>5, <1>6, <1>7, <1>8, <1>9, <1>10, VerdictsHead, VerdictsSlot, VerdictsDownload
    DEF Cloud!Next

\* Nothing is found or held before the scan.
LEMMA VerdictsStart == Cloud!Init => VerdictsInv /\ LeftTyped /\ SizesTyped
  <1> SUFFICES ASSUME Cloud!Init PROVE VerdictsInv /\ LeftTyped /\ SizesTyped
    OBVIOUS
  <1>1. LeftTyped
    BY DEF Cloud!Init, LeftTyped
  <1>2. CloudTyped /\ \A b \in Cloud!Buckets : ~Fresh(tWork[b])
    <2>1. tWork = [b \in Cloud!Buckets |-> [pc |-> "idle"]] /\ tStore = Initial
      BY DEF Cloud!Init, Cloud!Idle
    <2>2. \A b \in Cloud!Buckets : tWork[b] \in Works(b) /\ ~Fresh(tWork[b])
      BY <2>1 DEF Works, Fresh
    <2>3. \A o \in DOMAIN Initial : tStore[o] \in Cloud!Range(Initial) \cup Versions
      BY <2>1 DEF Cloud!Range
    <2> QED
      BY <2>1, <2>2, <2>3 DEF CloudTyped
  <1>3. Cloud!VerdictsTrue
    BY DEF Cloud!Init, Cloud!VerdictsTrue, Cloud!CleanIsWhole, Cloud!PostureTrue, Cloud!Contents
  <1>4. SizesTyped
    BY DEF Cloud!Init, SizesTyped
  <1> QED
    BY <1>1, <1>2, <1>3, <1>4 DEF VerdictsInv

\* An object is called compliant only if it was read as a whole and nothing was in
\* it, save by its name or for what its text hides, and not compliant only if
\* something was in it or its name is that of a secret; no call that was denied or
\* failed blames or clears a setting: for any number of buckets and objects, any
\* limits and any writes meanwhile (scanObject, classificationFinding,
\* assessBucketPosture).
THEOREM VerdictsAreTrue == ConsoleSpec => []VerdictsTrue
  <1> DEFINE I == VerdictsInv /\ LeftTyped /\ SizesTyped
  <1>1. ConsoleInit => I
    BY VerdictsStart DEF ConsoleInit
  <1>2. I /\ [ConsoleNext]_consoleVars => I'
    <2>1. [ConsoleNext]_consoleVars => [Cloud!Next]_tVars
      BY DEF ConsoleNext, consoleVars
    <2>2. VerdictsInv => CloudTyped
      BY DEF VerdictsInv
    <2> QED
      BY <2>1, <2>2, VerdictsSteps, LeftSteps, SizesSteps
  <1>3. I => VerdictsTrue
    BY DEF VerdictsInv, VerdictsTrue
  <1> HIDE DEF I
  <1> QED
    BY <1>1, <1>2, <1>3, PTL DEF ConsoleSpec

----------------------------------------------------------------------------
(* Cloud scans: nothing is passed over *)

Checks == Cloud!Range(Cloud!BucketChecks)
Answered(o) == (\E f \in Cloud!Contents : f.resource = o) \/ Cloud!Said("content", o)
Assessed == \E f \in tFindings : f.resource = AccountID

\* The objects of a list are sorted before o, which is still to be listed.
AllBefore(b, list, o) == \A g \in Cloud!Range(list) : Cloud!Before(b, g, o)

\* The goroutine of bucket b, in state w, is still to come to object o, or gave up
\* when the deadline had passed.
Covers(b, o, w) ==
    \/ w.pc = "ready"
    \/ w.pc = "list" /\ (o \in Cloud!Range(w.got) \/ AllBefore(b, w.got, o))
    \/ w.pc \in {"next", "head", "slot", "get"} /\ o \in Cloud!Range(w.todo)
    \/ w.pc = "end" /\ tAborted
\* There is nothing to say of an object that is not there, has the key of a directory
\* or is empty.
Silent(o) == Initial[o] = None \/ o \in Placeholders \/ Initial[o].size = 0
Minded(b, o) == Silent(o) \/ o \in tWritten \/ Answered(o) \/ Covers(b, o, tWork[b])

\* Where a bucket is while a content scan goes on.
Complete(b) == tContent /\ ~tTruncated /\ ~Cloud!Undiscovered(b) /\ ~Cloud!Said("content", b)
Located(b) == b \in tFound \/ b \in Cloud!Range(tLeft)
ObjectsMinded(b) ==
    Complete(b) =>
        \/ tPc \in {"asked", "refused", "account", "posture-buckets", "posture-regions",
                    "posture", "buckets"}
        \/ tPc = "regions" /\ Located(b)
        \/ tPc \in {"content", "done"} /\ \A o \in Objects(b) : Minded(b, o)

\* The same of its checks.
Certified(b) ==
    Assessed /\ ~tTruncated /\ ~Cloud!Undiscovered(b) /\ ~Cloud!Said("posture", "cancelled")
Checked(b, check) ==
    \/ Cloud!Reported(b, check)
    \/ tPc = "posture" /\ <<b, check>> \in Cloud!Range(tLeft)
ChecksMinded(b) ==
    Certified(b) =>
        \/ tPc = "posture-buckets"
        \/ tPc = "posture-regions" /\ Located(b)
        \/ /\ tPc \in {"posture", "buckets", "regions", "content", "done"}
           /\ \A check \in Checks : Checked(b, check)

\* Goroutines run only during the content scan, and one that gave up says so in the
\* answer.
ContentDone ==
    /\ tPc # "content" => \A b \in Cloud!Buckets : tWork[b].pc \in {"idle", "end"}
    /\ tPc = "done" /\ tContent /\ tAborted => Cloud!Said("content", "cancelled")

AccountedInv ==
    /\ tPc \in {"asked", "account"} => tFindings = {}
    /\ ContentDone
    /\ \A b \in Cloud!Buckets : ObjectsMinded(b) /\ ChecksMinded(b)

\* Nothing is taken back during a scan.
Grows ==
    /\ tErrors \subseteq tErrors' /\ tFindings \subseteq tFindings' /\ tWritten \subseteq tWritten'
    /\ (tTruncated => tTruncated') /\ (tAborted => tAborted')

\* Errors, findings and the flags of the result are only added to.
LEMMA ScanGrows ==
    ASSUME Cloud!Next \/ UNCHANGED tVars
    PROVE  Grows
  <1> USE DEF Grows, Cloud!result, Cloud!Rest, Cloud!Error
  <1>1. CASE \/ Cloud!HandleAWSS3Scan \/ Cloud!ScanPosture \/ Cloud!Discovered \/ Cloud!Expire
             \/ UNCHANGED tVars
    BY <1>1 DEF Cloud!HandleAWSS3Scan, Cloud!ScanPosture, Cloud!Discovered, Cloud!Expire, tVars
  <1>2. CASE Cloud!assessAccountPosture \/ Cloud!assessBucketPosture
    BY <1>2 DEF Cloud!assessAccountPosture, Cloud!assessBucketPosture, Cloud!Assess
  <1>3. CASE Cloud!ListBuckets
    <2>1. UNCHANGED <<tFindings, tWritten, tAborted>>
      BY <1>3 DEF Cloud!ListBuckets
    <2>2. UNCHANGED tErrors \/ Cloud!Error("discovery", "buckets")
      BY <1>3, Zenon DEF Cloud!ListBuckets
    <2>3. tTruncated => tTruncated'
      <3>1. UNCHANGED tTruncated \/ \E x : tTruncated' = (tTruncated \/ x)
        BY <1>3, Zenon DEF Cloud!ListBuckets
      <3> QED
        BY <3>1, Zenon
    <2> QED
      BY <2>1, <2>2, <2>3
  <1>4. CASE Cloud!LocateBucket
    BY <1>4 DEF Cloud!LocateBucket
  <1>5. CASE Cloud!ScanContent
    BY <1>5 DEF Cloud!ScanContent
  <1>6. ASSUME NEW b \in Cloud!Buckets, Cloud!StartBucket(b) \/ Cloud!NextObject(b)
        PROVE  Grows
    BY <1>6 DEF Cloud!StartBucket, Cloud!NextObject
  <1>7. ASSUME NEW b \in Cloud!Buckets, Cloud!HeadObject(b) \/ Cloud!TakeSlot(b)
        PROVE  Grows
    <2>1. UNCHANGED <<tWritten, tAborted>>
      BY <1>7 DEF Cloud!HeadObject, Cloud!TakeSlot
    <2>2. \/ UNCHANGED Cloud!result \/ Cloud!ReportsError(b)
          \/ \E stale : Cloud!Reports(b, "unsupported", FALSE, "unreadable", stale)
      BY <1>7, HeadDone, Zenon DEF Cloud!TakeSlot, Cloud!SkippedAs
    <2> QED
      BY <2>1, <2>2 DEF Cloud!Reports, Cloud!ReportsError
  <1>8. ASSUME NEW b \in Cloud!Buckets, Cloud!downloadObject(b) PROVE Grows
    <2>1. UNCHANGED <<tWritten, tAborted>>
      BY <1>8 DEF Cloud!downloadObject
    <2>2. \/ UNCHANGED Cloud!result \/ Cloud!ReportsError(b)
          \/ \E status, clean, text, stale : Cloud!Reports(b, status, clean, text, stale)
      BY <1>8, Zenon DEF Cloud!downloadObject, Cloud!SkippedAs
    <2> QED
      BY <2>1, <2>2 DEF Cloud!Reports, Cloud!ReportsError
  <1>9. ASSUME NEW b \in Cloud!Buckets, Cloud!listObjects(b) PROVE Grows
    <2>1. UNCHANGED <<tWritten, tAborted, tFindings>>
      BY <1>9 DEF Cloud!listObjects
    <2>2. UNCHANGED tErrors \/ Cloud!Error("content", b)
      BY <1>9, Zenon DEF Cloud!listObjects
    <2>3. tTruncated' = TRUE \/ UNCHANGED tTruncated \/ \E x : tTruncated' = (tTruncated \/ x)
      BY <1>9, Zenon DEF Cloud!listObjects
    <2>4. tTruncated => tTruncated'
      BY <2>3
    <2> QED
      BY <2>1, <2>2, <2>4
  <1>10. ASSUME NEW b \in Cloud!Buckets, NEW o, NEW version, Cloud!WriteObject(b, o, version)
        PROVE  Grows
    BY <1>10 DEF Cloud!WriteObject
  <1> QED
    BY <1>1, <1>2, <1>3, <1>4, <1>5, <1>6, <1>7, <1>8, <1>9, <1>10 DEF Cloud!Next

\* What was answered, said or reported stays so, and what is complete was complete.
LEMMA GrowsKept ==
    ASSUME Grows
    PROVE  /\ \A o : Answered(o) => Answered(o)'
           /\ \A scope, resource : Cloud!Said(scope, resource) => Cloud!Said(scope, resource)'
           /\ \A b : Complete(b)' /\ UNCHANGED tContent => Complete(b)
           /\ \A b, check : Cloud!Reported(b, check) => Cloud!Reported(b, check)'
           /\ \A b : Certified(b)' /\ Assessed => Certified(b)
  <1>1. \A o : Answered(o) => Answered(o)'
    BY DEF Grows, Answered, Cloud!Contents, Cloud!Said
  <1>2. \A scope, resource : Cloud!Said(scope, resource) => Cloud!Said(scope, resource)'
    BY DEF Grows, Cloud!Said
  <1>3. \A b : Cloud!Undiscovered(b) => Cloud!Undiscovered(b)'
    BY <1>2 DEF Cloud!Undiscovered
  <1>4. \A b : Complete(b)' /\ UNCHANGED tContent => Complete(b)
    BY <1>2, <1>3 DEF Grows, Complete
  <1>5. \A b, check : Cloud!Reported(b, check) => Cloud!Reported(b, check)'
    BY DEF Grows, Cloud!Reported
  <1>6. \A b : Certified(b)' /\ Assessed => Certified(b)
    BY <1>2, <1>3 DEF Grows, Certified
  <1> QED
    BY <1>1, <1>2, <1>4, <1>5, <1>6

\* The handler stays where it is, and a goroutine goes on: what it had to come to it
\* has still to come to, or there is an answer.
Carries(b, w) ==
    Complete(b)' =>
        \A o \in Objects(b) : ~Silent(o) /\ o \notin tWritten /\ Covers(b, o, tWork[b])
            => Answered(o)' \/ Covers(b, o, w)'

\* The handler waits: the checks are as far as they were.
LEMMA ChecksKept ==
    ASSUME NEW b, ChecksMinded(b), Grows, UNCHANGED <<tPc, tLeft, tFound>>, Assessed' => Assessed
    PROVE  ChecksMinded(b)'
  <1> SUFFICES ASSUME Certified(b)'
               PROVE  \/ tPc = "posture-buckets"
                      \/ tPc = "posture-regions" /\ Located(b)'
                      \/ /\ tPc \in {"posture", "buckets", "regions", "content", "done"}
                         /\ \A check \in Checks : Checked(b, check)'
    BY DEF ChecksMinded
  <1>1. Certified(b)
    BY GrowsKept DEF Certified
  <1>2. Located(b) => Located(b)'
    BY DEF Located
  <1>3. \A check \in Checks : Checked(b, check) => Checked(b, check)'
    BY GrowsKept DEF Checked
  <1> QED
    BY <1>1, <1>2, <1>3 DEF ChecksMinded

\* The handler waits, and one goroutine goes on.
LEMMA GoroutineMinds ==
    ASSUME CloudTyped, AccountedInv, Grows, NEW c \in Cloud!Buckets, NEW w \in Works(c),
           Cloud!Goto(c, w), tWork[c].pc \notin {"idle", "end"},
           UNCHANGED <<tPc, tLeft, tFound, tContent, tStore, tWritten>>,
           Assessed' => Assessed, Carries(c, w)
    PROVE  AccountedInv'
  <1>1. tWork'[c] = w /\ \A b \in Cloud!Buckets \ {c} : tWork'[b] = tWork[b]
    BY GoroutineTyped
  <1>2. tPc = "content"
    BY DEF AccountedInv, ContentDone
  <1>3. ContentDone'
    BY <1>2 DEF ContentDone
  <1>4. ASSUME NEW b \in Cloud!Buckets PROVE ChecksMinded(b)'
    BY ChecksKept DEF AccountedInv
  <1>5. ASSUME NEW b \in Cloud!Buckets, Complete(b)' PROVE \A o \in Objects(b) : Minded(b, o)'
    <2>1. Complete(b)
      BY <1>5, GrowsKept
    <2>2. \A o \in Objects(b) : Minded(b, o)
      BY <1>2, <2>1 DEF AccountedInv, ObjectsMinded
    <2>3. ASSUME NEW o \in Objects(b) PROVE Minded(b, o)'
      <3>1. Answered(o) => Answered(o)'
        BY GrowsKept
      <3>2. ASSUME Covers(b, o, tWork[b]), ~Silent(o), o \notin tWritten
            PROVE  Answered(o)' \/ Covers(b, o, tWork[b])'
        <4>1. CASE b = c
          <5>1. Answered(o)' \/ Covers(b, o, w)'
            BY <1>5, <3>2, <4>1 DEF Carries
          <5> QED
            BY <1>1, <4>1, <5>1
        <4>2. CASE b # c
          <5>1. tWork'[b] = tWork[b] /\ (tAborted => tAborted')
            BY <1>1, <4>2 DEF Grows
          <5> QED
            BY <3>2, <5>1 DEF Covers
        <4> QED
          BY <4>1, <4>2
      <3> QED
        BY <2>2, <3>1, <3>2 DEF Minded
    <2> QED
      BY <2>3
  <1>6. ASSUME NEW b \in Cloud!Buckets PROVE ObjectsMinded(b)'
    BY <1>2, <1>5 DEF ObjectsMinded
  <1> QED
    BY <1>2, <1>3, <1>4, <1>6 DEF AccountedInv

\* What a goroutine says of the object at the head of its list.
LEMMA ObjectAnswered ==
    ASSUME CloudTyped, NEW b \in Cloud!Buckets, tWork[b].pc \in {"head", "slot", "get"},
           NEW h, h = Head(tWork[b].todo),
           \/ Cloud!ReportsError(b)
           \/ \E status, clean, text, stale : Cloud!Reports(b, status, clean, text, stale)
    PROVE  /\ Cloud!Goto(b, Cloud!AtNext(Tail(tWork[b].todo)))
           /\ Answered(h)' /\ (Assessed' => Assessed)
  <1>1. h \in DOMAIN Initial
    <2>1. tWork[b].todo \in Seq(Objects(b)) /\ tWork[b].todo # <<>>
      BY WorkShape DEF CloudTyped
    <2> QED
      BY <2>1, HeadTail, ObjectsHere
  <1>2. AccountID # h
    BY <1>1, CloudAssumption
  <1>3. Cloud!Goto(b, Cloud!AtNext(Tail(tWork[b].todo)))
    BY DEF Cloud!ReportsError, Cloud!Reports
  <1>4. CASE Cloud!ReportsError(b)
    <2>1. tErrors' = tErrors \cup {[scope |-> "content", resource |-> h]} /\ UNCHANGED tFindings
      BY <1>4 DEF Cloud!ReportsError, Cloud!Error
    <2> QED
      BY <1>3, <2>1 DEF Answered, Assessed, Cloud!Said
  <1>5. ASSUME NEW status, NEW clean, NEW text, NEW stale,
               Cloud!Reports(b, status, clean, text, stale)
        PROVE  Answered(h)' /\ (Assessed' => Assessed)
    <2> DEFINE f == [rule |-> "object-content", resource |-> h, status |-> status,
                     clean |-> clean, read |-> text, stale |-> stale]
    <2>1. tFindings' = tFindings \cup {f}
      BY <1>5 DEF Cloud!Reports
    <2>2. f.rule = "object-content" /\ f.resource = h
      OBVIOUS
    <2> HIDE DEF f
    <2> QED
      BY <1>2, <2>1, <2>2 DEF Answered, Assessed, Cloud!Contents
  <1> QED
    BY <1>3, <1>4, <1>5

\* The next object: nothing is said of what is left of the list.
LEMMA ObjectMinds ==
    ASSUME CloudTyped, AccountedInv, Grows, NEW b \in Cloud!Buckets,
           tWork[b].pc \in {"head", "slot", "get"},
           Cloud!Goto(b, Cloud!AtNext(Tail(tWork[b].todo))),
           UNCHANGED <<tPc, tLeft, tFound, tContent, tStore, tWritten>>, Assessed' => Assessed,
           NEW h, h = Head(tWork[b].todo), Silent(h) \/ h \in tWritten \/ Answered(h)'
    PROVE  AccountedInv'
  <1> DEFINE s == tWork[b].todo
  <1>1. s \in Seq(Objects(b)) /\ s # <<>>
    BY WorkShape DEF CloudTyped
  <1>2. Tail(s) \in Seq(Objects(b)) /\ Cloud!Range(s) = {h} \cup Cloud!Range(Tail(s))
    BY <1>1, HeadTail
  <1>3. PICK w \in Works(b) : w = Cloud!AtNext(Tail(s)) /\ w.pc = "next" /\ w.todo = Tail(s)
    <2> DEFINE next == Cloud!AtNext(Tail(s))
    <2>1. next \in Works(b) /\ next.pc = "next" /\ next.todo = Tail(s)
      BY <1>2 DEF Works, Cloud!AtNext
    <2> QED
      BY <2>1, Zenon
  <1>4. Carries(b, w)
    <2>1. ASSUME NEW o, Covers(b, o, tWork[b]) PROVE o = h \/ o \in Cloud!Range(Tail(s))
      BY <1>2, <2>1 DEF Covers
    <2>2. ASSUME NEW o, o \in Cloud!Range(Tail(s)) PROVE Covers(b, o, w)'
      BY <1>3, <2>2 DEF Covers
    <2> QED
      BY <2>1, <2>2 DEF Carries
  <1> QED
    BY <1>3, <1>4, GoroutineMinds

\* A goroutine goes on with the same list.
LEMMA ListMinds ==
    ASSUME CloudTyped, AccountedInv, Grows, NEW b \in Cloud!Buckets, NEW w \in Works(b),
           tWork[b].pc \in {"next", "head", "slot", "get"}, Cloud!Goto(b, w),
           w.pc \in {"next", "head", "slot", "get"}, w.todo = tWork[b].todo,
           UNCHANGED <<tPc, tLeft, tFound, tContent, tStore, tWritten, tFindings>>
    PROVE  AccountedInv'
  <1>1. Carries(b, w)
    BY DEF Carries, Covers
  <1>2. Assessed' => Assessed
    BY DEF Assessed
  <1> QED
    BY <1>1, <1>2, GoroutineMinds

\* The head of an object: it is passed over only if there is nothing to say.
LEMMA AccountedHead ==
    ASSUME CloudTyped, SizesTyped, AccountedInv, Grows, NEW b \in Cloud!Buckets, Cloud!HeadObject(b)
    PROVE  AccountedInv'
  <1> DEFINE v == tWork[b]
  <1>1. v \in Works(b) /\ v.pc = "head" /\ v.todo \in Seq(Objects(b)) /\ v.todo # <<>>
    BY WorkShape DEF CloudTyped, Cloud!HeadObject
  <1>2. PICK o \in DOMAIN Initial : o = Head(v.todo)
    BY <1>1, HeadTail, ObjectsHere
  <1>3. UNCHANGED <<tPc, tLeft, tFound, tContent, tStore, tWritten>>
    BY DEF Cloud!HeadObject, Cloud!Rest
  <1>4. CASE \/ Cloud!ReportsError(b)
             \/ Cloud!Reports(b, "unsupported", FALSE, "unreadable", FALSE)
    BY <1>1, <1>2, <1>3, <1>4, ObjectAnswered, ObjectMinds
  <1>5. CASE /\ tStore[o] = None \/ o \in Placeholders \/ tStore[o].size = 0
             /\ Cloud!Goto(b, Cloud!AtNext(Tail(v.todo)))
             /\ UNCHANGED Cloud!result
    <2>1. Silent(o) \/ o \in tWritten
      BY <1>2, <1>5 DEF CloudTyped, Silent
    <2>2. Assessed' => Assessed
      BY <1>5 DEF Assessed, Cloud!result
    <2> QED
      BY <1>1, <1>2, <1>3, <1>5, <2>1, <2>2, ObjectMinds
  <1>6. CASE /\ tStore[o] # None /\ UNCHANGED Cloud!result
             /\ Cloud!Goto(b, HandedOn(b, o))
    <2> DEFINE w == HandedOn(b, o)
    <2>1. w \in Samplings(b) /\ w.todo = v.todo
      BY <1>1, <1>2, <1>6, SamplingTyped
    <2>2. Cloud!Goto(b, w) /\ UNCHANGED tFindings
      BY <1>6 DEF Cloud!result
    <2> HIDE DEF w
    <2> QED
      BY <1>1, <1>3, <2>1, <2>2, SamplingShape, ListMinds
  <1> HIDE DEF v
  <1> QED
    BY <1>2, <1>4, <1>5, <1>6, HeadDone, Zenon DEF v

\* A slot, or the deadline.
LEMMA AccountedSlot ==
    ASSUME CloudTyped, AccountedInv, Grows, NEW b \in Cloud!Buckets, Cloud!TakeSlot(b)
    PROVE  AccountedInv'
  <1> DEFINE v == tWork[b]
  <1>1. v \in Works(b) /\ v.pc = "slot" /\ v \in Samplings(b)
    BY WorkShape DEF CloudTyped, Cloud!TakeSlot
  <1>2. UNCHANGED <<tPc, tLeft, tFound, tContent, tStore, tWritten>>
    BY DEF Cloud!TakeSlot, Cloud!Rest
  <1>3. CASE Cloud!Goto(b, [v EXCEPT !.pc = "get"]) /\ UNCHANGED tFindings
    <2> DEFINE w == [v EXCEPT !.pc = "get"]
    <2>1. w \in Samplings(b) /\ w.todo = v.todo
      BY <1>1, SamplingGets
    <2>2. Cloud!Goto(b, w)
      BY <1>3
    <2> HIDE DEF w
    <2> QED
      BY <1>1, <1>2, <1>3, <2>1, <2>2, SamplingShape, ListMinds
  <1>4. CASE Cloud!SkippedAs(b, v.stale)
    <2>1. PICK o : o = Head(v.todo)
      OBVIOUS
    <2> QED
      BY <1>1, <1>2, <1>4, <2>1, ObjectAnswered, ObjectMinds DEF Cloud!SkippedAs
  <1>5. \/ Cloud!Goto(b, [v EXCEPT !.pc = "get"]) /\ UNCHANGED Cloud!result
        \/ Cloud!SkippedAs(b, v.stale)
    BY Zenon DEF Cloud!TakeSlot
  <1>6. UNCHANGED Cloud!result => UNCHANGED tFindings
    BY DEF Cloud!result
  <1> HIDE DEF v
  <1> QED
    BY <1>3, <1>4, <1>5, <1>6, Zenon

\* The download has an outcome, or it is to be done again as a whole.
LEMMA AccountedDownload ==
    ASSUME CloudTyped, AccountedInv, Grows, NEW b \in Cloud!Buckets, Cloud!downloadObject(b)
    PROVE  AccountedInv'
  <1> DEFINE v == tWork[b]
             again == Cloud!Sampling("slot", v, v.size, "structured", v.stale)
  <1>1. v \in Works(b) /\ v.pc = "get" /\ v \in Samplings(b)
    BY WorkShape DEF CloudTyped, Cloud!downloadObject
  <1>2. v.todo \in Seq(Objects(b)) /\ v.todo # <<>> /\ v.size \in Nat /\ v.stale \in BOOLEAN
    <2> HIDE DEF v
    <2> QED
      BY <1>1, SamplingShape
  <1>3. UNCHANGED <<tPc, tLeft, tFound, tContent, tStore, tWritten>>
    BY DEF Cloud!downloadObject, Cloud!Rest
  <1>4. CASE \/ Cloud!ReportsError(b)
             \/ \E status, clean, text, stale : Cloud!Reports(b, status, clean, text, stale)
    <2>1. PICK o : o = Head(v.todo)
      OBVIOUS
    <2> QED
      BY <1>1, <1>3, <1>4, <2>1, ObjectAnswered, ObjectMinds
  <1>5. CASE Cloud!Goto(b, again) /\ UNCHANGED tFindings
    <2>1. again \in Samplings(b) /\ again.todo = v.todo
      BY <1>2 DEF Samplings, Cloud!Sampling
    <2> HIDE DEF again
    <2> QED
      BY <1>1, <1>3, <1>5, <2>1, SamplingShape, ListMinds
  <1>6. \/ Cloud!ReportsError(b)
        \/ \E status, clean, text, stale : Cloud!Reports(b, status, clean, text, stale)
        \/ Cloud!Goto(b, again) /\ UNCHANGED Cloud!result
    BY Zenon DEF Cloud!downloadObject, Cloud!SkippedAs
  <1>7. UNCHANGED Cloud!result => UNCHANGED tFindings
    BY DEF Cloud!result
  <1> HIDE DEF v, again
  <1> QED
    BY <1>4, <1>5, <1>6, <1>7, Zenon

\* A goroutine begins, or takes its next object.
LEMMA AccountedNext ==
    ASSUME CloudTyped, AccountedInv, Grows, NEW b \in Cloud!Buckets,
           Cloud!StartBucket(b) \/ Cloud!NextObject(b)
    PROVE  AccountedInv'
  <1>1. UNCHANGED <<tPc, tLeft, tFound, tContent, tStore, tWritten, tFindings>>
    BY DEF Cloud!StartBucket, Cloud!NextObject, Cloud!Rest, Cloud!result
  <1>2. Assessed' => Assessed
    BY <1>1 DEF Assessed
  <1>3. CASE Cloud!StartBucket(b)
    <2>1. PICK w \in Works(b) : w = [pc |-> "list", got |-> <<>>]
      <3>1. [pc |-> "list", got |-> <<>>] \in Works(b)
        BY DEF Works
      <3> QED
        BY <3>1, Zenon
    <2>2. w.pc = "list" /\ Cloud!Range(w.got) = {} /\ tWork[b].pc = "ready" /\ Cloud!Goto(b, w)
      BY <1>3, <2>1 DEF Cloud!StartBucket, Cloud!Range
    <2>3. Carries(b, w)
      BY <2>2 DEF Carries, Covers, AllBefore
    <2> QED
      BY <1>1, <1>2, <2>2, <2>3, GoroutineMinds
  <1>4. CASE Cloud!NextObject(b)
    <2>1. tWork[b].pc = "next" /\ tWork[b].todo \in Seq(Objects(b))
      BY <1>4, WorkShape DEF CloudTyped, Cloud!NextObject
    <2>2. CASE /\ tWork[b].todo = <<>> \/ tAborted'
               /\ Cloud!Goto(b, [pc |-> "end"])
      <3>1. PICK w \in Works(b) : w = [pc |-> "end"]
        BY DEF Works
      <3>2. tWork[b].todo = <<>> => Cloud!Range(tWork[b].todo) = {}
        BY DEF Cloud!Range
      <3>3. Carries(b, w)
        BY <2>1, <2>2, <3>1, <3>2 DEF Carries, Covers
      <3> QED
        BY <1>1, <1>2, <2>1, <2>2, <3>1, <3>3, GoroutineMinds
    <2>3. CASE tWork[b].todo # <<>> /\ Cloud!Goto(b, [pc |-> "head", todo |-> tWork[b].todo])
      <3>1. [pc |-> "head", todo |-> tWork[b].todo] \in Works(b)
        BY <2>1, <2>3 DEF Works
      <3>2. PICK w \in Works(b) : w = [pc |-> "head", todo |-> tWork[b].todo]
        BY <3>1, Zenon
      <3> QED
        BY <1>1, <2>1, <2>3, <3>2, ListMinds
    <2> QED
      BY <1>4, <2>2, <2>3, Zenon DEF Cloud!NextObject
  <1> QED
    BY <1>3, <1>4

\* The elements of two lists put together.
LEMMA BothLists ==
    ASSUME NEW S, NEW s \in Seq(S), NEW t \in Seq(S)
    PROVE  s \o t \in Seq(S) /\ Cloud!Range(s \o t) = Cloud!Range(s) \cup Cloud!Range(t)
  <1> DEFINE both == s \o t
  <1>1. /\ both \in Seq(S) /\ Len(both) = Len(s) + Len(t) /\ Len(s) \in Nat /\ Len(t) \in Nat
        /\ \A k \in 1..Len(s) : both[k] = s[k]
        /\ \A k \in 1..Len(t) : both[Len(s) + k] = t[k]
    BY ConcatProperties
  <1>2. /\ Cloud!Range(both) = FirstOnes(both, Len(both))
        /\ Cloud!Range(s) = FirstOnes(s, Len(s)) /\ Cloud!Range(t) = FirstOnes(t, Len(t))
    BY <1>1, RangeOf
  <1> HIDE DEF both
  <1>3. \A k \in 1..Len(both) :
            \/ k \in 1..Len(s)
            \/ k - Len(s) \in 1..Len(t) /\ Len(s) + (k - Len(s)) = k
    BY ONLY <1>1
  <1>4. /\ \A k \in 1..Len(s) : k \in 1..Len(both)
        /\ \A k \in 1..Len(t) : Len(s) + k \in 1..Len(both)
    BY ONLY <1>1
  <1>5. \A k \in 1..Len(both) : \/ k \in 1..Len(s) /\ both[k] = s[k]
                                \/ k - Len(s) \in 1..Len(t) /\ both[k] = t[k - Len(s)]
    BY ONLY <1>1, <1>3
  <1>6. FirstOnes(both, Len(both)) \subseteq FirstOnes(s, Len(s)) \cup FirstOnes(t, Len(t))
    BY ONLY <1>5 DEF FirstOnes
  <1>7. FirstOnes(s, Len(s)) \subseteq FirstOnes(both, Len(both))
    BY ONLY <1>1, <1>4 DEF FirstOnes
  <1>8. FirstOnes(t, Len(t)) \subseteq FirstOnes(both, Len(both))
    BY ONLY <1>1, <1>4 DEF FirstOnes
  <1> QED
    BY <1>1, <1>2, <1>6, <1>7, <1>8 DEF both

\* In s, the first n elements of t come before o.
Earlier(s, t, n, o) ==
    \A k \in 1..n : \E i, j \in 1..Len(s) : i < j /\ s[i] = t[k] /\ s[j] = o

\* An element that is left and is not in the first part comes after all of it.
LEMMA ComesLater ==
    ASSUME NEW S, NEW s \in Seq(S), NEW T, NEW t \in Seq(S), Leaves(s, T, Len(s), t),
           NEW n \in 0..Len(t), NEW o \in Cloud!Range(s), o \notin T, o \notin FirstOnes(t, n)
    PROVE  n < Len(t) /\ Earlier(s, t, n, o)
  <1>1. \E m \in 1..Len(t) : t[m] = o
    <2>1. \A j \in 1..Len(s) : s[j] \notin T => \E a \in 1..Len(t) : t[a] = s[j]
      BY Zenon DEF Leaves
    <2>2. \E j \in 1..Len(s) : s[j] = o
      BY RangeOf DEF FirstOnes
    <2> QED
      BY <2>1, <2>2
  <1>2. PICK m \in 1..Len(t) : t[m] = o
    BY <1>1
  <1>3. n < m /\ n < Len(t) /\ \A k \in 1..n : k \in 1..Len(t) /\ k < m
    <2>1. m \notin 1..n
      BY <1>2 DEF FirstOnes
    <2>2. Len(t) \in Nat /\ n \in 0..Len(t) /\ m \in 1..Len(t)
      OBVIOUS
    <2> QED
      BY ONLY <2>1, <2>2
  <1>4. \A k, l \in 1..Len(t) :
            k < l => \E i, j \in 1..Len(s) : i < j /\ s[i] = t[k] /\ s[j] = t[l]
    BY Zenon DEF Leaves
  <1>5. ASSUME NEW k \in 1..n
        PROVE  \E i, j \in 1..Len(s) : i < j /\ s[i] = t[k] /\ s[j] = o
    <2>1. k \in 1..Len(t) /\ k < m
      BY <1>3
    <2> QED
      BY ONLY <1>2, <1>4, <2>1, m \in 1..Len(t)
  <1> QED
    BY <1>3, <1>5 DEF Earlier

\* An object that is present and was still to come is on the page or after it.
LEMMA PageCovers ==
    ASSUME NEW b \in Cloud!Buckets, NEW got \in Seq(Objects(b)),
           NEW size \in 0..Len(More(b, got)), NEW all, all = got \o SubSeq(More(b, got), 1, size),
           NEW o \in Objects(b), tStore[o] # None, o \in Cloud!Range(got) \/ AllBefore(b, got, o)
    PROVE  o \in Cloud!Range(all) \/ (size < Len(More(b, got)) /\ AllBefore(b, all, o))
  <1>1. PICK more \in Seq(Objects(b)) :
            more = More(b, got) /\ Leaves(Keys[b], Absent(b, got), Len(Keys[b]), more)
    BY MoreHere
  <1>2. Keys[b] \in Seq(Objects(b)) /\ DOMAIN Keys[b] = 1..Len(Keys[b])
    BY ObjectsHere
  <1>3. PICK page : page = SubSeq(more, 1, size)
    OBVIOUS
  <1>4. page \in Seq(Objects(b)) /\ Cloud!Range(page) = FirstOnes(more, size)
    <2>1. more \in Seq(Objects(b)) /\ size \in 0..Len(more)
      BY <1>1
    <2> QED
      BY ONLY <1>3, <2>1, FirstPart
  <1>5. Cloud!Range(all) = Cloud!Range(got) \cup FirstOnes(more, size)
    <2>1. got \in Seq(Objects(b)) /\ page \in Seq(Objects(b)) /\ all = got \o page
      BY <1>1, <1>3, <1>4
    <2>2. Cloud!Range(all) = Cloud!Range(got) \cup Cloud!Range(page)
      BY ONLY <2>1, BothLists
    <2> QED
      BY <1>4, <2>2
  <1>6. ASSUME o \notin Cloud!Range(all) PROVE size < Len(more) /\ AllBefore(b, all, o)
    <2>1. AllBefore(b, got, o) /\ o \notin FirstOnes(more, size)
      BY <1>5, <1>6
    <2>2. o \notin Absent(b, got)
      BY <2>1 DEF Absent, AllBefore
    <2>3. size < Len(more) /\ Earlier(Keys[b], more, size, o)
      <3>1. more \in Seq(Objects(b)) /\ size \in 0..Len(more) /\ o \in Cloud!Range(Keys[b])
        BY <1>1 DEF Objects
      <3> QED
        BY ONLY <1>1, <1>2, <2>1, <2>2, <3>1, ComesLater
    <2>4. \A g \in FirstOnes(more, size) : Cloud!Before(b, g, o)
      BY <1>2, <2>3 DEF Cloud!Before, FirstOnes, Earlier
    <2> QED
      BY <1>5, <2>1, <2>3, <2>4 DEF AllBefore
  <1> QED
    BY <1>1, <1>6

\* The page itself.
LEMMA PageTyped ==
    ASSUME NEW b \in Cloud!Buckets, NEW got \in Seq(Objects(b)),
           NEW size \in 0..Len(More(b, got)), NEW all, all = got \o SubSeq(More(b, got), 1, size)
    PROVE  all \in Seq(Objects(b)) /\ Len(all) \in Nat
  <1>1. More(b, got) \in Seq(Objects(b))
    BY MoreHere
  <1>2. PICK page : page = SubSeq(More(b, got), 1, size)
    OBVIOUS
  <1>3. page \in Seq(Objects(b))
    BY <1>1, <1>2, FirstPart
  <1>4. all \in Seq(Objects(b))
    BY <1>2, <1>3, BothLists
  <1> QED
    BY <1>4

\* A page: an object that was there and was not written is on it or still to come,
\* or the answer says that the list is not complete.
LEMMA AccountedPage ==
    ASSUME CloudTyped, AccountedInv, Grows, NEW b \in Cloud!Buckets, Cloud!listObjects(b)
    PROVE  AccountedInv'
  <1> DEFINE got == tWork[b].got
  <1>1. tWork[b].pc = "list" /\ got \in Seq(Objects(b)) /\ UNCHANGED tFindings
    BY PageListed
  <1>2. UNCHANGED <<tPc, tLeft, tFound, tContent, tStore, tWritten>>
    BY DEF Cloud!listObjects, Cloud!Rest
  <1>3. Assessed' => Assessed
    BY <1>1 DEF Assessed
  <1>4. ASSUME NEW list \in Seq(Objects(b))
        PROVE  /\ Cloud!AtNext(list) \in Works(b) /\ Cloud!AtNext(list).pc = "next"
               /\ Cloud!AtNext(list).todo = list
               /\ [pc |-> "list", got |-> list] \in Works(b)
               /\ [pc |-> "list", got |-> list].pc = "list"
               /\ [pc |-> "list", got |-> list].got = list
    BY <1>4 DEF Cloud!AtNext, Works
  <1>5. CASE Cloud!Goto(b, Cloud!AtNext(got)) /\ ~Complete(b)'
    <2>1. PICK w \in Works(b) : w = Cloud!AtNext(got)
      BY <1>1, <1>4, Zenon
    <2>2. Carries(b, w)
      BY <1>5 DEF Carries
    <2> QED
      BY <1>1, <1>2, <1>3, <1>5, <2>1, <2>2, GoroutineMinds
  <1>6. ASSUME NEW size \in 0..Len(More(b, got)), NEW all,
               all = got \o SubSeq(More(b, got), 1, size),
               tTruncated' = (tTruncated \/ Len(all) > MaxObjects),
               Cloud!Goto(b, IF size < Len(More(b, got))
                             THEN [pc |-> "list", got |-> Cloud!FirstOf(all, MaxObjects)]
                             ELSE Cloud!AtNext(Cloud!FirstOf(all, MaxObjects)))
        PROVE  AccountedInv'
    <2>1. PICK kept : kept = Cloud!FirstOf(all, MaxObjects)
      OBVIOUS
    <2>2. all \in Seq(Objects(b)) /\ Len(all) \in Nat /\ MaxObjects \in Nat
      <3>1. all \in Seq(Objects(b)) /\ Len(all) \in Nat
        <4> HIDE DEF got
        <4> QED
          BY <1>1, <1>6, PageTyped
      <3> QED
        BY <3>1, CloudAssumption
    <2>3. kept \in Seq(Objects(b)) /\ (Len(all) <= MaxObjects => kept = all)
      BY <2>1, <2>2, FirstElements
    <2>4. Complete(b)' => kept = all
      <3>1. Complete(b)' => ~(Len(all) > MaxObjects)
        BY <1>6 DEF Complete
      <3> QED
        BY <2>2, <2>3, <3>1
    <2>5. ASSUME Complete(b)', NEW o \in Objects(b), ~Silent(o), o \notin tWritten,
                 Covers(b, o, tWork[b])
          PROVE  o \in Cloud!Range(kept) \/ (size < Len(More(b, got)) /\ AllBefore(b, kept, o))
      <3>1. tStore[o] # None
        BY <2>5, ObjectsHere DEF CloudTyped, Silent
      <3>2. o \in Cloud!Range(got) \/ AllBefore(b, got, o)
        BY <1>1, <2>5 DEF Covers
      <3>3. o \in Cloud!Range(all) \/ (size < Len(More(b, got)) /\ AllBefore(b, all, o))
        <4> HIDE DEF got
        <4>1. got \in Seq(Objects(b))
          BY <1>1
        <4>2. size \in 0..Len(More(b, got)) /\ all = got \o SubSeq(More(b, got), 1, size)
          BY <1>6
        <4>3. o \in Objects(b)
          BY <2>5
        <4> QED
          BY <3>1, <3>2, <4>1, <4>2, <4>3, PageCovers, ZenonT(30)
      <3> QED
        BY <2>4, <2>5, <3>3
    <2>6. CASE size < Len(More(b, got))
      <3>1. PICK w \in Works(b) : w = [pc |-> "list", got |-> kept] /\ w.pc = "list" /\ w.got = kept
        BY <1>4, <2>3, Zenon
      <3>2. Cloud!Goto(b, w)
        BY <1>6, <2>1, <2>6, <3>1, Zenon
      <3>3. Carries(b, w)
        BY <2>5, <3>1 DEF Carries, Covers
      <3> QED
        BY <1>1, <1>2, <1>3, <3>2, <3>3, GoroutineMinds
    <2>7. CASE ~(size < Len(More(b, got)))
      <3>1. PICK w \in Works(b) : w = Cloud!AtNext(kept) /\ w.pc = "next" /\ w.todo = kept
        BY <1>4, <2>3, Zenon
      <3>2. Cloud!Goto(b, w)
        BY <1>6, <2>1, <2>7, <3>1, Zenon
      <3>3. Carries(b, w)
        BY <2>5, <2>7, <3>1 DEF Carries, Covers
      <3> QED
        BY <1>1, <1>2, <1>3, <3>2, <3>3, GoroutineMinds
    <2> QED
      BY <2>6, <2>7
  <1>7. tTruncated' = TRUE \/ Cloud!Error("content", b) => ~Complete(b)'
    BY DEF Complete, Cloud!Error, Cloud!Said
  <1> HIDE DEF got
  <1> QED
    BY <1>5, <1>6, <1>7, PageListed, Zenon DEF got

\* The owner writes: the goroutines go on with what they had.
LEMMA AccountedWritten ==
    ASSUME CloudTyped, AccountedInv, Grows, NEW b \in Cloud!Buckets, NEW o \in Objects(b),
           NEW version \in Versions, Cloud!WriteObject(b, o, version)
    PROVE  AccountedInv'
  <1>1. /\ tPc = "content" /\ UNCHANGED <<tPc, tLeft, tFound, tContent, tFindings, tAborted>>
    BY DEF Cloud!WriteObject, Cloud!result
  <1>2. \A c \in Cloud!Buckets :
            \/ tWork'[c] = tWork[c]
            \/ tWork[c] \in Samplings(c) /\ tWork'[c] = [tWork[c] EXCEPT !.stale = TRUE]
    BY WrittenTyped
  <1>3. ASSUME NEW c \in Cloud!Buckets, NEW p, Covers(c, p, tWork[c])
        PROVE  Covers(c, p, tWork[c])'
    <2>1. CASE tWork'[c] = tWork[c]
      BY <1>1, <1>3, <2>1 DEF Covers
    <2>2. CASE tWork[c] \in Samplings(c) /\ tWork'[c] = [tWork[c] EXCEPT !.stale = TRUE]
      <3>1. PICK v, w : v = tWork[c] /\ w = tWork'[c]
        OBVIOUS
      <3>2. v.pc \in {"slot", "get"} /\ w.pc = v.pc /\ w.todo = v.todo
        BY <2>2, <3>1, SamplingShape, SamplingStale
      <3>3. p \in Cloud!Range(v.todo)
        BY <1>3, <3>1, <3>2 DEF Covers
      <3> QED
        BY <3>1, <3>2, <3>3 DEF Covers
    <2> QED
      BY <1>2, <2>1, <2>2
  <1>4. ASSUME NEW c \in Cloud!Buckets, Complete(c)', NEW p \in Objects(c) PROVE Minded(c, p)'
    <2>1. Minded(c, p)
      BY <1>1, <1>4, GrowsKept DEF AccountedInv, ObjectsMinded
    <2>2. Answered(p) => Answered(p)'
      BY GrowsKept
    <2> QED
      BY <1>3, <2>1, <2>2 DEF Minded, Grows
  <1>5. ASSUME NEW c \in Cloud!Buckets PROVE ObjectsMinded(c)' /\ ChecksMinded(c)'
    <2>1. ObjectsMinded(c)'
      BY <1>1, <1>4 DEF ObjectsMinded
    <2>2. ChecksMinded(c)'
      BY <1>1, ChecksKept DEF AccountedInv, Assessed
    <2> QED
      BY <2>1, <2>2
  <1> QED
    BY <1>1, <1>5 DEF AccountedInv, ContentDone

\* A scan is asked for, and the account is assessed.
LEMMA AccountedAsked ==
    ASSUME AccountedInv, Cloud!HandleAWSS3Scan \/ Cloud!assessAccountPosture
    PROVE  AccountedInv'
  <1>1. CASE Cloud!HandleAWSS3Scan
    <2>1. /\ tPc = "asked" /\ UNCHANGED <<tWork, tFindings>>
          /\ \/ tPc' \in {"account", "buckets", "refused"}
             \/ tPc' = "done" /\ ~tContent'
      BY <1>1 DEF Cloud!HandleAWSS3Scan, Cloud!result
    <2>2. tFindings' = {} /\ ~Assessed'
      BY <2>1 DEF AccountedInv, Assessed
    <2>3. ContentDone'
      BY <2>1 DEF AccountedInv, ContentDone
    <2>4. \A b : ObjectsMinded(b)'
      BY <2>1 DEF ObjectsMinded, Complete
    <2>5. \A b : ChecksMinded(b)'
      BY <2>2 DEF ChecksMinded, Certified
    <2> QED
      BY <2>2, <2>3, <2>4, <2>5 DEF AccountedInv
  <1>2. CASE Cloud!assessAccountPosture
    <2>1. tPc = "account" /\ tPc' = "posture-buckets" /\ UNCHANGED tWork
      BY <1>2 DEF Cloud!assessAccountPosture
    <2>2. ContentDone'
      BY <2>1 DEF AccountedInv, ContentDone
    <2> QED
      BY <2>1, <2>2 DEF AccountedInv, ObjectsMinded, ChecksMinded
  <1> QED
    BY <1>1, <1>2

\* The handler goes on and leaves the goroutines alone.
LEMMA HandlerMinds ==
    ASSUME AccountedInv, UNCHANGED tWork, tPc \notin {"asked", "account", "content"},
           tPc' \in {"posture-regions", "posture", "buckets", "regions"}
                    \/ (tPc' = "done" /\ ~tContent'),
           \A b \in Cloud!Buckets : Complete(b)' /\ tPc' = "regions" => Located(b)',
           \A b \in Cloud!Buckets : ChecksMinded(b)'
    PROVE  AccountedInv'
  <1>1. ContentDone'
    BY DEF AccountedInv, ContentDone
  <1>2. \A b \in Cloud!Buckets : ObjectsMinded(b)'
    BY DEF ObjectsMinded, Complete
  <1> QED
    BY <1>1, <1>2 DEF AccountedInv

\* The checks of the buckets.
LEMMA AccountedPosture ==
    ASSUME AccountedInv, LeftTyped, Grows, Cloud!assessBucketPosture \/ Cloud!ScanPosture
    PROVE  AccountedInv'
  <1>1. CASE Cloud!assessBucketPosture
    <2>1. tPc = "posture" /\ tLeft # <<>> /\ UNCHANGED <<tPc, tWork>>
      BY <1>1 DEF Cloud!assessBucketPosture
    <2>2. PICK b \in Cloud!Buckets, check \in Checks : Head(tLeft) = <<b, check>>
      <3>1. tLeft \in Seq(Cloud!Buckets \X Cloud!Range(Cloud!BucketChecks))
        BY <2>1 DEF LeftTyped
      <3>2. Head(tLeft) \in Cloud!Buckets \X Cloud!Range(Cloud!BucketChecks)
        BY <2>1, <3>1, HeadTail
      <3> QED
        BY <3>2 DEF Checks
    <2>3. Cloud!Range(tLeft) = {<<b, check>>} \cup Cloud!Range(Tail(tLeft))
      BY <2>1, <2>2, HeadTail DEF LeftTyped
    <2>4. CASE Cloud!Error("posture", "cancelled")
      <3>1. \A c : ~Certified(c)'
        BY <2>4 DEF Certified, Cloud!Error, Cloud!Said
      <3> QED
        BY <2>1, <3>1, HandlerMinds DEF ChecksMinded
    <2>5. CASE Cloud!Assess(b, check) /\ tLeft' = Tail(tLeft)
      <3>1. PICK f : f.rule = check /\ f.resource = b /\ tFindings' = tFindings \cup {f}
        <4>1. PICK answer \in {Settings[b][check], "denied", "error"} :
                  tFindings' = tFindings \cup {[rule |-> check, resource |-> b,
                                                status |-> Cloud!Outcome(check, answer)]}
          BY <2>5 DEF Cloud!Assess
        <4> QED
          BY <4>1
      <3>2. Assessed' => Assessed
        BY <3>1, CloudAssumption DEF Assessed
      <3>3. ASSUME NEW c \in Cloud!Buckets, Certified(c)', NEW k \in Checks PROVE Checked(c, k)'
        <4>1. Checked(c, k)
          BY <2>1, <3>2, <3>3, GrowsKept DEF AccountedInv, ChecksMinded, Certified
        <4>2. Cloud!Reported(b, check)'
          BY <3>1 DEF Cloud!Reported
        <4>3. Cloud!Reported(c, k) => Cloud!Reported(c, k)'
          BY GrowsKept
        <4>4. CASE <<c, k>> = <<b, check>>
          BY <4>2, <4>4 DEF Checked
        <4>5. CASE <<c, k>> # <<b, check>>
          BY <2>1, <2>3, <2>5, <4>1, <4>3, <4>5 DEF Checked
        <4> QED
          BY <4>4, <4>5
      <3> QED
        BY <2>1, <3>3, HandlerMinds DEF ChecksMinded
    <2> QED
      BY <1>1, <2>2, <2>4, <2>5 DEF Cloud!assessBucketPosture
  <1>2. CASE Cloud!ScanPosture
    <2>1. /\ tPc = "posture" /\ tLeft = <<>> /\ tPc' = (IF tContent THEN "buckets" ELSE "done")
          /\ UNCHANGED <<tContent, tWork, tFindings>>
      BY <1>2 DEF Cloud!ScanPosture, Cloud!result
    <2>2. Cloud!Range(tLeft) = {}
      BY <2>1 DEF Cloud!Range
    <2>3. \A c \in Cloud!Buckets, k \in Checks : Checked(c, k) => Checked(c, k)'
      BY <2>1, <2>2 DEF Checked, Cloud!Reported
    <2>4. ASSUME NEW c \in Cloud!Buckets, Certified(c)' PROVE \A k \in Checks : Checked(c, k)'
      <3>1. Assessed
        BY <2>1, <2>4 DEF Certified, Assessed
      <3>2. Certified(c)
        BY <2>4, <3>1, GrowsKept
      <3>3. \A k \in Checks : Checked(c, k)
        BY <2>1, <3>2 DEF AccountedInv, ChecksMinded
      <3> QED
        BY <2>3, <3>3
    <2>5. \A c \in Cloud!Buckets : ChecksMinded(c)'
      BY <2>1, <2>4 DEF ChecksMinded
    <2> QED
      BY <2>1, <2>5, HandlerMinds
  <1> QED
    BY <1>1, <1>2

\* The checks of a bucket are all reported once the posture has been assessed, and
\* they stay so.
LEMMA ChecksReported ==
    ASSUME AccountedInv, Grows, tPc \in {"buckets", "regions", "content"}, UNCHANGED tFindings,
           tPc' \in {"buckets", "regions", "content", "done"}
    PROVE  \A b \in Cloud!Buckets : ChecksMinded(b)'
  <1> SUFFICES ASSUME NEW b \in Cloud!Buckets, Certified(b)', NEW check \in Checks
               PROVE  Checked(b, check)'
    BY DEF ChecksMinded
  <1>1. Assessed
    BY DEF Certified, Assessed
  <1>2. Certified(b)
    BY <1>1, GrowsKept
  <1>3. Checked(b, check)
    BY <1>2 DEF AccountedInv, ChecksMinded
  <1> QED
    BY <1>3, GrowsKept DEF Checked

\* Discovery: a bucket that is left out is one that the result names, or the flag
\* is set.
LEMMA AccountedListed ==
    ASSUME AccountedInv, Grows, Cloud!ListBuckets
    PROVE  AccountedInv'
  <1>1. /\ tPc \in {"posture-buckets", "buckets"} /\ UNCHANGED <<tWork, tFindings, tContent>>
        /\ tPc' = IF tPc = "posture-buckets" THEN "posture-regions" ELSE "regions"
    BY DEF Cloud!ListBuckets, Cloud!Listing, Cloud!Then
  <1>2. ASSUME NEW b \in Cloud!Buckets, ~tTruncated', ~Cloud!Undiscovered(b)' PROVE Located(b)'
    <2>1. \/ /\ tLeft' = Cloud!FirstOf(BucketNames, MaxBuckets)
             /\ tTruncated' = (tTruncated \/ Len(BucketNames) > MaxBuckets)
          \/ Cloud!Error("discovery", "buckets")
      BY Zenon DEF Cloud!ListBuckets
    <2>2. ~Cloud!Error("discovery", "buckets")
      BY <1>2 DEF Cloud!Undiscovered, Cloud!Said, Cloud!Error
    <2>3. BucketNames \in Seq(Cloud!Buckets) /\ MaxBuckets \in Nat /\ Len(BucketNames) \in Nat
      BY CloudAssumption
    <2>4. Len(BucketNames) <= MaxBuckets
      <3>1. ~(Len(BucketNames) > MaxBuckets)
        BY <1>2, <2>1, <2>2, Zenon
      <3> QED
        BY <2>3, <3>1
    <2>5. tLeft' = BucketNames
      BY <2>1, <2>2, <2>3, <2>4, FirstElements
    <2> QED
      BY <2>5 DEF Located, Cloud!Buckets
  <1>3. CASE tPc = "posture-buckets"
    <2>1. \A b \in Cloud!Buckets : ChecksMinded(b)'
      BY <1>1, <1>2, <1>3 DEF ChecksMinded, Certified
    <2> QED
      BY <1>1, <1>3, <2>1, HandlerMinds
  <1>4. CASE tPc = "buckets"
    <2>1. \A b \in Cloud!Buckets : ChecksMinded(b)'
      BY <1>1, <1>4, ChecksReported
    <2>2. \A b \in Cloud!Buckets : Complete(b)' => Located(b)'
      BY <1>2 DEF Complete
    <2> QED
      BY <1>1, <1>4, <2>1, <2>2, HandlerMinds
  <1> QED
    BY <1>1, <1>3, <1>4

\* A bucket that has no region is named in the result.
LEMMA AccountedLocated ==
    ASSUME AccountedInv, LeftTyped, Grows, Cloud!LocateBucket
    PROVE  AccountedInv'
  <1>1. /\ tPc \in {"posture-regions", "regions"} /\ UNCHANGED <<tPc, tWork, tFindings, tContent>>
        /\ tLeft # <<>> /\ tLeft' = Tail(tLeft)
        /\ \/ tFound' = tFound \cup {Head(tLeft)}
           \/ Cloud!Error("discovery", Head(tLeft)) /\ UNCHANGED tFound
    BY DEF Cloud!LocateBucket, Cloud!Locating
  <1>2. Cloud!Range(tLeft) = {Head(tLeft)} \cup Cloud!Range(Tail(tLeft))
    BY <1>1, HeadTail DEF LeftTyped
  <1>3. ASSUME NEW b, Located(b), ~Cloud!Undiscovered(b)' PROVE Located(b)'
    <2>1. CASE b = Head(tLeft) /\ Cloud!Error("discovery", Head(tLeft))
      BY <1>3, <2>1 DEF Cloud!Undiscovered, Cloud!Said, Cloud!Error
    <2> QED
      BY <1>1, <1>2, <1>3, <2>1 DEF Located
  <1>4. CASE tPc = "posture-regions"
    <2>1. ASSUME NEW b \in Cloud!Buckets, Certified(b)' PROVE Located(b)'
      <3>1. Assessed
        BY <1>1, <2>1 DEF Certified, Assessed
      <3>2. Certified(b)
        BY <2>1, <3>1, GrowsKept
      <3>3. Located(b)
        BY <1>4, <3>2 DEF AccountedInv, ChecksMinded
      <3> QED
        BY <1>3, <2>1, <3>3 DEF Certified
    <2>2. \A b \in Cloud!Buckets : ChecksMinded(b)'
      BY <1>1, <1>4, <2>1 DEF ChecksMinded
    <2> QED
      BY <1>1, <1>4, <2>2, HandlerMinds
  <1>5. CASE tPc = "regions"
    <2>1. \A b \in Cloud!Buckets : ChecksMinded(b)'
      BY <1>1, <1>5, ChecksReported
    <2>2. ASSUME NEW b \in Cloud!Buckets, Complete(b)' PROVE Located(b)'
      <3>1. Complete(b)
        BY <1>1, <2>2, GrowsKept
      <3>2. Located(b)
        BY <1>5, <3>1 DEF AccountedInv, ObjectsMinded
      <3> QED
        BY <1>3, <2>2, <3>2 DEF Complete
    <2> QED
      BY <1>1, <1>5, <2>1, <2>2, HandlerMinds
  <1> QED
    BY <1>1, <1>4, <1>5

\* Every bucket that was found is assessed, check by check, or listed by a goroutine
\* of its own.
LEMMA AccountedDiscovered ==
    ASSUME AccountedInv, Grows, Cloud!Discovered
    PROVE  AccountedInv'
  <1>1. /\ tPc \in {"posture-regions", "regions"} /\ UNCHANGED <<tFound, tFindings, tContent>>
        /\ tPc' = (IF tPc = "posture-regions" THEN "posture" ELSE "content")
        /\ UNCHANGED Cloud!result
    BY DEF Cloud!Discovered, Cloud!Locating, Cloud!Then, Cloud!result
  <1>2. Cloud!Range(tLeft) = {}
    BY DEF Cloud!Discovered, Cloud!Range
  <1>3. CASE tPc = "posture-regions"
    <2>1. /\ UNCHANGED tWork
          /\ tLeft' = Cloud!ChecksOf(Cloud!Without(BucketNames, Cloud!Buckets \ tFound))
      BY <1>3 DEF Cloud!Discovered
    <2>2. ASSUME NEW b \in Cloud!Buckets, Certified(b)', NEW check \in Checks
          PROVE  Checked(b, check)'
      <3>1. Assessed
        BY <1>1, <2>2 DEF Certified, Assessed
      <3>2. Certified(b)
        BY <2>2, <3>1, GrowsKept
      <3>3. b \in tFound
        BY <1>2, <1>3, <3>2 DEF AccountedInv, ChecksMinded, Located
      <3>4. PICK list \in Seq(Cloud!Buckets) :
                /\ tLeft' = Cloud!ChecksOf(list)
                /\ Leaves(BucketNames, Cloud!Buckets \ tFound, Len(BucketNames), list)
        <4>1. /\ BucketNames \in Seq(Cloud!Buckets)
              /\ Cloud!Without(BucketNames, Cloud!Buckets \ tFound)
                     = Without(BucketNames, Cloud!Buckets \ tFound)
          BY CloudAssumption DEF Cloud!Without, Without
        <4> QED
          BY <2>1, <4>1, WithoutLeaves
      <3>5. \E i \in 1..Len(list) : list[i] = b
        <4>1. \A j \in 1..Len(BucketNames) :
                  BucketNames[j] \notin Cloud!Buckets \ tFound
                      => \E a \in 1..Len(list) : list[a] = BucketNames[j]
          BY <3>4, Zenon DEF Leaves
        <4>2. \E j \in 1..Len(BucketNames) : BucketNames[j] = b
          <5>1. Cloud!Range(BucketNames) = FirstOnes(BucketNames, Len(BucketNames))
            BY RangeOf, CloudAssumption
          <5> QED
            BY <5>1 DEF FirstOnes, Cloud!Buckets
        <4> QED
          BY <3>3, <4>1, <4>2
      <3>6. <<b, check>> \in Cloud!Range(Cloud!ChecksOf(list))
        BY <3>5, ChecksOfList DEF Checks
      <3> QED
        BY <1>1, <1>3, <3>4, <3>6 DEF Checked
    <2>3. \A b \in Cloud!Buckets : ChecksMinded(b)'
      BY <1>1, <1>3, <2>2 DEF ChecksMinded
    <2> QED
      BY <1>1, <1>3, <2>1, <2>3, HandlerMinds
  <1>4. CASE tPc = "regions"
    <2>1. tWork' = [b \in Cloud!Buckets |->
                       IF b \in tFound THEN [pc |-> "ready"] ELSE Cloud!Idle]
      BY <1>4 DEF Cloud!Discovered
    <2>2. \A b \in Cloud!Buckets : ChecksMinded(b)'
      BY <1>1, <1>4, ChecksReported
    <2>3. ASSUME NEW b \in Cloud!Buckets, Complete(b)', NEW o PROVE Minded(b, o)'
      <3>1. Complete(b)
        BY <1>1, <2>3, GrowsKept
      <3>2. b \in tFound
        BY <1>2, <1>4, <3>1 DEF AccountedInv, ObjectsMinded, Located
      <3> QED
        BY <2>1, <3>2 DEF Minded, Covers
    <2>4. \A b \in Cloud!Buckets : ObjectsMinded(b)'
      BY <1>1, <1>4, <2>3 DEF ObjectsMinded
    <2> QED
      BY <1>1, <1>4, <2>2, <2>4 DEF AccountedInv, ContentDone
  <1> QED
    BY <1>1, <1>3, <1>4

\* The goroutines have ended.
LEMMA AccountedEnd ==
    ASSUME AccountedInv, Grows, Cloud!ScanContent
    PROVE  AccountedInv'
  <1>1. /\ tPc = "content" /\ tPc' = "done"
        /\ UNCHANGED <<tWork, tFindings, tContent, tAborted, tWritten>>
        /\ tAborted => Cloud!Error("content", "cancelled")
    BY DEF Cloud!ScanContent
  <1>2. \A b \in Cloud!Buckets : tWork[b].pc \in {"idle", "end"}
    BY DEF Cloud!ScanContent, Cloud!Busy
  <1>3. ContentDone'
    BY <1>1, <1>2 DEF ContentDone, Cloud!Error, Cloud!Said
  <1>4. ASSUME NEW b \in Cloud!Buckets, Complete(b)', NEW o \in Objects(b) PROVE Minded(b, o)'
    <2>1. Complete(b)
      BY <1>1, <1>4, GrowsKept
    <2>2. Minded(b, o)
      BY <1>1, <2>1 DEF AccountedInv, ObjectsMinded
    <2>3. Answered(o) => Answered(o)'
      BY GrowsKept
    <2>4. Covers(b, o, tWork[b]) => Covers(b, o, tWork[b])'
      BY <1>1 DEF Covers
    <2> QED
      BY <1>1, <2>2, <2>3, <2>4 DEF Minded
  <1>5. \A b \in Cloud!Buckets : ObjectsMinded(b)' /\ ChecksMinded(b)'
    <2>1. \A b \in Cloud!Buckets : ChecksMinded(b)'
      BY <1>1, ChecksReported
    <2>2. \A b \in Cloud!Buckets : ObjectsMinded(b)'
      BY <1>1, <1>4 DEF ObjectsMinded
    <2> QED
      BY <2>1, <2>2
  <1> QED
    BY <1>1, <1>3, <1>5 DEF AccountedInv

\* Before the scan there is nothing to account for.
LEMMA AccountedStart == Cloud!Init => AccountedInv
  <1> SUFFICES ASSUME Cloud!Init PROVE AccountedInv
    OBVIOUS
  <1>1. tPc = "asked" /\ tFindings = {} /\ \A b \in Cloud!Buckets : tWork[b].pc = "idle"
    BY DEF Cloud!Init, Cloud!Idle
  <1> QED
    BY <1>1 DEF AccountedInv, ContentDone, ObjectsMinded, ChecksMinded, Certified, Assessed

\* Every step of a scan keeps account of what is still to be said.
LEMMA AccountedSteps ==
    CloudTyped /\ SizesTyped /\ LeftTyped /\ AccountedInv /\ [Cloud!Next]_tVars => AccountedInv'
  <1> SUFFICES ASSUME CloudTyped, SizesTyped, LeftTyped, AccountedInv, [Cloud!Next]_tVars
               PROVE  AccountedInv'
    OBVIOUS
  <1>1. Grows
    BY ScanGrows
  <1>2. CASE Cloud!Expire \/ UNCHANGED tVars
    <2>1. UNCHANGED <<tPc, tLeft, tFound, tContent, tWork, tFindings, tErrors, tTruncated,
                      tAborted, tWritten>>
      BY <1>2 DEF Cloud!Expire, Cloud!result, tVars
    <2>2. ContentDone'
      BY <2>1 DEF AccountedInv, ContentDone, Cloud!Said
    <2>3. ASSUME NEW b \in Cloud!Buckets PROVE ChecksMinded(b)'
      BY <1>1, <2>1, ChecksKept DEF AccountedInv, Assessed
    <2>4. ASSUME NEW b \in Cloud!Buckets PROVE ObjectsMinded(b)'
      <3>1. Complete(b)' => Complete(b)
        BY <1>1, <2>1, GrowsKept
      <3>2. Located(b) => Located(b)'
        BY <2>1 DEF Located
      <3>3. \A o : Covers(b, o, tWork[b]) => Covers(b, o, tWork[b])'
        BY <2>1 DEF Covers
      <3>4. \A o : Minded(b, o) => Minded(b, o)'
        BY <1>1, <2>1, <3>3, GrowsKept DEF Minded
      <3> QED
        BY <2>1, <3>1, <3>2, <3>4 DEF AccountedInv, ObjectsMinded
    <2> QED
      BY <2>1, <2>2, <2>3, <2>4 DEF AccountedInv
  <1>3. CASE \/ Cloud!HandleAWSS3Scan \/ Cloud!assessAccountPosture \/ Cloud!assessBucketPosture
             \/ Cloud!ScanPosture \/ Cloud!ListBuckets \/ Cloud!LocateBucket \/ Cloud!Discovered
             \/ Cloud!ScanContent
    BY <1>1, <1>3, AccountedAsked, AccountedPosture, AccountedListed, AccountedLocated,
       AccountedDiscovered, AccountedEnd
  <1>4. ASSUME NEW b \in Cloud!Buckets,
               \/ Cloud!StartBucket(b) \/ Cloud!listObjects(b) \/ Cloud!NextObject(b)
               \/ Cloud!HeadObject(b) \/ Cloud!TakeSlot(b) \/ Cloud!downloadObject(b)
        PROVE  AccountedInv'
    BY <1>1, <1>4, AccountedNext, AccountedPage, AccountedHead, AccountedSlot, AccountedDownload
  <1>5. ASSUME NEW b \in Cloud!Buckets, NEW o \in Cloud!Range(Keys[b]), NEW version \in Versions,
               Cloud!WriteObject(b, o, version)
        PROVE  AccountedInv'
    BY <1>1, <1>5, AccountedWritten DEF Objects
  <1> QED
    BY <1>2, <1>3, <1>4, <1>5 DEF Cloud!Next

\* When the answer is there, nothing is left to come.
LEMMA AccountedAtLast ==
    ASSUME AccountedInv
    PROVE  Cloud!AllAccounted
  <1> SUFFICES ASSUME tPc = "done", ~tTruncated, NEW b \in Cloud!Buckets
               PROVE  Cloud!ObjectsAccounted(b) /\ Cloud!ChecksAccounted(b)
    BY DEF Cloud!AllAccounted
  <1>1. ASSUME Complete(b), ~Cloud!Said("content", "cancelled"), NEW o \in Objects(b)
        PROVE  Silent(o) \/ o \in tWritten \/ Answered(o)
    <2>1. Minded(b, o)
      BY <1>1 DEF AccountedInv, ObjectsMinded
    <2>2. tWork[b].pc \in {"idle", "end"} /\ ~tAborted
      BY <1>1 DEF AccountedInv, ContentDone, Complete
    <2> QED
      BY <2>1, <2>2 DEF Minded, Covers
  <1>2. Cloud!ObjectsAccounted(b)
    BY <1>1 DEF Cloud!ObjectsAccounted, Complete, Answered, Objects, Silent
  <1>3. Certified(b) => \A check \in Checks : Cloud!Reported(b, check)
    BY DEF AccountedInv, ChecksMinded, Checked
  <1>4. Cloud!ChecksAccounted(b)
    BY <1>3 DEF Cloud!ChecksAccounted, Certified, Assessed, Checks
  <1> QED
    BY <1>2, <1>4

\* Little is passed over in silence: when a scan of the content or of the posture
\* is answered, each object that was there with content, was left alone and does not
\* have the key of a directory, and each check, has an outcome, or an error or the
\* flag says that the scan is not complete, for any number of buckets and objects,
\* any limits, failures and deadline (ScanContent, ScanPosture, listObjects,
\* scanObject).
THEOREM NothingPassedOver == ConsoleSpec => []AllAccounted
  <1> DEFINE I == VerdictsInv /\ LeftTyped /\ SizesTyped /\ AccountedInv
  <1>1. ConsoleInit => I
    BY VerdictsStart, AccountedStart DEF ConsoleInit
  <1>2. I /\ [ConsoleNext]_consoleVars => I'
    <2>1. [ConsoleNext]_consoleVars => [Cloud!Next]_tVars
      BY DEF ConsoleNext, consoleVars
    <2>2. VerdictsInv => CloudTyped
      BY DEF VerdictsInv
    <2> QED
      BY <2>1, <2>2, VerdictsSteps, LeftSteps, SizesSteps, AccountedSteps
  <1>3. I => AllAccounted
    BY AccountedAtLast DEF AllAccounted
  <1> HIDE DEF I
  <1> QED
    BY <1>1, <1>2, <1>3, PTL DEF ConsoleSpec

----------------------------------------------------------------------------
(* The types of the parts: policies and access *)

\* A policy is in the table when it is in the one it is compared with, and an update
\* has a request that names fields.
PoliciesTyped ==
    /\ Policies!TypeOK
    /\ \A p \in PolicyIds : pTable[p] = None <=> pSerial[p] = None
    /\ \A h \in Handlers :
           pWork[h].pc = "write" =>
               pWork[h].request \in [PolicyFields -> PolicyValues \cup {None}]

\* There are no policies at first.
LEMMA PoliciesTypedStart == Policies!Init => PoliciesTyped
  BY DEF Policies!Init, PoliciesTyped, Policies!TypeOK, Policies!Idle, Policies!Policy

\* Every request leaves policies as they should be; an update replaces fields.
LEMMA PoliciesTypedSteps ==
    PoliciesInv /\ PoliciesTyped /\ [Policies!Next]_pVars => PoliciesTyped'
  <1> USE ConsoleAssumption DEF Policies!Goto, PoliciesTyped, Policies!TypeOK, Policies!Policy
  <1> SUFFICES ASSUME PoliciesInv, PoliciesTyped, [Policies!Next]_pVars PROVE PoliciesTyped'
    OBVIOUS
  <1>1. ASSUME NEW p \in PolicyIds, Policies!CreatePolicy(p) PROVE PoliciesTyped'
    BY <1>1 DEF Policies!CreatePolicy
  <1>2. ASSUME NEW p \in PolicyIds, Policies!DeletePolicy(p) PROVE PoliciesTyped'
    BY <1>2 DEF Policies!DeletePolicy
  <1>3. ASSUME NEW h \in Handlers, NEW p \in PolicyIds, Policies!GetPolicyByID(h, p)
        PROVE  PoliciesTyped'
    BY <1>3 DEF Policies!GetPolicyByID, PoliciesInv
  <1>4. ASSUME NEW h \in Handlers, Policies!UpdatePolicy(h) PROVE PoliciesTyped'
    <2> DEFINE w == pWork[h]
               row == Policies!Merged(pSerial[w.id], w.request)
    <2>1. /\ w.pc = "write" /\ w.id \in PolicyIds
          /\ w.row \in [PolicyFields -> PolicyValues]
          /\ pWork' = [pWork EXCEPT ![h] = Policies!Idle] /\ DOMAIN pWork = Handlers
          /\ pDeleted' = pDeleted
      BY <1>4 DEF Policies!UpdatePolicy, PoliciesInv
    <2>2. CASE /\ pTable[w.id] # None
               /\ pTable' = [pTable EXCEPT ![w.id] = w.row]
               /\ pSerial' = [pSerial EXCEPT ![w.id] = row]
               /\ pOverlapped' \in {pOverlapped, pOverlapped \cup {w.id}}
      <3>1. row \in [PolicyFields -> PolicyValues]
        BY <2>1, <2>2 DEF Policies!Merged
      <3> HIDE DEF row
      <3> QED
        BY <2>1, <2>2, <3>1 DEF Policies!Idle
    <2>3. CASE UNCHANGED <<pTable, pSerial, pOverlapped>>
      BY <2>1, <2>3 DEF Policies!Idle
    <2> QED
      BY <1>4, <2>2, <2>3 DEF Policies!UpdatePolicy
  <1>5. CASE UNCHANGED pVars
    BY <1>5 DEF pVars
  <1> QED
    BY <1>1, <1>2, <1>3, <1>4, <1>5 DEF Policies!Next

\* What bounds the attempts and the tokens says of what kind they are.
LEMMA AccessTyped == AccessInv /\ AttemptsInv => Access!TypeOK
  BY DEF AccessInv, AttemptsInv, Paid, Access!TypeOK

----------------------------------------------------------------------------
(* The types of the parts: keywords *)

\* Lists on their way are as old as a version the table has had.
KeywordsTyped ==
    /\ Keyword!TypeOK
    /\ DOMAIN kWork = Handlers

\* The matcher starts with an empty list.
LEMMA KeywordsTypedStart == Keyword!Init => KeywordsTyped
  <1> SUFFICES ASSUME Keyword!Init PROVE KeywordsTyped
    OBVIOUS
  <1>1. kMatcher \in [version : 0..0, endless : BOOLEAN] /\ kVersion = 0
    BY DEF Keyword!Init, Keyword!Compile
  <1>2. 0 \in 0..KeywordWrites
    BY TypesAssumption
  <1> QED
    BY <1>1, <1>2 DEF Keyword!Init, KeywordsTyped, Keyword!TypeOK, Keyword!Idle

\* Every step keeps the table and the matcher what they are.
LEMMA KeywordsTypedSteps ==
    KeywordAgeInv /\ KeywordOriginInv /\ KeywordsTyped /\ [Keyword!Next]_kVars => KeywordsTyped'
  <1> SUFFICES ASSUME KeywordAgeInv, KeywordOriginInv, KeywordsTyped, [Keyword!Next]_kVars
               PROVE  KeywordsTyped'
    OBVIOUS
  <1> USE DEF KeywordsTyped, Keyword!TypeOK, Keyword!Goto, Keyword!Idle, Keyword!Work
  <1>1. KeywordWrites \in Nat /\ KeywordInputs \subseteq Keyword!Keyword
    BY TypesAssumption, ConsoleAssumption
  <1>2. ASSUME NEW i \in KeywordIds, NEW kw \in Keyword!Keyword \cup {None}, Keyword!Store(i, kw)
        PROVE  /\ kTable' \in [KeywordIds -> Keyword!Keyword \cup {None}]
               /\ kVersion' \in 0..KeywordWrites
               /\ kMatcher' \in [version : 0..kVersion', endless : BOOLEAN]
    BY <1>1, <1>2 DEF Keyword!Store
  <1>3. ASSUME NEW h \in Handlers, NEW i \in KeywordIds,
               \/ Keyword!HandleCreate(h, i) \/ Keyword!HandleUpdate(h, i)
               \/ Keyword!HandleDelete(h, i)
        PROVE  KeywordsTyped'
    <2>1. PICK kw \in Keyword!Keyword \cup {None} : Keyword!Store(i, kw)
      BY <1>1, <1>3 DEF Keyword!HandleCreate, Keyword!HandleUpdate, Keyword!HandleDelete,
                        Keyword!Create, Keyword!Update, Keyword!Delete
    <2>2. kEmptied' \in BOOLEAN /\ kWork' = [kWork EXCEPT ![h] = Keyword!Work("list", "edit", 0)]
      BY <1>1, <1>3 DEF Keyword!HandleCreate, Keyword!HandleUpdate, Keyword!HandleDelete,
                        Keyword!Keyword
    <2> QED
      BY <1>2, <2>1, <2>2
  <1>4. ASSUME NEW h \in Handlers, NEW i \in KeywordIds, Keyword!ImportRow(h, i)
        PROVE  KeywordsTyped'
    <2>1. Csv[kWork[h].row] \in Keyword!Keyword
      BY <1>4, ConsoleAssumption DEF Keyword!ImportRow, KeywordOriginInv
    <2>2. Keyword!Imported(Csv[kWork[h].row]) \in Keyword!Keyword
      BY <2>1 DEF Keyword!Imported, Keyword!Keyword
    <2>3. Keyword!Store(i, Keyword!Imported(Csv[kWork[h].row]))
      BY <1>4 DEF Keyword!ImportRow, Keyword!Create
    <2>4. /\ UNCHANGED kEmptied
          /\ kWork' = [kWork EXCEPT ![h] = Keyword!Work("list", "import", kWork[h].row)]
      BY <1>4 DEF Keyword!ImportRow
    <2> QED
      BY <1>2, <2>2, <2>3, <2>4
  <1>5. ASSUME NEW h \in Handlers, Keyword!LoadKeywords(h) PROVE KeywordsTyped'
    <2>1. kWork[h].list.version \in 0..kVersion
      BY <1>5 DEF Keyword!LoadKeywords, KeywordAgeInv
    <2>2. Keyword!Compile(kWork[h].list) \in [version : 0..kVersion, endless : BOOLEAN]
      BY <2>1 DEF Keyword!Compile
    <2> QED
      BY <1>5, <2>2 DEF Keyword!LoadKeywords, Keyword!Done, Keyword!NextRow
  <1>6. ASSUME NEW h \in Handlers,
               \/ Keyword!HandleTest(h) \/ Keyword!HandleImport(h) \/ Keyword!SkipRow(h)
               \/ Keyword!List(h) \/ Keyword!MatchContent(h) \/ Keyword!Answer(h)
        PROVE  KeywordsTyped'
    <2>1. UNCHANGED <<kTable, kVersion, kMatcher, kEmptied>>
      BY <1>6 DEF Keyword!HandleTest, Keyword!HandleImport, Keyword!SkipRow, Keyword!List,
                  Keyword!MatchContent, Keyword!Answer
    <2>2. \E w : /\ kWork' = [kWork EXCEPT ![h] = w]
                 /\ w.pc \in {"idle", "row", "list", "load", "match", "matched", "endless"}
      BY <1>6 DEF Keyword!HandleTest, Keyword!HandleImport, Keyword!SkipRow, Keyword!List,
                  Keyword!MatchContent, Keyword!Answer, Keyword!Done, Keyword!NextRow
    <2> QED
      BY <2>1, <2>2
  <1>7. CASE UNCHANGED kVars
    BY <1>7 DEF kVars
  <1> QED
    BY <1>3, <1>4, <1>5, <1>6, <1>7 DEF Keyword!Next

----------------------------------------------------------------------------
(* The types of the parts: incidents *)

\* A note is about an incident that exists, and so is the one a handler is about to
\* add; deliveries and requests of analysts are counted together.
Noted(note) ==
    note \in [inc : Incident!Known,
              kind : {"STATUS_CHANGE", "ASSIGNMENT", "ESCALATION", "RESOLUTION", "COMMENT"},
              prev : Incident!Statuses \cup {""}, new : Incident!Statuses \cup {""}]
Handling(w) ==
    /\ w.pc \in {"idle", "event", "rules", "reply", "status", "note"}
    /\ w.pc = "note" => Noted(w.note)
    /\ w.pc = "status" => w.prev \in Incident!Statuses

IncidentsTyped ==
    /\ nIncs \in [IncidentIds -> Incident!Incident \cup {None}]
    /\ DOMAIN nWork = Handlers
    /\ \A h \in Handlers : Handling(nWork[h])
    /\ \A note \in nNotes : Noted(note)
    /\ nSends \in Nat /\ nEdits \in Nat /\ nSends + nEdits <= IncidentRequests
    /\ nAcked \in BOOLEAN

\* Nothing is sent at first.
LEMMA IncidentsTypedStart == Incident!Init => IncidentsTyped
  <1> SUFFICES ASSUME Incident!Init PROVE IncidentsTyped
    OBVIOUS
  <1>1. nWork = [h \in Handlers |-> [pc |-> "idle"]] /\ nNotes = {} /\ nAcked = FALSE
    BY DEF Incident!Init, Incident!Idle
  <1>2. \A h \in Handlers : Handling(nWork[h])
    BY <1>1 DEF Handling
  <1>3. nSends \in Nat /\ nEdits \in Nat /\ nSends + nEdits <= IncidentRequests
    BY TypesAssumption DEF Incident!Init
  <1>4. nIncs \in [IncidentIds -> Incident!Incident \cup {None}]
    BY DEF Incident!Init
  <1>5. DOMAIN nWork = Handlers /\ nAcked \in BOOLEAN /\ \A note \in nNotes : Noted(note)
    BY <1>1
  <1> QED
    BY <1>2, <1>3, <1>4, <1>5 DEF IncidentsTyped

\* With what the other invariants say of the rows and the log, these are the types.
LEMMA IncidentsTypeOK == IncidentsTyped /\ TrailInv /\ LogsInv => Incident!TypeOK
  <1> SUFFICES ASSUME IncidentsTyped, TrailInv, LogsInv PROVE Incident!TypeOK
    OBVIOUS
  <1>1. nIncs \in [IncidentIds -> Incident!Incident \cup {None}]
    BY DEF IncidentsTyped
  <1>2. nLogs \in [DOMAIN Batch -> 0..IncidentRequests]
    <2>1. ASSUME NEW n \in DOMAIN Batch PROVE nLogs[n] \in 0..IncidentRequests
      <3>1. /\ nLogs[n] \in Nat /\ nLogs[n] + Cardinality(Ahead(n)) <= nSends
            /\ nSends + nEdits <= IncidentRequests /\ nSends \in Nat /\ nEdits \in Nat
        BY DEF LogsInv, IncidentsTyped
      <3>2. Cardinality(Ahead(n)) \in Nat /\ IncidentRequests \in Nat
        BY AheadFinite, TypesAssumption
      <3> QED
        BY <3>1, <3>2
    <2> QED
      BY <2>1 DEF LogsInv
  <1>3. {nSends, nEdits} \subseteq 0..IncidentRequests
    BY TypesAssumption DEF IncidentsTyped
  <1>4. /\ \A note \in nNotes : Noted(note)
        /\ \A h \in Handlers : nWork[h].pc \in {"idle", "event", "rules", "reply", "status", "note"}
        /\ {nAcked, nFaulty} \subseteq BOOLEAN
    BY DEF IncidentsTyped, Handling, TrailInv
  <1> QED
    BY <1>1, <1>2, <1>3, <1>4 DEF Incident!TypeOK, Noted

\* Incidents are not deleted, and what a handler goes on with names known ones.
LEMMA HandlingGoes ==
    ASSUME IncidentsTyped, nIncs' \in [IncidentIds -> Incident!Incident \cup {None}],
           \A i \in IncidentIds : nIncs[i] # None => nIncs'[i] # None,
           NEW h \in Handlers, NEW w, Handling(w), nWork' \in {nWork, [nWork EXCEPT ![h] = w]},
           \A note \in nNotes' : note \in nNotes \/ Noted(note),
           nSends' \in Nat, nEdits' \in Nat, nSends' + nEdits' <= IncidentRequests,
           nAcked' \in BOOLEAN
    PROVE  IncidentsTyped'
  <1>1. Incident!Known \subseteq Incident!Known'
    BY DEF Incident!Known
  <1>2. \A n : Noted(n) => Noted(n)'
    BY <1>1 DEF Noted
  <1>3. \A v : Handling(v) => Handling(v)'
    BY <1>2 DEF Handling
  <1> QED
    BY <1>2, <1>3 DEF IncidentsTyped

\* A row is written, or its statement fails.
LEMMA HandlingWrites ==
    ASSUME IncidentsTyped, TrailInv, NEW h \in Handlers, NEW i \in IncidentIds,
           NEW row \in Incident!Incident, NEW w, Handling(w), Incident!Write(h, i, row, w),
           nEdits' \in Nat, nSends + nEdits' <= IncidentRequests
    PROVE  IncidentsTyped'
  <1>1. Handling(Incident!Idle)
    BY DEF Handling, Incident!Idle
  <1>2. row # None /\ DOMAIN nIncs = IncidentIds
    BY ConsoleAssumption DEF TrailInv
  <1>3. /\ nIncs' \in {nIncs, [nIncs EXCEPT ![i] = row]}
        /\ \/ nWork' = [nWork EXCEPT ![h] = w]
           \/ nWork' = [nWork EXCEPT ![h] = Incident!Idle]
        /\ UNCHANGED <<nNotes, nSends, nAcked>>
    BY DEF Incident!Write, Incident!Fails, Incident!Goto
  <1>4. nSends \in Nat /\ nAcked \in BOOLEAN
    BY DEF IncidentsTyped
  <1>5. /\ nIncs' \in [IncidentIds -> Incident!Incident \cup {None}]
        /\ \A j \in IncidentIds : nIncs[j] # None => nIncs'[j] # None
    BY <1>2, <1>3 DEF IncidentsTyped
  <1> QED
    BY <1>1, <1>2, <1>3, <1>4, <1>5, HandlingGoes

\* Every step of events and analysts keeps rows and notes whole.
LEMMA IncidentsTypedSteps ==
    TrailInv /\ IncidentsTyped /\ [Incident!Next]_nVars => IncidentsTyped'
  <1> SUFFICES ASSUME TrailInv, IncidentsTyped, [Incident!Next]_nVars
               PROVE  IncidentsTyped'
    OBVIOUS
  <1> USE DEF Incident!Goto
  <1>1. /\ nSends \in Nat /\ nEdits \in Nat /\ nSends + nEdits <= IncidentRequests
        /\ nAcked \in BOOLEAN /\ IncidentRequests \in Nat
        /\ nIncs \in [IncidentIds -> Incident!Incident \cup {None}] /\ DOMAIN nWork = Handlers
    BY TypesAssumption DEF IncidentsTyped, TrailInv
  <1>2. Handling(Incident!Idle)
    BY DEF Handling, Incident!Idle
  <1>3. \A n : /\ Handling(Incident!AtEvent(n)) /\ Handling(Incident!NextEvent(n))
               /\ \A todo : Handling(Incident!AtRules(n, todo))
    BY DEF Handling, Incident!AtEvent, Incident!NextEvent, Incident!AtRules
  <1>4. ASSUME NEW i \in Incident!Known,
               NEW kind \in {"STATUS_CHANGE", "ASSIGNMENT", "ESCALATION", "RESOLUTION", "COMMENT"},
               NEW prev \in Incident!Statuses \cup {""}, NEW new \in Incident!Statuses \cup {""}
        PROVE  Handling(Incident!Noting(i, kind, prev, new))
    BY DEF Handling, Noted, Incident!Noting
  <1>5. ASSUME NEW h \in Handlers, NEW w, Handling(w), nWork' \in {nWork, [nWork EXCEPT ![h] = w]},
               UNCHANGED <<nIncs, nNotes>>, nAcked' \in BOOLEAN,
               nSends' \in Nat, nEdits' \in Nat, nSends' + nEdits' <= IncidentRequests
        PROVE  IncidentsTyped'
    BY <1>1, <1>5, HandlingGoes
  <1>6. ASSUME NEW h \in Handlers, NEW i \in IncidentIds, Incident!Asks(h, i)
        PROVE  /\ i \in Incident!Known /\ nIncs[i] \in Incident!Incident
               /\ nEdits' \in Nat /\ nSends + nEdits' <= IncidentRequests
    BY <1>1, <1>6 DEF Incident!Asks, Incident!Known, TrailInv
  <1>7. ASSUME NEW h \in Handlers,
               \/ Incident!ReceiveEventBatch(h) \/ Incident!StoreEvent(h)
               \/ Incident!RulesChecked(h) \/ Incident!Reply(h)
        PROVE  IncidentsTyped'
    <2>1. CASE Incident!ReceiveEventBatch(h)
      <3>1. /\ nSends' \in Nat /\ nSends' + nEdits <= IncidentRequests
            /\ UNCHANGED <<nIncs, nNotes, nEdits, nAcked>>
        BY <1>1, <2>1 DEF Incident!ReceiveEventBatch
      <3>2. nWork' \in {nWork, [nWork EXCEPT ![h] = Incident!AtEvent(1)]}
        BY <2>1 DEF Incident!ReceiveEventBatch
      <3> QED
        BY <1>1, <1>3, <1>5, <3>1, <3>2
    <2>2. CASE \/ Incident!StoreEvent(h) \/ Incident!RulesChecked(h) \/ Incident!Reply(h)
      <3>1. UNCHANGED <<nIncs, nNotes, nSends, nEdits>> /\ nAcked' \in BOOLEAN
        BY <1>1, <2>2 DEF Incident!StoreEvent, Incident!RulesChecked, Incident!Reply,
                          Incident!Fails
      <3>2. \E w : Handling(w) /\ nWork' = [nWork EXCEPT ![h] = w]
        BY <1>2, <1>3, <2>2 DEF Incident!StoreEvent, Incident!RulesChecked, Incident!Reply,
                                Incident!Fails
      <3> QED
        BY <1>1, <1>5, <3>1, <3>2
    <2> QED
      BY <1>7, <2>1, <2>2
  <1>8. ASSUME NEW h \in Handlers, NEW i \in IncidentIds, Incident!createIncident(h, i)
        PROVE  IncidentsTyped'
    <2>1. \E w : Handling(w) /\ nWork' = [nWork EXCEPT ![h] = w]
      BY <1>3, <1>8 DEF Incident!createIncident, Incident!Fails
    <2>2. ~(Incident!Required \subseteq Incident!Row(Incident!RuleColumns, "OPEN").given)
      BY DEF Incident!Required, Incident!Row, Incident!RuleColumns
    <2>3. UNCHANGED <<nIncs, nNotes, nSends, nEdits, nAcked>>
      BY <1>8, <2>2 DEF Incident!createIncident, Incident!Fails, Incident!Insert
    <2> QED
      BY <1>1, <1>5, <2>1, <2>3
  <1>9. ASSUME NEW i \in IncidentIds, Incident!Create(i) PROVE IncidentsTyped'
    <2>1. /\ nIncs[i] = None /\ UNCHANGED <<nNotes, nWork, nSends, nEdits, nAcked>>
          /\ \E status \in {"OPEN"} \cup GivenStatuses :
                 nIncs' \in {nIncs, [nIncs EXCEPT
                                        ![i] = Incident!Row(Incident!ManagerColumns, status)]}
      BY <1>9 DEF Incident!Create, Incident!Insert
    <2>5. {"OPEN"} \cup GivenStatuses \subseteq Incident!Statuses
      BY ConsoleAssumption DEF Incident!Statuses
    <2>6. \A status \in Incident!Statuses :
              Incident!Row(Incident!ManagerColumns, status) \in Incident!Incident
      BY DEF Incident!Row, Incident!Incident
    <2>7. nIncs' \in [IncidentIds -> Incident!Incident \cup {None}]
      BY <1>1, <2>1, <2>5, <2>6
    <2>2. Incident!Known \subseteq Incident!Known'
      BY <1>1, <2>1 DEF Incident!Known
    <2>3. \A n : Noted(n) => Noted(n)'
      BY <2>2 DEF Noted
    <2>4. \A v : Handling(v) => Handling(v)'
      BY <2>3 DEF Handling
    <2> QED
      BY <2>1, <2>3, <2>4, <2>7 DEF IncidentsTyped
  <1>10. ASSUME NEW h \in Handlers, NEW i \in IncidentIds,
                Incident!ReadStatus(h, i) \/ Incident!HandleAddNote(h, i)
         PROVE  IncidentsTyped'
    <2>1. Incident!Asks(h, i) /\ UNCHANGED <<nIncs, nNotes, nSends, nAcked>>
      BY <1>10 DEF Incident!ReadStatus, Incident!HandleAddNote
    <2>2. nIncs[i].status \in Incident!Statuses
      BY <1>6, <2>1 DEF Incident!Incident
    <2>3. \E w : Handling(w) /\ nWork' = [nWork EXCEPT ![h] = w]
      <3>1. CASE Incident!ReadStatus(h, i)
        BY <2>2, <3>1 DEF Incident!ReadStatus, Handling
      <3>2. CASE Incident!HandleAddNote(h, i)
        BY <1>4, <1>6, <2>1, <3>2 DEF Incident!HandleAddNote
      <3> QED
        BY <1>10, <3>1, <3>2
    <2> QED
      BY <1>1, <1>5, <1>6, <2>1, <2>3
  <1>11. ASSUME NEW h \in Handlers, NEW i \in IncidentIds,
                \/ Incident!Assign(h, i) \/ Incident!Escalate(h, i)
                \/ Incident!ResolveIncident(h, i)
                \/ \E status \in {"RESOLVED", "FALSE_POSITIVE"} : Incident!Resolve(h, i, status)
         PROVE  IncidentsTyped'
    <2>1. Incident!Asks(h, i)
      BY <1>11 DEF Incident!Assign, Incident!Escalate, Incident!ResolveIncident, Incident!Resolve
    <2>2. {"OPEN", "ESCALATED", "RESOLVED", "FALSE_POSITIVE"} \subseteq Incident!Statuses
      BY DEF Incident!Statuses
    <2>3. /\ Incident!Assigned(nIncs[i]) \in Incident!Incident
          /\ \A status \in {"ESCALATED", "RESOLVED", "FALSE_POSITIVE"} :
                 /\ Incident!WithStatus(nIncs[i], status) \in Incident!Incident
                 /\ Incident!Closed(nIncs[i], status) \in Incident!Incident
      BY <1>6, <2>1, <2>2, TrailRows
    <2>4. /\ Handling(Incident!Noting(i, "ASSIGNMENT", "", ""))
          /\ Handling(Incident!Noting(i, "ESCALATION", "", "ESCALATED"))
          /\ \A status \in {"RESOLVED", "FALSE_POSITIVE"} :
                 Handling(Incident!Noting(i, "RESOLUTION", "", status))
      BY <1>4, <1>6, <2>1, <2>2
    <2>5. \E row \in Incident!Incident : \E w : Handling(w) /\ Incident!Write(h, i, row, w)
      BY <1>2, <1>11, <2>3, <2>4 DEF Incident!Assign, Incident!Escalate,
                                     Incident!ResolveIncident, Incident!Resolve
    <2> QED
      BY <1>6, <2>1, <2>5, HandlingWrites
  <1>12. ASSUME NEW h \in Handlers, Incident!UpdateStatus(h) PROVE IncidentsTyped'
    <2> DEFINE w == nWork[h]
    <2>1. /\ w.pc = "status" /\ w.inc \in Incident!Known /\ w.inc \in IncidentIds
          /\ w.new \in Incident!Statuses /\ nIncs[w.inc] \in Incident!Incident
          /\ w.prev \in Incident!Statuses
      BY <1>12 DEF Incident!UpdateStatus, TrailInv, IncidentsTyped, Handling, Incident!Known
    <2>2. /\ Incident!Write(h, w.inc, Incident!WithStatus(nIncs[w.inc], w.new),
                            Incident!Noting(w.inc, "STATUS_CHANGE", w.prev, w.new))
          /\ UNCHANGED nEdits
      BY <1>12 DEF Incident!UpdateStatus
    <2>3. Incident!WithStatus(nIncs[w.inc], w.new) \in Incident!Incident
      BY <2>1, TrailRows
    <2>4. Handling(Incident!Noting(w.inc, "STATUS_CHANGE", w.prev, w.new))
      BY <1>4, <2>1
    <2> HIDE DEF w
    <2> QED
      BY <1>1, <2>1, <2>2, <2>3, <2>4, HandlingWrites
  <1>13. ASSUME NEW h \in Handlers, Incident!AddNote(h) PROVE IncidentsTyped'
    <2>1. Noted(nWork[h].note)
      BY <1>13 DEF Incident!AddNote, IncidentsTyped, Handling
    <2>2. /\ nWork' = [nWork EXCEPT ![h] = Incident!Idle]
          /\ nNotes' \in {nNotes, nNotes \cup {nWork[h].note}}
          /\ UNCHANGED <<nIncs, nSends, nEdits, nAcked>>
      BY <1>13 DEF Incident!AddNote, Incident!Fails
    <2>3. \A note \in nNotes' : note \in nNotes \/ Noted(note)
      BY <2>1, <2>2
    <2> QED
      BY <1>1, <1>2, <2>2, <2>3, HandlingGoes
  <1>14. CASE UNCHANGED nVars
    <2>1. UNCHANGED <<nIncs, nNotes, nWork, nSends, nEdits, nAcked>>
      BY <1>14 DEF nVars
    <2> QED
      BY <2>1 DEF IncidentsTyped, Handling, Noted, Incident!Known
  <1> QED
    BY <1>7, <1>8, <1>9, <1>10, <1>11, <1>12, <1>13, <1>14 DEF Incident!Next

----------------------------------------------------------------------------
(* The types of the parts: accounts *)

\* Accounts are never removed, so a request about one finds it; the list of a user
\* is a list of roles, that of a role one of permissions.
Row == [name : Names, active : BOOLEAN]
Listed(w, users) ==
    w \in Listers =>
        IF w.of \in UserIds THEN w.wanted \subseteq RoleIds /\ users[w.of] # None
        ELSE w.wanted \subseteq Perms

AccountTables ==
    /\ uUsers \in [UserIds -> Row \cup {None}]
    /\ uRoles \in [RoleIds -> {"system", "custom", None}]
    /\ uGrants \subseteq UserIds \X RoleIds /\ uAllows \subseteq RoleIds \X Perms
    /\ \A pair \in uGrants : uUsers[pair[1]] # None /\ uRoles[pair[2]] # None

AccountsTyped ==
    /\ AccountTables
    /\ \A h \in Handlers : Listed(uWork[h], uUsers)

\* There are only the system roles at first.
LEMMA AccountsTypedStart == Account!Init => AccountsTyped
  <1> SUFFICES ASSUME Account!Init PROVE AccountsTyped
    OBVIOUS
  <1>1. AccountTables
    BY ConsoleAssumption DEF Account!Init, AccountTables
  <1>2. ASSUME NEW h \in Handlers PROVE Listed(uWork[h], uUsers)
    BY NotListed DEF Account!Init, Others, Listed
  <1> QED
    BY <1>1, <1>2 DEF AccountsTyped

\* These are the types of the accounts.
LEMMA AccountsTypeOK == AccountsTyped => Account!TypeOK
  BY DEF AccountsTyped, AccountTables, Row, Account!TypeOK

\* A request that goes on with its list, perhaps disturbed, has the list it had.
LEMMA ListedQuiet ==
    ASSUME NEW v, NEW w, Listed(v, uUsers), Quiet(v, w),
           \A u \in UserIds : uUsers[u] # None => uUsers'[u] # None
    PROVE  Listed(w, uUsers')
  BY DEF Listed, Quiet

\* A request takes up a list of its kind.
LEMMA ListedBegins ==
    ASSUME ListsInv, AccountsTyped, NEW h \in Handlers,
           \A u \in UserIds : uUsers[u] # None => uUsers'[u] # None,
           NEW of, NEW wanted, NEW replace \in BOOLEAN, Account!Then(h, of, wanted, replace),
           IF of \in UserIds THEN wanted \subseteq RoleIds /\ uUsers'[of] # None
           ELSE wanted \subseteq Perms
    PROVE  \A g \in Handlers : Listed(uWork'[g], uUsers')
  <1>0. uWork \in [Handlers -> Listers \cup Others] /\ \A g \in Handlers : Listed(uWork[g], uUsers)
    BY DEF ListsInv, AccountsTyped
  <1>1. CASE wanted = {}
    <2>1. uWork' = [uWork EXCEPT ![h] = Account!Idle] /\ Account!Idle \in Others
      BY <1>1 DEF Account!Then, Account!Goto, Others
    <2>2. Account!Idle \notin Listers
      BY <2>1, ListerShape
    <2>3. \A g \in Handlers : Quiet(uWork[g], uWork'[g])
      BY <1>0, <2>1, <2>2, QuietSame DEF Quiet
    <2> QED
      BY <1>0, <2>3, ListedQuiet
  <1>2. CASE wanted # {}
    <2> DEFINE begun == Account!Listing(IF replace THEN "clear" ELSE "insert", of, wanted, replace)
               alone == \A k \in Handlers \ {h} : ~(Account!Lister(uWork[k]) /\ uWork[k].of = of)
    <2>1. uWork' = [g \in Handlers |->
              IF g = h THEN [begun EXCEPT !.alone = alone]
              ELSE IF Account!Lister(uWork[g]) /\ uWork[g].of = of
              THEN [uWork[g] EXCEPT !.alone = FALSE] ELSE uWork[g]]
      BY <1>2 DEF Account!Then, Account!Disturb
    <2>2. [begun EXCEPT !.alone = alone].of = of /\ [begun EXCEPT !.alone = alone].wanted = wanted
      BY DEF Account!Listing
    <2> HIDE DEF begun, alone
    <2>3. Listed(uWork'[h], uUsers')
      BY <2>1, <2>2 DEF Listed
    <2>4. ASSUME NEW g \in Handlers \ {h} PROVE Quiet(uWork[g], uWork'[g])
      <3>1. CASE Account!Lister(uWork[g]) /\ uWork[g].of = of
        <4>1. uWork'[g] = [uWork[g] EXCEPT !.alone = FALSE] /\ uWork[g] \in Listers
          BY <1>0, <2>1, <3>1, ListerShape
        <4> QED
          BY <4>1, QuietMarked
      <3>2. CASE ~(Account!Lister(uWork[g]) /\ uWork[g].of = of)
        BY <2>1, <3>2, QuietSame
      <3> QED
        BY <3>1, <3>2
    <2> QED
      BY <1>0, <2>3, <2>4, ListedQuiet
  <1> QED
    BY <1>1, <1>2

\* An account is made, or set active or inactive.
LEMMA AccountWritten ==
    ASSUME AccountTables, NEW u \in UserIds, NEW row \in Row, uUsers' = [uUsers EXCEPT ![u] = row]
    PROVE  /\ uUsers' \in [UserIds -> Row \cup {None}]
           /\ \A v \in UserIds : uUsers[v] # None => uUsers'[v] # None
           /\ uUsers'[u] # None
  <1>1. row # None
    BY TypesAssumption DEF Row
  <1> QED
    BY <1>1 DEF AccountTables

\* To set an account active or inactive is to write its row.
LEMMA AccountMarked ==
    ASSUME AccountTables, NEW u \in UserIds, uUsers[u] # None, NEW active \in BOOLEAN
    PROVE  [uUsers EXCEPT ![u].active = active]
               = [uUsers EXCEPT ![u] = [uUsers[u] EXCEPT !.active = active]]
           /\ [uUsers[u] EXCEPT !.active = active] \in Row
  BY DEF AccountTables, Row

\* Every statement on accounts, roles and lists keeps the tables whole.
LEMMA AccountsTypedSteps ==
    ListsInv /\ AccountsTyped /\ [Account!Next]_uVars => AccountsTyped'
  <1> SUFFICES ASSUME ListsInv, AccountsTyped, [Account!Next]_uVars PROVE AccountsTyped'
    OBVIOUS
  <1>1. /\ AccountTables /\ uWork \in [Handlers -> Listers \cup Others]
        /\ \A h \in Handlers : Listed(uWork[h], uUsers)
    BY DEF AccountsTyped, ListsInv
  <1>2. UNCHANGED <<uUsers, uRoles, uGrants, uAllows>> => AccountTables'
    BY <1>1 DEF AccountTables
  <1>3. ASSUME \A u \in UserIds : uUsers[u] # None => uUsers'[u] # None,
               NEW h \in Handlers, NEW w, w \notin Listers, uWork' = [uWork EXCEPT ![h] = w]
        PROVE  \A g \in Handlers : Listed(uWork'[g], uUsers')
    <2>1. \A g \in Handlers : Quiet(uWork[g], uWork'[g])
      BY <1>1, <1>3, QuietSame DEF Quiet
    <2> QED
      BY <1>1, <1>3, <2>1, ListedQuiet
  <1>4. ASSUME NEW u \in UserIds, NEW row \in Row, uUsers' = [uUsers EXCEPT ![u] = row],
               UNCHANGED <<uRoles, uGrants, uAllows>>
        PROVE  AccountTables'
    BY <1>1, <1>4, AccountWritten DEF AccountTables
  <1>5. \A name \in Names : Account!User(name) \in Row
    BY DEF Account!User, Row
  <1>6. Account!Idle \notin Listers
    BY NotListed DEF Others
  <1>7. ASSUME NEW h \in Handlers, NEW u \in UserIds, Account!CreateUser(h, u) PROVE AccountsTyped'
    <2>1. PICK name \in Names, wanted \in Lists :
              /\ uUsers' = [uUsers EXCEPT ![u] = Account!User(name)]
              /\ Account!Then(h, u, wanted, FALSE)
      BY <1>7 DEF Account!CreateUser
    <2>2. UNCHANGED <<uRoles, uGrants, uAllows>>
      BY <1>7 DEF Account!CreateUser
    <2>3. Account!User(name) \in Row /\ wanted \subseteq RoleIds
      BY <1>5, TypesAssumption
    <2> QED
      BY <1>1, <1>4, <2>1, <2>2, <2>3, AccountWritten, ListedBegins DEF AccountsTyped
  <1>8. ASSUME NEW h \in Handlers, NEW u \in UserIds, Account!UpdateUser(h, u) PROVE AccountsTyped'
    <2>1. PICK active \in BOOLEAN, wanted \in Lists :
              /\ uUsers' = [uUsers EXCEPT ![u].active = active]
              /\ Account!Then(h, u, wanted, TRUE)
      BY <1>8 DEF Account!UpdateUser
    <2>2. uUsers[u] # None /\ UNCHANGED <<uRoles, uGrants, uAllows>>
      BY <1>8 DEF Account!UpdateUser
    <2>3. PICK row \in Row : uUsers' = [uUsers EXCEPT ![u] = row]
      BY <1>1, <2>1, <2>2, AccountMarked
    <2>4. wanted \subseteq RoleIds
      BY TypesAssumption
    <2> QED
      BY <1>1, <1>4, <2>1, <2>2, <2>3, <2>4, AccountWritten, ListedBegins DEF AccountsTyped
  <1>9. ASSUME NEW u \in UserIds, Account!DeleteUser(u) PROVE AccountsTyped'
    <2>1. /\ uUsers[u] # None /\ uUsers' = [uUsers EXCEPT ![u].active = FALSE]
          /\ UNCHANGED <<uRoles, uGrants, uAllows, uWork>>
      BY <1>9 DEF Account!DeleteUser
    <2>2. PICK row \in Row : uUsers' = [uUsers EXCEPT ![u] = row]
      BY <1>1, <2>1, AccountMarked
    <2>3. \A g \in Handlers : Listed(uWork'[g], uUsers')
      BY <1>1, <2>1, <2>2, AccountWritten, QuietSame, ListedQuiet
    <2> QED
      BY <1>4, <2>1, <2>2, <2>3 DEF AccountsTyped
  <1>10. ASSUME NEW h \in Handlers,
                \/ Account!Answer(h) \/ Account!GiveUp(h)
                \/ \E r \in RoleIds : Account!CheckRole(h, r)
         PROVE  AccountsTyped'
    <2>1. UNCHANGED <<uUsers, uRoles, uGrants, uAllows>>
      BY <1>10 DEF Account!Answer, Account!GiveUp, Account!CheckRole
    <2>2. \E w : w \notin Listers /\ uWork' = [uWork EXCEPT ![h] = w]
      <3>1. CASE Account!Answer(h) \/ Account!GiveUp(h)
        BY <1>6, <3>1 DEF Account!Answer, Account!GiveUp, Account!Goto
      <3>2. ASSUME NEW r \in RoleIds, Account!CheckRole(h, r)
            PROVE  \E w : w \notin Listers /\ uWork' = [uWork EXCEPT ![h] = w]
        <4>1. PICK next \in {"update", "drop"} :
                  uWork' = [uWork EXCEPT ![h] = [pc |-> next, role |-> r]]
          BY <3>2 DEF Account!CheckRole, Account!Goto
        <4>2. [pc |-> next, role |-> r] \notin Listers
          BY DEF Listers
        <4> QED
          BY <4>1, <4>2
      <3> QED
        BY <1>10, <3>1, <3>2
    <2> QED
      BY <1>2, <1>3, <2>1, <2>2 DEF AccountsTyped
  <1>11. ASSUME NEW h \in Handlers, NEW r \in RoleIds, Account!CreateRole(h, r)
         PROVE  AccountsTyped'
    <2>1. PICK wanted \in SUBSET Perms : Account!Then(h, r, wanted, FALSE)
      BY <1>11 DEF Account!CreateRole
    <2>2. /\ uRoles' = [uRoles EXCEPT ![r] = "custom"] /\ UNCHANGED <<uUsers, uGrants, uAllows>>
      BY <1>11 DEF Account!CreateRole
    <2>3. r \notin UserIds
      BY TypesAssumption
    <2>4. AccountTables'
      BY <1>1, <2>2, TypesAssumption DEF AccountTables
    <2> QED
      BY <1>1, <2>1, <2>2, <2>3, <2>4, ListedBegins DEF AccountsTyped
  <1>12. ASSUME NEW h \in Handlers, Account!UpdateRole(h) PROVE AccountsTyped'
    <2>1. PICK wanted \in SUBSET Perms : Account!Then(h, uWork[h].role, wanted, TRUE)
      BY <1>12 DEF Account!UpdateRole
    <2>2. uWork[h].pc = "update" /\ UNCHANGED <<uUsers, uRoles, uGrants, uAllows>>
      BY <1>12 DEF Account!UpdateRole
    <2>3. uWork[h].role \notin UserIds
      BY <1>1, <2>2, ListerShape, TypesAssumption
    <2> QED
      BY <1>1, <1>2, <2>1, <2>2, <2>3, ListedBegins DEF AccountsTyped
  <1>13. ASSUME NEW h \in Handlers, Account!DeleteRole(h) PROVE AccountsTyped'
    <2> DEFINE r == uWork[h].role
    <2>1. r \in RoleIds
      BY <1>1, <1>13, ListerShape DEF Account!DeleteRole
    <2>2. /\ uRoles' = [uRoles EXCEPT ![r] = None] /\ UNCHANGED uUsers
          /\ uGrants' = {pair \in uGrants : pair[2] # r}
          /\ uAllows' = {pair \in uAllows : pair[1] # r}
          /\ uWork' = [g \in Handlers |->
                          IF g = h THEN Account!Idle
                          ELSE IF /\ Account!Lister(uWork[g])
                                  /\ uWork[g].of = r \/ r \in uWork[g].wanted
                          THEN [uWork[g] EXCEPT !.alone = FALSE]
                          ELSE uWork[g]]
      BY <1>13 DEF Account!DeleteRole
    <2> HIDE DEF r
    <2>3. AccountTables'
      <3>1. \A pair \in uGrants' : pair \in uGrants /\ pair[2] # r /\ pair[2] \in RoleIds
        BY <1>1, <2>2 DEF AccountTables
      <3>2. \A pair \in uGrants' : uUsers'[pair[1]] # None /\ uRoles'[pair[2]] # None
        BY <1>1, <2>2, <3>1 DEF AccountTables
      <3> QED
        BY <1>1, <2>1, <2>2, <3>2 DEF AccountTables
    <2>4. ASSUME NEW g \in Handlers PROVE Quiet(uWork[g], uWork'[g])
      <3>1. CASE g = h
        BY <1>6, <2>2, <3>1 DEF Quiet
      <3>2. CASE /\ g # h
                 /\ Account!Lister(uWork[g]) /\ (uWork[g].of = r \/ r \in uWork[g].wanted)
        <4>1. uWork'[g] = [uWork[g] EXCEPT !.alone = FALSE] /\ uWork[g] \in Listers
          BY <1>1, <2>2, <3>2, ListerShape
        <4> QED
          BY <4>1, QuietMarked
      <3>3. CASE /\ g # h
                 /\ ~(Account!Lister(uWork[g]) /\ (uWork[g].of = r \/ r \in uWork[g].wanted))
        BY <2>2, <3>3, QuietSame
      <3> QED
        BY <3>1, <3>2, <3>3
    <2> QED
      BY <1>1, <2>2, <2>3, <2>4, ListedQuiet DEF AccountsTyped
  <1>14. ASSUME NEW h \in Handlers, Account!ClearList(h) PROVE AccountsTyped'
    <2> DEFINE v == uWork[h]
    <2>1. /\ v \in Listers /\ v.pc = "clear" /\ UNCHANGED <<uUsers, uRoles>>
          /\ v.of \in UserIds \cup (RoleIds \ SystemRoles)
      BY <1>1, <1>14, ListerShape DEF Account!ClearList
    <2>2. uGrants' \subseteq uGrants /\ uAllows' \subseteq uAllows
      BY <1>14 DEF Account!ClearList, Account!Put, Account!Pairs
    <2>3. PICK w : /\ uWork' = [uWork EXCEPT ![h] = w]
                   /\ \/ w = [v EXCEPT !.pc = "insert"]
                      \/ w = [v EXCEPT !.pc = "insert", !.failed = {"delete"}]
      BY <1>14 DEF Account!ClearList, Account!Goto
    <2>4. w.of = v.of /\ w.wanted = v.wanted
      BY <2>1, <2>3 DEF Listers
    <2>5. Listed(w, uUsers')
      BY <1>1, <2>1, <2>4 DEF Listed
    <2>6. \A g \in Handlers : Listed(uWork'[g], uUsers')
      BY <1>1, <2>1, <2>3, <2>5, QuietSame, ListedQuiet
    <2>7. AccountTables'
      BY <1>1, <2>1, <2>2 DEF AccountTables
    <2> QED
      BY <2>6, <2>7 DEF AccountsTyped
  <1>15. ASSUME NEW h \in Handlers, Account!InsertPair(h) PROVE AccountsTyped'
    <2> DEFINE v == uWork[h]
    <2>1. /\ v \in Listers /\ v.pc = "insert" /\ UNCHANGED <<uUsers, uRoles>>
          /\ v.of \in UserIds \cup (RoleIds \ SystemRoles) /\ v.left \subseteq v.wanted
      BY <1>1, <1>15, ListerShape DEF Account!InsertPair, ListsInv, Progress
    <2>2. PICK x \in v.left :
              LET w == [v EXCEPT !.left = @ \ {x},
                                 !.pc = IF @ = "insert" /\ v.left = {x} THEN "answer" ELSE @]
              IN  \/ /\ Account!Known(w.of, x)
                     /\ Account!Put(w.of, Account!Pairs(w.of) \cup {<<w.of, x>>})
                     /\ Account!Goto(h, w)
                  \/ /\ UNCHANGED <<uGrants, uAllows>>
                     /\ Account!Goto(h, [w EXCEPT !.failed = @ \cup {"insert"}])
      BY <1>15, Zenon DEF Account!InsertPair
    <2> DEFINE w == [v EXCEPT !.left = @ \ {x},
                              !.pc = IF @ = "insert" /\ v.left = {x} THEN "answer" ELSE @]
    <2>3. /\ w \in Listers /\ w.of = v.of /\ w.wanted = v.wanted
      BY <2>1, Zenon DEF Listers
    <2> HIDE DEF w
    <2>4. PICK z : /\ uWork' = [uWork EXCEPT ![h] = z] /\ z.of = v.of /\ z.wanted = v.wanted
      <3>1. /\ [w EXCEPT !.failed = @ \cup {"insert"}].of = w.of
            /\ [w EXCEPT !.failed = @ \cup {"insert"}].wanted = w.wanted
        BY <2>3 DEF Listers
      <3> QED
        BY <2>2, <2>3, <3>1 DEF w, Account!Goto
    <2>5. Listed(z, uUsers')
      BY <1>1, <2>1, <2>4 DEF Listed
    <2>6. \A g \in Handlers : Listed(uWork'[g], uUsers')
      BY <1>1, <2>1, <2>4, <2>5, QuietSame, ListedQuiet
    <2>7. AccountTables'
      <3>1. CASE /\ v.of \in UserIds /\ uRoles[x] # None
                 /\ uGrants' = uGrants \cup {<<v.of, x>>} /\ UNCHANGED uAllows
        <4>1. x \in RoleIds /\ uUsers[v.of] # None
          BY <1>1, <2>1, <3>1 DEF Listed
        <4> QED
          BY <1>1, <2>1, <3>1, <4>1 DEF AccountTables
      <3>2. CASE /\ v.of \in RoleIds /\ v.of \notin UserIds
                 /\ uAllows' = uAllows \cup {<<v.of, x>>} /\ UNCHANGED uGrants
        <4>1. x \in Perms
          BY <1>1, <2>1, <3>2 DEF Listed
        <4> QED
          BY <1>1, <2>1, <3>2, <4>1 DEF AccountTables
      <3>3. CASE UNCHANGED <<uGrants, uAllows>>
        BY <1>2, <2>1, <3>3
      <3>4. \/ /\ Account!Known(v.of, x)
               /\ Account!Put(v.of, Account!Pairs(v.of) \cup {<<v.of, x>>})
            \/ UNCHANGED <<uGrants, uAllows>>
        BY <2>2, <2>3 DEF w
      <3> QED
        BY <2>1, <3>1, <3>2, <3>3, <3>4 DEF Account!Known, Account!Put, Account!Pairs
    <2> QED
      BY <2>6, <2>7 DEF AccountsTyped
  <1>16. CASE Account!Restart
    <2>1. uWork' = [h \in Handlers |-> Account!Idle] /\ UNCHANGED <<uRoles, uAllows>>
      BY <1>16 DEF Account!Restart
    <2>2. \A h \in Handlers : Listed(uWork'[h], uUsers')
      BY <1>6, <2>1 DEF Listed
    <2>3. AccountTables'
      <3>1. ASSUME NEW u \in UserIds, uUsers' = [uUsers EXCEPT ![u] = Account!User(Admin)],
                   uGrants' \in {uGrants, uGrants \cup {<<u, AdminRole>>}}
            PROVE  AccountTables'
        <4>1. Account!User(Admin) \in Row
          BY <1>5, TypesAssumption
        <4>2. AdminRole \in RoleIds /\ uRoles[AdminRole] # None
          BY TypesAssumption, ConsoleAssumption DEF ListsInv, SystemKept
        <4>3. /\ uUsers' \in [UserIds -> Row \cup {None}] /\ uUsers'[u] # None
              /\ \A v \in UserIds : uUsers[v] # None => uUsers'[v] # None
          BY <1>1, <3>1, <4>1, AccountWritten
        <4>4. \A pair \in uGrants' : /\ pair \in UserIds \X RoleIds
                                    /\ uUsers'[pair[1]] # None /\ uRoles[pair[2]] # None
          BY <1>1, <3>1, <4>2, <4>3 DEF AccountTables
        <4> QED
          BY <1>1, <2>1, <4>3, <4>4 DEF AccountTables
      <3>2. ASSUME NEW u \in UserIds, uUsers[u] # None,
                   uUsers' = [uUsers EXCEPT ![u].active = TRUE], UNCHANGED uGrants
            PROVE  AccountTables'
        BY <1>1, <1>4, <2>1, <3>2, AccountMarked
      <3>3. CASE UNCHANGED <<uUsers, uGrants>>
        BY <1>2, <2>1, <3>3
      <3> QED
        BY <1>16, <3>1, <3>2, <3>3 DEF Account!Restart
    <2> QED
      BY <2>2, <2>3 DEF AccountsTyped
  <1>17. CASE UNCHANGED uVars
    <2>1. UNCHANGED <<uUsers, uRoles, uGrants, uAllows, uWork>>
      BY <1>17 DEF uVars
    <2> QED
      BY <1>1, <1>2, <2>1, QuietSame, ListedQuiet DEF AccountsTyped
  <1> QED
    BY <1>7, <1>8, <1>9, <1>10, <1>11, <1>12, <1>13, <1>14, <1>15, <1>16, <1>17
    DEF Account!Next

----------------------------------------------------------------------------
(* The types of the parts: classification *)

\* Only rules callers have stored are in the table, and so in the cache.
RulesTyped ==
    /\ cTable \in [RuleIds -> RuleInputs \cup {None}]
    /\ cVersion <= RuleWrites
    /\ cCache.rules \subseteq RuleInputs
    /\ \A h \in Handlers :
           cWork[h].pc \in {"idle", "provider", "rules", "done", "reload", "stored"}

\* There are no rules at first.
LEMMA RulesTypedStart == Engine!Init => RulesTyped
  BY TypesAssumption DEF Engine!Init, Engine!Idle, RulesTyped

\* Scores and risks are those of the files, for which the other invariant accounts.
LEMMA RulesTypeOK == RulesTyped /\ RulesInv => Engine!TypeOK
  <1> SUFFICES ASSUME RulesTyped, RulesInv PROVE Engine!TypeOK
    OBVIOUS
  <1>1. ASSUME NEW h \in Engine!Finished
        PROVE  /\ cWork[h].result.score \in 0..100
               /\ cWork[h].result.risk \in {Engine!Risks[n] : n \in 1..4}
    <2>1. Judged(cWork[h])
      BY DEF RulesInv
    <2>2. Scored(cWork[h].file) \in Int
      BY <2>1, ScoredTyped DEF Judged
    <2>3. LevelOfFile(cWork[h].file) \in 0..3
      BY <2>2, LevelTyped DEF LevelOfFile
    <2>4. LevelOfFile(cWork[h].file) + 1 \in 1..4
      BY <2>3
    <2>5. cWork[h].result.risk = Engine!Risks[LevelOfFile(cWork[h].file) + 1]
      BY <2>1 DEF Judged, RiskOf
    <2> QED
      BY <2>1, <2>4, <2>5 DEF Judged
  <1>2. cVersion \in 0..RuleWrites
    BY TypesAssumption DEF RulesTyped, RulesInv
  <1> QED
    BY <1>1, <1>2 DEF Engine!TypeOK, RulesTyped, RulesInv

\* Every step of a classification and of a change of the rules keeps them so.
LEMMA RulesTypedSteps == RulesInv /\ RulesTyped /\ [Engine!Next]_cVars => RulesTyped'
  <1> SUFFICES ASSUME RulesInv, RulesTyped, [Engine!Next]_cVars PROVE RulesTyped'
    OBVIOUS
  <1> DEFINE Pcs == {"idle", "provider", "rules", "done", "reload", "stored"}
  <1>1. DOMAIN cWork = Handlers
    BY DEF RulesInv
  <1>2. ASSUME NEW h \in Handlers, NEW w, cWork' = [cWork EXCEPT ![h] = w], w.pc \in Pcs
        PROVE  \A g \in Handlers : cWork'[g].pc \in Pcs
    <2>1. cWork'[h] = w /\ \A g \in Handlers \ {h} : cWork'[g] = cWork[g]
      BY <1>1, <1>2
    <2> QED
      BY <1>2, <2>1 DEF RulesTyped
  <1>3. ASSUME UNCHANGED <<cTable, cVersion, cCache>>, \A g \in Handlers : cWork'[g].pc \in Pcs
        PROVE  RulesTyped'
    BY <1>3 DEF RulesTyped
  <1> HIDE DEF Pcs
  <1>4. ASSUME NEW h \in Handlers, Engine!Classify(h) PROVE RulesTyped'
    <2>1. \E f, fast, asked, score, quick, slow :
              cWork' = [cWork EXCEPT ![h] =
                           CASE fast # -1 -> Engine!AtRules(f, FALSE, quick)
                             [] fast = -1 /\ asked ->
                                    [pc |-> "provider", file |-> f, score |-> score]
                             [] OTHER -> Engine!AtRules(f, FALSE, slow)]
      BY <1>4, Zenon DEF Engine!Classify, Engine!Goto
    <2>2. PICK f, fast, asked, score, quick, slow :
              cWork' = [cWork EXCEPT ![h] =
                           CASE fast # -1 -> Engine!AtRules(f, FALSE, quick)
                             [] fast = -1 /\ asked ->
                                    [pc |-> "provider", file |-> f, score |-> score]
                             [] OTHER -> Engine!AtRules(f, FALSE, slow)]
      BY <2>1
    <2> DEFINE w == CASE fast # -1 -> Engine!AtRules(f, FALSE, quick)
                      [] fast = -1 /\ asked -> [pc |-> "provider", file |-> f, score |-> score]
                      [] OTHER -> Engine!AtRules(f, FALSE, slow)
    <2>3. w.pc \in Pcs
      BY DEF Engine!AtRules, Pcs
    <2>4. UNCHANGED <<cTable, cVersion, cCache>>
      BY <1>4, Zenon DEF Engine!Classify
    <2>5. cWork' = [cWork EXCEPT ![h] = w]
      BY <2>2, Zenon
    <2> HIDE DEF w
    <2>6. \A g \in Handlers : cWork'[g].pc \in Pcs
      BY <1>2, <2>3, <2>5, Zenon
    <2> QED
      BY <1>3, <2>4, <2>6
  <1>5. ASSUME NEW h \in Handlers, Engine!Execute(h) PROVE RulesTyped'
    <2>1. PICK f, late, result : cWork' = [cWork EXCEPT ![h] = Engine!AtRules(f, late, result)]
      BY <1>5, Zenon DEF Engine!Execute, Engine!Goto
    <2>2. Engine!AtRules(f, late, result).pc \in Pcs
      BY DEF Engine!AtRules, Pcs
    <2>3. UNCHANGED <<cTable, cVersion, cCache>>
      BY <1>5, Zenon DEF Engine!Execute
    <2>4. \A g \in Handlers : cWork'[g].pc \in Pcs
      BY <1>2, <2>1, <2>2, Zenon
    <2> QED
      BY <1>3, <2>3, <2>4
  <1>6. ASSUME NEW h \in Handlers, Engine!Evaluate(h) PROVE RulesTyped'
    <2>1. PICK result : cWork' = [cWork EXCEPT ![h] = Ruled(cWork[h], result)]
      BY <1>6, Zenon DEF Engine!Evaluate, Engine!Goto, Ruled
    <2>2. Judged(cWork[h])
      BY <1>6, Zenon DEF Engine!Evaluate, RulesInv, Engine!Finished
    <2>3. Ruled(cWork[h], result).pc \in Pcs
      BY <2>2 DEF Judged, Ruled, Pcs
    <2>4. UNCHANGED <<cTable, cVersion, cCache>>
      BY <1>6, Zenon DEF Engine!Evaluate
    <2>5. \A g \in Handlers : cWork'[g].pc \in Pcs
      BY <1>2, <2>1, <2>3, Zenon
    <2> QED
      BY <1>3, <2>4, <2>5
  <1>7. ASSUME NEW h \in Handlers, Engine!Answer(h) PROVE RulesTyped'
    <2>1. cWork' = [cWork EXCEPT ![h] = [pc |-> "idle"]] /\ UNCHANGED <<cTable, cVersion, cCache>>
      BY <1>7 DEF Engine!Answer, Engine!Goto, Engine!Idle
    <2>2. [pc |-> "idle"].pc \in Pcs
      BY DEF Pcs
    <2>3. \A g \in Handlers : cWork'[g].pc \in Pcs
      BY <1>2, <2>1, <2>2, Zenon
    <2> QED
      BY <1>3, <2>1, <2>3
  <1>8. ASSUME NEW h \in Handlers, NEW i \in RuleIds, Engine!WriteRule(h, i) PROVE RulesTyped'
    <2>1. cTable' \in [RuleIds -> RuleInputs \cup {None}] /\ UNCHANGED cCache
      BY <1>8 DEF Engine!WriteRule, RulesTyped
    <2>2. cVersion' <= RuleWrites
      BY <1>8, TypesAssumption DEF Engine!WriteRule, RulesInv
    <2>3. PICK version, rules :
              cWork' = [cWork EXCEPT ![h] =
                           [pc |-> "reload", version |-> version, rules |-> rules]]
      BY <1>8, Zenon DEF Engine!WriteRule, Engine!Goto
    <2>4. [pc |-> "reload", version |-> version, rules |-> rules].pc \in Pcs
      BY DEF Pcs
    <2>5. \A g \in Handlers : cWork'[g].pc \in Pcs
      BY <1>2, <2>3, <2>4, Zenon
    <2> QED
      BY <2>1, <2>2, <2>5 DEF RulesTyped, Pcs
  <1>9. ASSUME NEW h \in Handlers, Engine!loadRulesFromDB(h) PROVE RulesTyped'
    <2>1. Engine!Enabled(cTable) \subseteq RuleInputs
      BY DEF Engine!Enabled, RulesTyped
    <2>2. cCache'.rules \subseteq RuleInputs /\ UNCHANGED <<cTable, cVersion>>
      BY <1>9, <2>1 DEF Engine!loadRulesFromDB
    <2>3. cWork' = [cWork EXCEPT ![h] = [pc |-> "stored", version |-> cWork[h].version]]
      BY <1>9 DEF Engine!loadRulesFromDB, Engine!Goto
    <2>4. [pc |-> "stored", version |-> cWork[h].version].pc \in Pcs
      BY DEF Pcs
    <2>5. \A g \in Handlers : cWork'[g].pc \in Pcs
      BY <1>2, <2>3, <2>4, Zenon
    <2> QED
      BY <2>2, <2>5 DEF RulesTyped, Pcs
  <1>10. CASE UNCHANGED cVars
    BY <1>10 DEF cVars, RulesTyped
  <1> QED
    BY <1>4, <1>5, <1>6, <1>7, <1>8, <1>9, <1>10 DEF Engine!Next

----------------------------------------------------------------------------
(* The types of the parts: cloud scans *)

\* What the handler and the result of a scan are made of.
ScanTyped ==
    /\ tPc \in {"asked", "refused", "account", "posture-buckets", "posture-regions", "posture",
                "buckets", "regions", "content", "done"}
    /\ tFound \subseteq Cloud!Buckets
    /\ \A f \in tFindings : f.status \in Cloud!Statuses
    /\ tContent \in BOOLEAN /\ tTruncated \in BOOLEAN /\ tAborted \in BOOLEAN
    /\ tExpired \in BOOLEAN
    /\ tFaults \in 0..CloudFaults /\ tWritten \subseteq DOMAIN Initial

\* A scan starts with nothing found.
LEMMA ScanTypedStart == Cloud!Init => ScanTyped
  <1>1. 0 \in 0..CloudFaults
    BY TypesAssumption
  <1> QED
    BY <1>1 DEF Cloud!Init, ScanTyped

\* With what the goroutines hold, these are the types.
LEMMA ScanTypeOK == ScanTyped /\ CloudTyped => Cloud!TypeOK
  <1> SUFFICES ASSUME ScanTyped, CloudTyped PROVE Cloud!TypeOK
    OBVIOUS
  <1>1. ASSUME NEW b \in Cloud!Buckets
        PROVE  tWork[b].pc \in {"idle", "ready", "list", "next", "head", "slot", "get", "end"}
    BY DEF CloudTyped, Works, Samplings
  <1> QED
    BY <1>1 DEF ScanTyped, CloudTyped, Cloud!TypeOK

\* A finding says one of four things.
LEMMA StatusesTyped ==
    /\ \A check, answer : Cloud!Outcome(check, answer) \in Cloud!Statuses
    /\ \A o, text, sensitive, whole :
           Cloud!classificationFinding(o, text, sensitive, whole) \in Cloud!Statuses
    /\ "unsupported" \in Cloud!Statuses /\ "unknown" \in Cloud!Statuses
  BY DEF Cloud!Outcome, Cloud!classificationFinding, Cloud!Statuses

\* A call succeeds or fails.
LEMMA FaultsTyped ==
    ASSUME ScanTyped, Cloud!Succeeds \/ Cloud!Fails \/ UNCHANGED tFaults
    PROVE  tFaults' \in 0..CloudFaults
  BY TypesAssumption DEF ScanTyped, Cloud!Succeeds, Cloud!Fails

\* An object of the bucket is said something about, or nothing.
LEMMA ReportsTyped ==
    ASSUME ScanTyped, NEW b,
           \/ \E status \in Cloud!Statuses : \E clean, text, stale :
                  Cloud!Reports(b, status, clean, text, stale)
           \/ Cloud!ReportsError(b)
           \/ UNCHANGED Cloud!result
    PROVE  (\A f \in tFindings' : f.status \in Cloud!Statuses) /\ tTruncated' \in BOOLEAN
  BY DEF ScanTyped, Cloud!Reports, Cloud!ReportsError, Cloud!result

\* A check of the posture adds a finding.
LEMMA AssessTyped ==
    ASSUME ScanTyped, NEW resource, NEW check, Cloud!Assess(resource, check)
    PROVE  /\ \A f \in tFindings' : f.status \in Cloud!Statuses
           /\ tTruncated' \in BOOLEAN /\ tFaults' \in 0..CloudFaults
  <1>1. PICK answer :
            /\ Cloud!Succeeds \/ Cloud!Fails
            /\ tFindings' = tFindings \cup {[rule |-> check, resource |-> resource,
                                             status |-> Cloud!Outcome(check, answer)]}
            /\ UNCHANGED tTruncated
    BY DEF Cloud!Assess
  <1> QED
    BY <1>1, FaultsTyped, StatusesTyped DEF ScanTyped

\* Every step of a scan keeps them so.
LEMMA ScanTypedSteps ==
    CloudTyped /\ LeftTyped /\ ScanTyped /\ [Cloud!Next]_tVars => ScanTyped'
  <1> SUFFICES ASSUME CloudTyped, LeftTyped, ScanTyped, [Cloud!Next]_tVars PROVE ScanTyped'
    OBVIOUS
  <1> USE DEF Cloud!result
  <1>1. CASE Cloud!HandleAWSS3Scan
    <2>1. tContent' \in BOOLEAN /\ tPc' \in {"account", "buckets", "done", "refused"}
      BY <1>1, TypesAssumption DEF Cloud!HandleAWSS3Scan, ScanTyped
    <2>2. tFaults' \in 0..CloudFaults
      BY <1>1, FaultsTyped DEF Cloud!HandleAWSS3Scan
    <2> QED
      BY <1>1, <2>1, <2>2 DEF Cloud!HandleAWSS3Scan, ScanTyped
  <1>2. CASE Cloud!assessAccountPosture
    BY <1>2, AssessTyped DEF Cloud!assessAccountPosture, ScanTyped
  <1>3. CASE Cloud!assessBucketPosture
    <2>1. /\ \A f \in tFindings' : f.status \in Cloud!Statuses
          /\ tTruncated' \in BOOLEAN /\ tFaults' \in 0..CloudFaults
      BY <1>3, AssessTyped DEF Cloud!assessBucketPosture, ScanTyped
    <2> QED
      BY <1>3, <2>1 DEF Cloud!assessBucketPosture, ScanTyped
  <1>4. CASE Cloud!ScanPosture \/ Cloud!ScanContent \/ Cloud!Expire \/ UNCHANGED tVars
    BY <1>4 DEF Cloud!ScanPosture, Cloud!ScanContent, Cloud!Expire, tVars, ScanTyped
  <1>5. CASE Cloud!ListBuckets
    <2>1. tPc' \in {"posture-regions", "regions"} /\ tTruncated' \in BOOLEAN /\ tFound' = {}
      BY <1>5 DEF Cloud!ListBuckets, Cloud!Then, ScanTyped
    <2>2. tFaults' \in 0..CloudFaults
      BY <1>5, FaultsTyped DEF Cloud!ListBuckets
    <2> QED
      BY <1>5, <2>1, <2>2 DEF Cloud!ListBuckets, ScanTyped
  <1>6. CASE Cloud!LocateBucket
    <2>1. tLeft \in Seq(Cloud!Buckets) /\ tLeft # <<>>
      BY <1>6 DEF Cloud!LocateBucket, Cloud!Locating, LeftTyped
    <2>2. Head(tLeft) \in Cloud!Buckets
      BY <2>1, HeadTail
    <2>3. tFaults' \in 0..CloudFaults /\ tFound' \subseteq Cloud!Buckets
      BY <1>6, <2>2, FaultsTyped DEF Cloud!LocateBucket, ScanTyped
    <2> QED
      BY <1>6, <2>3 DEF Cloud!LocateBucket, ScanTyped
  <1>7. CASE Cloud!Discovered
    BY <1>7 DEF Cloud!Discovered, Cloud!Then, ScanTyped
  <1>8. ASSUME NEW b \in Cloud!Buckets, Cloud!StartBucket(b) \/ Cloud!NextObject(b)
        PROVE  ScanTyped'
    BY <1>8 DEF Cloud!StartBucket, Cloud!NextObject, Cloud!Rest, ScanTyped
  <1>9. ASSUME NEW b \in Cloud!Buckets, Cloud!listObjects(b) PROVE ScanTyped'
    <2>1. /\ UNCHANGED <<tPc, tFound, tContent, tAborted, tExpired, tWritten, tFindings>>
          /\ tTruncated' \in BOOLEAN
      BY <1>9 DEF Cloud!listObjects, ScanTyped
    <2>2. tFaults' \in 0..CloudFaults
      BY <1>9, FaultsTyped DEF Cloud!listObjects
    <2> QED
      BY <2>1, <2>2 DEF ScanTyped
  <1>10. ASSUME NEW b \in Cloud!Buckets,
                Cloud!HeadObject(b) \/ Cloud!TakeSlot(b) \/ Cloud!downloadObject(b)
         PROVE  ScanTyped'
    <2>1. UNCHANGED Cloud!Rest
      BY <1>10 DEF Cloud!HeadObject, Cloud!TakeSlot, Cloud!downloadObject
    <2>2. /\ Cloud!Succeeds \/ Cloud!Fails \/ UNCHANGED tFaults
          /\ \/ \E status \in Cloud!Statuses : \E clean, text, stale :
                    Cloud!Reports(b, status, clean, text, stale)
             \/ Cloud!ReportsError(b)
             \/ UNCHANGED Cloud!result
      <3>1. CASE Cloud!HeadObject(b)
        <4>1. Cloud!Succeeds \/ Cloud!Fails \/ UNCHANGED tFaults
          BY <3>1, Zenon DEF Cloud!HeadObject
        <4> QED
          BY <3>1, <4>1, HeadDone, StatusesTyped, Zenon
      <3>2. CASE Cloud!TakeSlot(b)
        BY <3>2, StatusesTyped, Zenon DEF Cloud!TakeSlot, Cloud!SkippedAs
      <3>3. CASE Cloud!downloadObject(b)
        BY <3>3, StatusesTyped, Zenon DEF Cloud!downloadObject, Cloud!SkippedAs
      <3> QED
        BY <1>10, <3>1, <3>2, <3>3
    <2>3. /\ tFaults' \in 0..CloudFaults /\ tTruncated' \in BOOLEAN
          /\ \A f \in tFindings' : f.status \in Cloud!Statuses
      BY <2>2, FaultsTyped, ReportsTyped
    <2> QED
      BY <2>1, <2>3 DEF Cloud!Rest, ScanTyped
  <1>11. ASSUME NEW b \in Cloud!Buckets, NEW o \in Objects(b), NEW version \in Versions,
                Cloud!WriteObject(b, o, version)
         PROVE  ScanTyped'
    <2>1. o \in DOMAIN Initial
      BY ObjectsHere
    <2> QED
      BY <1>11, <2>1 DEF Cloud!WriteObject, ScanTyped
  <1> QED
    BY <1>1, <1>2, <1>3, <1>4, <1>5, <1>6, <1>7, <1>8, <1>9, <1>10, <1>11
    DEF Cloud!Next, Objects

----------------------------------------------------------------------------
(* The types of all parts *)

\* The types of every part, with the invariants of the part that they rest on.
TypesInv ==
    /\ focus \in Parts
    /\ TypeOK
    /\ IncidentsTyped /\ TrailInv /\ LogsInv
    /\ KeywordsTyped /\ KeywordAgeInv /\ KeywordOriginInv
    /\ RulesTyped /\ RulesInv
    /\ AccountsTyped /\ ListsInv
    /\ PoliciesTyped /\ PoliciesInv
    /\ AccessInv /\ AttemptsInv
    /\ ScanTyped /\ VerdictsInv /\ LeftTyped /\ SizesTyped

\* They hold at the start.
LEMMA TypesStart == ConsoleInit => TypesInv
  BY TypeInit, IncidentsTypedStart, TrailStart, LogsStart, KeywordsTypedStart, KeywordAgeStart,
     KeywordOriginStart, RulesTypedStart, RulesStart, AccountsTypedStart, ListsStart,
     PoliciesTypedStart, PoliciesStart, AccessStart, AttemptsStart, ScanTypedStart, VerdictsStart
  DEF ConsoleInit, TypesInv

\* A step of the console is one of each part, or leaves it alone.
LEMMA StepsOfParts ==
    ASSUME [ConsoleNext]_consoleVars
    PROVE  /\ UNCHANGED focus
           /\ [Next]_vars /\ [Incident!Next]_nVars /\ [Keyword!Next]_kVars
           /\ [Engine!Next]_cVars /\ [Account!Next]_uVars /\ [Policies!Next]_pVars
           /\ [Access!Next]_sVars /\ [Cloud!Next]_tVars
  BY DEF ConsoleNext, consoleVars

\* Every step preserves them.
LEMMA TypesSteps == TypesInv /\ [ConsoleNext]_consoleVars => TypesInv'
  <1> SUFFICES ASSUME TypesInv, [ConsoleNext]_consoleVars PROVE TypesInv'
    OBVIOUS
  <1> USE StepsOfParts DEF TypesInv
  <1>1. (focus \in Parts)' /\ TypeOK'
    BY TypeStep DEF Parts
  <1>2. (IncidentsTyped /\ TrailInv /\ LogsInv)'
    BY IncidentsTypedSteps, TrailSteps, LogsSteps
  <1>3. (KeywordsTyped /\ KeywordAgeInv /\ KeywordOriginInv)'
    BY KeywordsTypedSteps, KeywordAgeSteps, KeywordOriginSteps
  <1>4. (RulesTyped /\ RulesInv)'
    BY RulesTypedSteps, RulesSteps
  <1>5. (AccountsTyped /\ ListsInv)'
    BY AccountsTypedSteps, ListsSteps
  <1>6. (PoliciesTyped /\ PoliciesInv)'
    BY PoliciesTypedSteps, PoliciesSteps
  <1>7. (AccessInv /\ AttemptsInv)'
    BY AccessSteps, AttemptsSteps
  <1>8. (ScanTyped /\ VerdictsInv /\ LeftTyped /\ SizesTyped)'
    BY ScanTypedSteps, VerdictsSteps, LeftSteps, SizesSteps DEF VerdictsInv
  <1> QED
    BY <1>1, <1>2, <1>3, <1>4, <1>5, <1>6, <1>7, <1>8

\* Every part keeps its types, for any number of handlers, rows, buckets and objects:
\* rows are whole, references lead to rows that exist, and counters stay within their
\* bounds (the schema of the tables, and what the handlers keep in memory).
THEOREM PartsTyped == ConsoleSpec => []PartsTypeOK
  <1>1. TypesInv => PartsTypeOK
    BY IncidentsTypeOK, RulesTypeOK, AccountsTypeOK, AccessTyped, ScanTypeOK
    DEF TypesInv, KeywordsTyped, PoliciesTyped, VerdictsInv, PartsTypeOK
  <1> QED
    BY <1>1, TypesStart, TypesSteps, PTL DEF ConsoleSpec

=============================================================================

-------------------------- MODULE PolicyCacheProofs --------------------------
(***************************************************************************)
(* Proofs about the kernel's policy cache, for any number of threads that   *)
(* send messages and of callbacks that look files up, any files, hash and   *)
(* limit: the buckets, the counter and the LRU list agree, and what is kept *)
(* while messages come one by one.                                          *)
(***************************************************************************)
EXTENDS PolicyCache, FilteringProofs, FiniteSetTheorems

----------------------------------------------------------------------------
(* What the proofs need beside the types. *)

Unhashed == {e \in Entries : memory[e] = "unhashed"}

\* What a thread holds: it made the entry it inserts, from the message it handles,
\* and published it; nobody else links it.
Holds(w) ==
    /\ pc[w] \in {"hash", "link", "count", "unlink", "free"} => held[w] \in Entries
    /\ pc[w] = "hash" => policy[held[w]] = msg[w].policy
    /\ pc[w] \in {"link", "count"} => memory[held[w]] \in {"hashed", "unhashed", "freed"}
    /\ pc[w] = "link" => held[w] \notin linked
    /\ pc[w] = "bucket" => bucket[w] < NBuckets
    /\ pc[w] \notin ClearPCs => bucket[w] = 0

\* No two threads insert, or take out, the same entry, and one taken out has a
\* thread that will free it.
Ownership ==
    /\ \A w, v \in Writers :
        /\ \/ pc[w] \in {"hash", "link", "count"} /\ pc[v] \in {"hash", "link", "count"}
           \/ pc[w] \in {"unlink", "free"} /\ pc[v] \in {"unlink", "free"}
        /\ held[w] = held[v]
        => w = v
    /\ \A e \in Unhashed : \E w \in Writers : pc[w] \in {"unlink", "free"} /\ held[w] = e
    /\ \A e \in linked : memory[e] \notin {"unused", "private"}

\* As long as no clear overlapped, one that runs is alone and leaves nothing in
\* the buckets it has passed.
ClearsAlone ==
    "clear" \notin overlaps =>
        \A w \in Writers : msg[w].op = "clear" =>
            /\ \A v \in Writers : v # w => pc[v] = "idle"
            /\ pc[w] = "bucket" => \A e \in Hashed : Bucket[policy[e].file] >= bucket[w]
            /\ pc[w] \in {"clearLru", "clearCount"} => Hashed = {}
            /\ pc[w] = "clearCount" => lru = <<>>

\* As long as nothing overlapped, one thread works at a time.
OneAtATime ==
    overlaps = {} => \A w, v \in Writers : pc[w] = "idle" \/ pc[v] = "idle" \/ w = v

\* An entry that says it is linked is on the list, unless it was freed.
LinkedInList ==
    Clearing \/ "clear" \in overlaps \/ corrupted
    \/ \A e \in linked : Allocated(e) => e \in Range(lru)

Loose == {e \in Hashed : ~policy[e].pinned}

\* There is room for one more entry, or nothing can be evicted.
Room == Cardinality(Hashed) < MaxEntries \/ Loose = {}

\* Beyond the limit at most one entry is not pinned.
Limit == Cardinality(Hashed) <= MaxEntries \/ \A d, e \in Loose : d = e

\* What one message after the other keeps: an entry on its way to the list is
\* still in its bucket, one that is freed has left the list, the victim of an
\* eviction is there and is not pinned, and an update makes room before it adds.
Serial ==
    overlaps = {} /\ ~corrupted =>
        /\ Limit
        /\ \A w \in Writers :
            /\ pc[w] \in {"link", "count"} => memory[held[w]] = "hashed"
            /\ pc[w] = "free" => held[w] \notin Range(lru)
            /\ pc[w] = "unhash" /\ msg[w].op = "insert" =>
                Find(target[w]) # {} /\ Find(target[w]) \subseteq Loose
            /\ \/ pc[w] \in {"scan", "update", "allocate", "hash"}
               \/ pc[w] \in {"unlink", "free"} /\ msg[w].op = "insert"
               => Room

CacheInv ==
    /\ BucketsExact /\ (\A w \in Writers : Holds(w)) /\ Ownership
    /\ ClearsAlone /\ OneAtATime
    /\ LruExact /\ LinkedInList /\ SafeIfSerial /\ Serial

----------------------------------------------------------------------------
(* The LRU list as a sequence. *)

LEMMA RangeAppend ==
    ASSUME NEW S, NEW s \in Seq(S), NEW x \in S
    PROVE  /\ Append(s, x) \in Seq(S) /\ Range(Append(s, x)) = Range(s) \cup {x}
           /\ IsInjective(s) /\ x \notin Range(s) => IsInjective(Append(s, x))
<1> DEFINE u == Append(s, x)
<1>1. /\ u \in Seq(S) /\ Len(s) \in Nat /\ DOMAIN u = 1 .. Len(s) + 1 /\ DOMAIN s = 1 .. Len(s)
      /\ \A i \in 1 .. Len(s) : u[i] = s[i]
      /\ u[Len(s) + 1] = x
  OBVIOUS
<1> HIDE DEF u
<1>2. \A i \in DOMAIN u : i \in DOMAIN s \/ i = Len(s) + 1
  BY <1>1
<1>3. DOMAIN s \subseteq DOMAIN u /\ Len(s) + 1 \in DOMAIN u
  BY <1>1
<1>4. Range(u) = Range(s) \cup {x}
  BY <1>1, <1>2, <1>3 DEF Range
<1>5. ASSUME IsInjective(s), x \notin Range(s), NEW a \in DOMAIN u, NEW b \in DOMAIN u, u[a] = u[b]
      PROVE  a = b
  <2>1. \A i \in DOMAIN s : u[i] # x
    BY <1>1, <1>5 DEF Range
  <2> QED
    BY <1>1, <1>2, <1>5, <2>1 DEF IsInjective
<1> QED
  BY <1>1, <1>4, <1>5 DEF IsInjective, u

LEMMA RangeWithout ==
    ASSUME NEW S, NEW s \in Seq(S), NEW e
    PROVE  /\ Without(s, {e}) \in Seq(S) /\ Range(Without(s, {e})) = Range(s) \ {e}
           /\ IsInjective(s) => IsInjective(Without(s, {e}))
<1> DEFINE u == Without(s, {e})
<1>1. u \in Seq(S) /\ Leaves(s, {e}, Len(s), u)
  BY WithoutLeaves
<1> HIDE DEF u
<1>2. /\ Len(s) \in Nat /\ Len(u) \in Nat /\ DOMAIN u = 1 .. Len(u) /\ DOMAIN s = 1 .. Len(s)
  BY <1>1
<1>3. Range(u) = Range(s) \ {e}
  <2>1. \A a \in DOMAIN u : u[a] # e /\ \E j \in DOMAIN s : s[j] = u[a]
    BY <1>1, <1>2 DEF Leaves
  <2>2. \A j \in DOMAIN s : s[j] # e => \E a \in DOMAIN u : u[a] = s[j]
    BY <1>1, <1>2 DEF Leaves
  <2> QED
    BY <2>1, <2>2 DEF Range
<1>4. ASSUME IsInjective(s), NEW a \in DOMAIN u, NEW b \in DOMAIN u, a < b
      PROVE  u[a] # u[b]
  <2>1. PICK j, k \in 1 .. Len(s) : j < k /\ s[j] = u[a] /\ s[k] = u[b]
    BY <1>1, <1>2, <1>4 DEF Leaves
  <2>2. j # k
    BY <2>1, <1>2
  <2> QED
    BY <1>2, <1>4, <2>1, <2>2 DEF IsInjective
<1>5. \A a, b \in DOMAIN u : a < b \/ b < a \/ a = b
  BY <1>2
<1> QED
  BY <1>1, <1>3, <1>4, <1>5 DEF IsInjective, u

LEMMA SeqOfRange ==
    ASSUME NEW S, NEW s \in Seq(S), NEW T, Range(s) \subseteq T
    PROVE  s \in Seq(T)
<1>1. \A i \in 1 .. Len(s) : s[i] \in T
  BY DEF Range
<1> QED
  BY <1>1

----------------------------------------------------------------------------
(* The threads that handle messages. *)

\* What the thread of w does next.
Step(w) ==
    \/ \E p \in Policies : UpdateMessage(w, p)
    \/ \E f \in Files : RemoveMessage(w, f)
    \/ ClearMessage(w)
    \/ DlpInsertPolicy(w) \/ DlpRemovePolicy(w) \/ DlpClearCache(w)

\* The steps of lookups, and time.
Outside ==
    \/ \E r \in Readers :
        \/ \E f \in Files : LookupFirst(r, f)
        \/ LookupSecond(r)
    \/ \E e \in Entries : Expire(e)

Shape(w) ==
    /\ msg[w].op \in {"none", "insert", "remove", "clear"}
    /\ pc[w] \in PCs(msg[w].op)
    /\ pc[w] = "idle" <=> msg[w].op = "none"
    /\ pc[w] \in ClearPCs <=> msg[w].op = "clear"
    /\ pc[w] \in InsertPCs => msg[w].op = "insert"
    /\ pc[w] \in RemovePCs => msg[w].op \in {"insert", "remove"}
    /\ msg[w].op = "none" => msg[w] = Idle
    /\ msg[w].op = "insert" => msg[w].policy \in Policies

LEMMA PolicyTypes ==
    /\ Blank \in Policies /\ Blank.file \in Files
    /\ \A p \in Policies : p.file \in Files /\ p.pinned \in BOOLEAN /\ p.permanent \in BOOLEAN
    /\ \A f \in Files : Bucket[f] \in 0 .. NBuckets - 1
    /\ NBuckets \in Nat /\ NBuckets > 0 /\ MaxEntries \in Nat /\ MaxEntries > 0 /\ NEntries \in Nat
<1>1. Blank \in Policies
  BY CacheAssumption DEF Blank
<1> QED
  BY <1>1, CacheAssumption

LEMMA WriterShape ==
    ASSUME TypeOK, NEW w \in Writers
    PROVE  Shape(w)
<1>1. msg[w] \in Messages /\ pc[w] \in PCs(msg[w].op)
  BY DEF TypeOK
<1>2. CASE msg[w] \in [op : {"insert"}, policy : Policies]
  BY <1>1, <1>2 DEF Shape, PCs, InsertPCs, RemovePCs, ClearPCs
<1>3. CASE msg[w] \in {Idle, [op |-> "remove"], [op |-> "clear"]}
  BY <1>1, <1>3 DEF Shape, PCs, InsertPCs, RemovePCs, ClearPCs, Idle
<1> QED
  BY <1>1, <1>2, <1>3 DEF Messages

\* The part of the types that is about the threads.
WriterTypes ==
    /\ msg \in [Writers -> Messages]
    /\ pc \in [Writers -> InsertPCs \cup RemovePCs \cup ClearPCs \cup {"idle"}]
    /\ target \in [Writers -> Files]
    /\ held \in [Writers -> 0 .. NEntries]
    /\ bucket \in [Writers -> 0 .. NBuckets]

\* A step of w leaves the other threads alone.
OnlyMoves(w) ==
    \A v \in Writers : v # w =>
        /\ pc'[v] = pc[v] /\ msg'[v] = msg[v] /\ target'[v] = target[v]
        /\ held'[v] = held[v] /\ bucket'[v] = bucket[v]

\* Nothing of the step but the point w has reached.
LEMMA GotoMoves ==
    ASSUME WriterTypes, NEW w \in Writers, NEW l \in InsertPCs \cup RemovePCs \cup ClearPCs,
           Goto(w, l)
    PROVE  /\ WriterTypes' /\ OnlyMoves(w)
           /\ pc'[w] = l /\ UNCHANGED <<msg, target, held, bucket>>
BY DEF Goto, WriterTypes, OnlyMoves

LEMMA ReturnMoves ==
    ASSUME WriterTypes, NEW w \in Writers, Return(w)
    PROVE  /\ WriterTypes' /\ OnlyMoves(w)
           /\ pc'[w] = "idle" /\ msg'[w] = Idle /\ held'[w] = 0 /\ bucket'[w] = 0
<1> USE DEF WriterTypes
<1>1. Blank.file \in Files /\ 0 \in 0 .. NEntries /\ 0 \in 0 .. NBuckets
  BY PolicyTypes
<1>2. msg' \in [Writers -> Messages] /\ msg'[w] = Idle
  BY DEF Return, Messages
<1>3. /\ pc' \in [Writers -> InsertPCs \cup RemovePCs \cup ClearPCs \cup {"idle"}]
      /\ pc'[w] = "idle"
  BY DEF Return
<1>4. target' \in [Writers -> Files]
  BY <1>1 DEF Return
<1>5. /\ held' \in [Writers -> 0 .. NEntries] /\ bucket' \in [Writers -> 0 .. NBuckets]
      /\ held'[w] = 0 /\ bucket'[w] = 0
  BY <1>1 DEF Return
<1>6. OnlyMoves(w)
  BY DEF Return, OnlyMoves
<1> QED
  BY <1>2, <1>3, <1>4, <1>5, <1>6

LEMMA TakeMoves ==
    ASSUME WriterTypes, NEW w \in Writers, NEW e \in Entries,
           NEW l \in InsertPCs \cup RemovePCs, Take(w, e, l)
    PROVE  /\ WriterTypes' /\ OnlyMoves(w)
           /\ pc'[w] = l /\ held'[w] = e /\ UNCHANGED <<msg, target, bucket>>
BY DEF Take, WriterTypes, OnlyMoves, Entries

LEMMA ReceiveMoves ==
    ASSUME WriterTypes, NEW w \in Writers, NEW k, NEW m \in Messages,
           NEW l \in InsertPCs \cup RemovePCs \cup ClearPCs, NEW f \in Files,
           Receive(w, k, m, l, f)
    PROVE  /\ WriterTypes' /\ OnlyMoves(w)
           /\ pc[w] = "idle" /\ pc'[w] = l /\ msg'[w] = m /\ target'[w] = f
           /\ UNCHANGED <<held, bucket>>
BY DEF Receive, WriterTypes, OnlyMoves

\* The points a thread goes between with what it knows unchanged.
Jumps ==
    {<<"full", "evict">>, <<"full", "scan">>, <<"evict", "scan">>, <<"scan", "update">>,
     <<"scan", "allocate">>, <<"update", "allocate">>, <<"hash", "link">>, <<"link", "count">>,
     <<"unlink", "free">>, <<"clearLru", "clearCount">>}

\* How a step of w moves it, by the point it has reached.
Moves(w) ==
    \/ /\ pc[w] = "idle" /\ UNCHANGED <<held, bucket>> /\ overlaps' = Overlap(w, msg'[w].op)
       /\ \/ msg'[w].op = "insert" /\ msg'[w] \in Messages /\ pc'[w] = "full"
          \/ msg'[w].op = "remove" /\ pc'[w] = "unhash"
          \/ msg'[w].op = "clear" /\ pc'[w] = "bucket"
    \/ /\ UNCHANGED <<msg, target, held, bucket, overlaps>> /\ <<pc[w], pc'[w]>> \in Jumps
    \/ /\ pc[w] = "evict" /\ pc'[w] = "unhash" /\ UNCHANGED <<msg, held, bucket, overlaps>>
    \/ /\ \/ pc[w] = "allocate" /\ pc'[w] = "hash"
          \/ pc[w] = "unhash" /\ pc'[w] = "unlink"
       /\ held'[w] \in Entries /\ UNCHANGED <<msg, target, bucket, overlaps>>
    \/ /\ pc[w] \in {"unhash", "free"} /\ msg[w].op = "insert" /\ pc'[w] = "scan"
       /\ held'[w] = 0 /\ UNCHANGED <<msg, bucket, overlaps>>
    \/ /\ \/ pc[w] \in {"update", "allocate", "hash", "count", "clearCount"}
          \/ pc[w] \in {"unhash", "free"} /\ msg[w].op # "insert"
       /\ pc'[w] = "idle" /\ msg'[w] = Idle /\ held'[w] = 0 /\ bucket'[w] = 0
       /\ UNCHANGED overlaps
    \/ /\ pc[w] = "bucket" /\ bucket'[w] = bucket[w] + 1
       /\ pc'[w] = IF bucket'[w] < NBuckets THEN "bucket" ELSE "clearLru"
       /\ UNCHANGED <<msg, target, held, overlaps>>

LEMMA RemoveReturnsMoves ==
    ASSUME TypeOK, NEW w \in Writers, RemoveReturns(w), pc[w] \in {"unhash", "free"},
           UNCHANGED overlaps
    PROVE  WriterTypes' /\ OnlyMoves(w) /\ Moves(w)
<1>1. WriterTypes /\ Shape(w)
  BY WriterShape DEF TypeOK, WriterTypes
<1>2. CASE msg[w].op = "insert"
  <2>1. msg[w].policy.file \in Files /\ 0 \in 0 .. NEntries
    BY <1>1, <1>2, PolicyTypes DEF Shape
  <2> QED
    BY <1>1, <1>2, <2>1 DEF RemoveReturns, WriterTypes, OnlyMoves, Moves, InsertPCs
<1>3. CASE msg[w].op # "insert"
  BY <1>1, <1>3, ReturnMoves DEF RemoveReturns, Moves
<1> QED
  BY <1>2, <1>3

LEMMA StepMoves ==
    ASSUME TypeOK, NEW w \in Writers, Holds(w), Step(w)
    PROVE  WriterTypes' /\ OnlyMoves(w) /\ Moves(w)
<1>0. WriterTypes /\ Shape(w)
  BY WriterShape DEF TypeOK, WriterTypes
<1> USE DEF InsertPCs, RemovePCs, ClearPCs
<1>1. ASSUME NEW p \in Policies, UpdateMessage(w, p)
      PROVE  WriterTypes' /\ OnlyMoves(w) /\ Moves(w)
  <2> DEFINE m == [op |-> "insert", policy |-> p]
  <2>1. m \in Messages /\ m.op = "insert"
    BY DEF Messages
  <2>2. Receive(w, "update", m, "full", p.file) /\ p.file \in Files
    BY <1>1, PolicyTypes DEF UpdateMessage
  <2> HIDE DEF m
  <2>3. overlaps' = Overlap(w, m.op)
    BY <2>2 DEF Receive
  <2> QED
    BY <1>0, <2>1, <2>2, <2>3, ReceiveMoves DEF Moves
<1>2. ASSUME NEW f \in Files, RemoveMessage(w, f)
      PROVE  WriterTypes' /\ OnlyMoves(w) /\ Moves(w)
  <2> DEFINE m == [op |-> "remove"]
  <2>1. m \in Messages /\ m.op = "remove"
    BY DEF Messages
  <2>2. Receive(w, "remove", m, "unhash", f)
    BY <1>2 DEF RemoveMessage
  <2> HIDE DEF m
  <2>3. overlaps' = Overlap(w, m.op)
    BY <2>2 DEF Receive
  <2> QED
    BY <1>0, <2>1, <2>2, <2>3, ReceiveMoves DEF Moves
<1>3. CASE ClearMessage(w)
  <2> DEFINE m == [op |-> "clear"]
  <2>1. m \in Messages /\ m.op = "clear"
    BY DEF Messages
  <2>2. Receive(w, "clear", m, "bucket", Blank.file) /\ Blank.file \in Files
    BY <1>3, PolicyTypes DEF ClearMessage
  <2> HIDE DEF m
  <2>3. overlaps' = Overlap(w, m.op)
    BY <2>2 DEF Receive
  <2> QED
    BY <1>0, <2>1, <2>2, <2>3, ReceiveMoves DEF Moves
<1>4. ASSUME NEW l \in InsertPCs \cup RemovePCs \cup ClearPCs, Goto(w, l),
             <<pc[w], l>> \in Jumps, UNCHANGED overlaps
      PROVE  WriterTypes' /\ OnlyMoves(w) /\ Moves(w)
  BY <1>0, <1>4, GotoMoves DEF Moves
<1>5. ASSUME Return(w), UNCHANGED overlaps,
             pc[w] \in {"update", "allocate", "hash", "count", "clearCount"}
      PROVE  WriterTypes' /\ OnlyMoves(w) /\ Moves(w)
  BY <1>0, <1>5, ReturnMoves DEF Moves
<1>6. ASSUME NEW e \in Entries, NEW l \in InsertPCs \cup RemovePCs, Take(w, e, l),
             <<pc[w], l>> \in {<<"allocate", "hash">>, <<"unhash", "unlink">>},
             UNCHANGED overlaps
      PROVE  WriterTypes' /\ OnlyMoves(w) /\ Moves(w)
  BY <1>0, <1>6, TakeMoves DEF Moves
<1>7. CASE CheckFull(w)
  <2>1. pc[w] = "full" /\ (Goto(w, "evict") \/ Goto(w, "scan")) /\ UNCHANGED overlaps
    BY <1>7 DEF CheckFull
  <2> QED
    BY <1>4, <2>1 DEF Jumps
<1>8. CASE DlpEvictOldestEntry(w)
  <2>1. pc[w] = "evict" /\ UNCHANGED overlaps
        /\ (Goto(w, "scan") \/ \E i \in DOMAIN lru : GoRemove(w, policy[lru[i]].file))
    <3>1. /\ pc[w] = "evict" /\ UNCHANGED overlaps
          /\ LET loose == {i \in DOMAIN lru : ~policy[lru[i]].pinned}
                 first == CHOOSE i \in loose : \A j \in loose : i <= j
             IN  IF loose = {} THEN Goto(w, "scan") ELSE GoRemove(w, policy[lru[first]].file)
      BY <1>8 DEF DlpEvictOldestEntry
    <3> DEFINE loose == {i \in DOMAIN lru : ~policy[lru[i]].pinned}
    <3>2. ASSUME loose # {} PROVE \E i \in loose : \A j \in loose : i <= j
      <4>1. loose \in SUBSET Nat
        BY DEF TypeOK
      <4> HIDE DEF loose
      <4> QED
        BY <3>2, <4>1, LeastNumber
    <3> QED
      BY <3>1, <3>2
  <2>2. ASSUME NEW i \in DOMAIN lru, GoRemove(w, policy[lru[i]].file)
        PROVE  WriterTypes' /\ OnlyMoves(w) /\ Moves(w)
    <3>1. policy[lru[i]].file \in Files
      BY PolicyTypes DEF TypeOK
    <3> QED
      BY <1>0, <2>1, <2>2, <3>1 DEF GoRemove, WriterTypes, OnlyMoves, Moves
  <2> QED
    BY <1>4, <2>1, <2>2 DEF Jumps
<1>9. CASE Scan(w)
  <2>1. pc[w] = "scan" /\ (Goto(w, "update") \/ Goto(w, "allocate")) /\ UNCHANGED overlaps
    BY <1>9 DEF Scan
  <2> QED
    BY <1>4, <2>1 DEF Jumps
<1>10. CASE Update(w)
  <2>1. pc[w] = "update" /\ (Goto(w, "allocate") \/ Return(w)) /\ UNCHANGED overlaps
    BY <1>10 DEF Update
  <2> QED
    BY <1>4, <1>5, <2>1 DEF Jumps
<1>11. CASE DlpAllocateCacheEntry(w)
  <2>1. /\ pc[w] = "allocate" /\ UNCHANGED overlaps
        /\ Return(w) \/ \E e \in Entries : Take(w, e, "hash")
    BY <1>11 DEF DlpAllocateCacheEntry
  <2> QED
    BY <1>5, <1>6, <2>1
<1>12. CASE Hash(w)
  <2>1. pc[w] = "hash" /\ (Goto(w, "link") \/ Return(w)) /\ UNCHANGED overlaps
    BY <1>12 DEF Hash, Publish
  <2> QED
    BY <1>4, <1>5, <2>1 DEF Jumps
<1>13. CASE Link(w) \/ RemoveLru(w) \/ ClearLru(w)
  <2>1. /\ UNCHANGED overlaps
        /\ \/ pc[w] = "link" /\ Goto(w, "count")
           \/ pc[w] = "unlink" /\ Goto(w, "free")
           \/ pc[w] = "clearLru" /\ Goto(w, "clearCount")
    BY <1>13 DEF Link, RemoveLru, ClearLru
  <2> QED
    BY <1>4, <2>1 DEF Jumps
<1>14. CASE Count(w) \/ ClearCount(w)
  BY <1>5, <1>14 DEF Count, ClearCount
<1>15. CASE RemoveHash(w)
  <2>1. /\ pc[w] = "unhash" /\ UNCHANGED overlaps
        /\ RemoveReturns(w) \/ \E e \in Entries : Take(w, e, "unlink")
    BY <1>15 DEF RemoveHash, Find, Hashed
  <2> QED
    BY <1>6, <2>1, RemoveReturnsMoves
<1>16. CASE RemoveFree(w)
  BY <1>16, RemoveReturnsMoves DEF RemoveFree
<1>17. CASE ClearBucket(w)
  <2>1. /\ pc[w] = "bucket" /\ bucket' = [bucket EXCEPT ![w] = bucket[w] + 1]
        /\ pc' = [pc EXCEPT ![w] = IF bucket[w] + 1 < NBuckets THEN "bucket" ELSE "clearLru"]
        /\ UNCHANGED <<msg, target, held, overlaps>>
    BY <1>17 DEF ClearBucket
  <2>2. bucket[w] + 1 \in 0 .. NBuckets
    BY <1>0, <2>1, PolicyTypes DEF Holds, WriterTypes
  <2> QED
    BY <1>0, <2>1, <2>2 DEF WriterTypes, OnlyMoves, Moves
<1> QED
  BY <1>1, <1>2, <1>3, <1>7, <1>8, <1>9, <1>10, <1>11, <1>12, <1>13, <1>14, <1>15, <1>16, <1>17
     DEF Step, DlpInsertPolicy, DlpRemovePolicy, DlpClearCache

----------------------------------------------------------------------------
(* The life of an entry. *)

HeapTypes ==
    /\ memory \in [Entries -> {"unused", "private", "hashed", "unhashed", "freed"}]
    /\ policy \in [Entries -> Policies]
    /\ fresh \subseteq Entries

\* How a step of w changes what e is.
Life(w, e) ==
    \/ memory'[e] = memory[e]
    \/ /\ pc[w] = "allocate" /\ pc'[w] = "hash" /\ held'[w] = e
       /\ memory[e] = "unused" /\ memory'[e] = "private"
    \/ /\ pc[w] = "hash" /\ held[w] = e
       /\ \/ pc'[w] = "link" /\ memory'[e] = "hashed"
          \/ pc'[w] = "idle" /\ memory'[e] = "freed"
    \/ /\ pc[w] = "unhash" /\ pc'[w] = "unlink" /\ held'[w] = e
       /\ memory[e] = "hashed" /\ memory'[e] = "unhashed" /\ policy[e].file = target[w]
    \/ /\ pc[w] = "bucket" /\ Bucket[policy[e].file] = bucket[w]
       /\ memory[e] = "hashed" /\ memory'[e] = "freed"
    \/ pc[w] = "free" /\ held[w] = e /\ memory'[e] = "freed"

\* The changes a step of w must make.
Births(w) ==
    /\ pc[w] = "allocate" /\ pc'[w] = "hash" =>
        /\ memory[held'[w]] = "unused" /\ memory'[held'[w]] = "private"
        /\ policy'[held'[w]] = msg[w].policy
    /\ pc[w] = "hash" /\ pc'[w] = "link" =>
        /\ memory'[held[w]] = "hashed" /\ policy' = policy
        /\ \A e \in Hashed : policy[e].file # msg[w].policy.file
    /\ pc[w] = "unhash" /\ pc'[w] = "unlink" =>
        memory[held'[w]] = "hashed" /\ memory'[held'[w]] = "unhashed"
    /\ pc[w] = "unhash" /\ pc'[w] # "unlink" => memory' = memory /\ Find(target[w]) = {}
    /\ pc[w] = "free" => memory'[held[w]] = "freed"
    /\ pc[w] = "bucket" =>
        \A e \in Hashed : Bucket[policy[e].file] = bucket[w] => memory'[e] = "freed"

\* What a step of w writes into an entry's policy.
Writes(w, e) ==
    \/ policy'[e] = policy[e]
    \/ memory'[e] = "freed"
    \/ pc[w] = "allocate" /\ pc'[w] = "hash" /\ held'[w] = e /\ policy'[e] = msg[w].policy
    \/ /\ pc[w] \in {"update", "hash"} /\ pc'[w] = "idle"
       /\ memory[e] = "hashed" /\ memory'[e] = "hashed"
       /\ policy[e].file = msg[w].policy.file /\ policy'[e] = msg[w].policy
       /\ \A d \in Entries : d = e \/ policy'[d] = policy[d] \/ memory'[d] = "freed"

Lives(w) ==
    /\ HeapTypes' /\ Births(w)
    /\ \A e \in Entries : Life(w, e) /\ Writes(w, e)

LEMMA RenewedType ==
    ASSUME TypeOK, NEW e \in Entries, NEW p
    PROVE  Renewed(e, p) \subseteq Entries
BY DEF TypeOK, Renewed

LEMMA FreeEffect ==
    ASSUME TypeOK, NEW S \in SUBSET Entries, DlpFreeCacheEntry(S)
    PROVE  /\ HeapTypes'
           /\ \A e \in S : memory'[e] = "freed"
           /\ \A e \in Entries \ S : memory'[e] = memory[e] /\ policy'[e] = policy[e]
<1>1. memory' \in [Entries -> {"unused", "private", "hashed", "unhashed", "freed"}]
  BY DEF DlpFreeCacheEntry, TypeOK
<1>2. policy' \in [Entries -> Policies]
  BY PolicyTypes DEF DlpFreeCacheEntry, TypeOK
<1>3. fresh' \subseteq Entries
  BY DEF DlpFreeCacheEntry, TypeOK
<1> QED
  BY <1>1, <1>2, <1>3 DEF DlpFreeCacheEntry, HeapTypes

LEMMA StepLives ==
    ASSUME TypeOK, NEW w \in Writers, Holds(w), Step(w)
    PROVE  Lives(w)
<1>0. HeapTypes /\ Shape(w) /\ WriterTypes
  BY WriterShape DEF TypeOK, HeapTypes, WriterTypes
<1>1. CASE \/ \E p \in Policies : UpdateMessage(w, p)
           \/ \E f \in Files : RemoveMessage(w, f)
           \/ ClearMessage(w)
  <2>1. UNCHANGED heap /\ pc[w] = "idle"
    BY <1>1 DEF UpdateMessage, RemoveMessage, ClearMessage, Receive
  <2> QED
    BY <1>0, <2>1 DEF Lives, Life, Writes, Births, HeapTypes, heap
<1>2. CASE \/ CheckFull(w) \/ DlpEvictOldestEntry(w) \/ Scan(w) \/ Link(w) \/ Count(w)
           \/ RemoveLru(w) \/ ClearLru(w) \/ ClearCount(w)
  <2>1. /\ UNCHANGED heap
        /\ pc[w] \in {"full", "evict", "scan", "link", "count", "unlink", "clearLru", "clearCount"}
    BY <1>2 DEF CheckFull, DlpEvictOldestEntry, Scan, Link, Count, RemoveLru, ClearLru, ClearCount
  <2> QED
    BY <1>0, <2>1 DEF Lives, Life, Writes, Births, HeapTypes, heap
<1>3. CASE Update(w)
  <2>1. pc[w] = "update" /\ msg[w].policy \in Policies
    BY <1>0, <1>3 DEF Update, Shape, InsertPCs
  <2>2. CASE UNCHANGED heap
    BY <1>0, <2>1, <2>2 DEF Lives, Life, Writes, Births, HeapTypes, heap
  <2>3. ASSUME NEW e \in Find(msg[w].policy.file),
               policy' = [policy EXCEPT ![e] = msg[w].policy],
               fresh' = Renewed(e, msg[w].policy), Return(w), UNCHANGED memory
        PROVE  Lives(w)
    <3>1. pc'[w] = "idle"
      BY <1>0, <2>3, ReturnMoves
    <3>2. e \in Entries /\ memory[e] = "hashed" /\ policy[e].file = msg[w].policy.file
      BY DEF Find, Hashed
    <3>3. HeapTypes'
      BY <1>0, <2>1, <2>3, <3>2, RenewedType DEF HeapTypes
    <3>4. policy'[e] = msg[w].policy /\ \A d \in Entries : d # e => policy'[d] = policy[d]
      BY <1>0, <2>3, <3>2 DEF HeapTypes
    <3>5. \A d \in Entries : Life(w, d) /\ Writes(w, d)
      BY <2>1, <2>3, <3>1, <3>2, <3>4 DEF Life, Writes
    <3> QED
      BY <2>1, <3>3, <3>5 DEF Lives, Births
  <2> QED
    BY <1>3, <2>2, <2>3 DEF Update
<1>4. CASE DlpAllocateCacheEntry(w)
  <2>1. pc[w] = "allocate" /\ msg[w].policy \in Policies
    BY <1>0, <1>4 DEF DlpAllocateCacheEntry, Shape, InsertPCs
  <2>2. CASE Return(w) /\ UNCHANGED heap
    <3>1. pc'[w] = "idle"
      BY <1>0, <2>2, ReturnMoves
    <3> QED
      BY <1>0, <2>1, <2>2, <3>1 DEF Lives, Life, Writes, Births, HeapTypes, heap
  <2>3. ASSUME NEW e \in Entries, memory[e] = "unused",
               memory' = [memory EXCEPT ![e] = "private"],
               policy' = [policy EXCEPT ![e] = msg[w].policy],
               fresh' = Renewed(e, msg[w].policy), Take(w, e, "hash")
        PROVE  Lives(w)
    <3>1. pc'[w] = "hash" /\ held'[w] = e
      BY <1>0, <2>3, TakeMoves DEF InsertPCs
    <3>2. HeapTypes'
      BY <1>0, <2>1, <2>3, RenewedType DEF HeapTypes
    <3>3. /\ policy'[e] = msg[w].policy /\ \A d \in Entries : d # e => policy'[d] = policy[d]
          /\ memory'[e] = "private" /\ \A d \in Entries : d # e => memory'[d] = memory[d]
      BY <1>0, <2>3 DEF HeapTypes
    <3>4. \A d \in Entries : Life(w, d) /\ Writes(w, d)
      BY <2>1, <2>3, <3>1, <3>3 DEF Life, Writes
    <3> QED
      BY <2>1, <2>3, <3>1, <3>2, <3>3, <3>4 DEF Lives, Births
  <2> QED
    BY <1>4, <2>2, <2>3 DEF DlpAllocateCacheEntry
<1>5. CASE Hash(w)
  <2>1. /\ pc[w] = "hash" /\ msg[w].policy \in Policies /\ held[w] \in Entries
        /\ memory[held[w]] = "private"
    BY <1>0, <1>5 DEF Hash, Shape, InsertPCs, Holds, TypeOK
  <2>2. CASE Find(msg[w].policy.file) = {} /\ Publish(w)
    <3>1. memory' = [memory EXCEPT ![held[w]] = "hashed"] /\ UNCHANGED <<policy, fresh>>
          /\ pc'[w] = "link"
      BY <1>0, <2>2, GotoMoves DEF Publish, InsertPCs
    <3>2. HeapTypes'
      BY <1>0, <2>1, <3>1 DEF HeapTypes
    <3>3. memory'[held[w]] = "hashed" /\ \A d \in Entries : d # held[w] => memory'[d] = memory[d]
      BY <1>0, <2>1, <3>1 DEF HeapTypes
    <3>4. \A d \in Entries : Life(w, d) /\ Writes(w, d)
      BY <2>1, <3>1, <3>3 DEF Life, Writes
    <3>5. \A e \in Hashed : policy[e].file # msg[w].policy.file
      BY <2>2 DEF Find
    <3> QED
      BY <2>1, <3>1, <3>2, <3>3, <3>4, <3>5 DEF Lives, Births
  <2>3. ASSUME NEW e \in Find(msg[w].policy.file),
               memory' = [memory EXCEPT ![held[w]] = "freed"],
               policy' = [policy EXCEPT ![e] = msg[w].policy, ![held[w]] = Blank],
               fresh' = fresh \ {e, held[w]}, Return(w)
        PROVE  Lives(w)
    <3>1. pc'[w] = "idle"
      BY <1>0, <2>3, ReturnMoves
    <3>2. e \in Entries /\ memory[e] = "hashed" /\ policy[e].file = msg[w].policy.file
          /\ e # held[w]
      BY <2>1 DEF Find, Hashed
    <3>3. /\ memory'[held[w]] = "freed" /\ \A d \in Entries : d # held[w] => memory'[d] = memory[d]
          /\ policy'[e] = msg[w].policy
          /\ \A d \in Entries : d # e /\ d # held[w] => policy'[d] = policy[d]
      BY <1>0, <2>1, <2>3, <3>2 DEF HeapTypes
    <3>4. HeapTypes'
      <4>1. memory' \in [Entries -> {"unused", "private", "hashed", "unhashed", "freed"}]
        BY <1>0, <2>3 DEF HeapTypes
      <4>2. policy' \in [Entries -> Policies]
        BY <1>0, <2>1, <2>3, PolicyTypes DEF HeapTypes
      <4>3. fresh' \subseteq Entries
        BY <1>0, <2>3 DEF HeapTypes
      <4> QED
        BY <4>1, <4>2, <4>3 DEF HeapTypes
    <3>5. \A d \in Entries : Life(w, d) /\ Writes(w, d)
      BY <2>1, <3>1, <3>2, <3>3 DEF Life, Writes
    <3> QED
      BY <2>1, <3>1, <3>4, <3>5 DEF Lives, Births
  <2> QED
    BY <1>5, <2>2, <2>3 DEF Hash
<1>6. CASE RemoveHash(w)
  <2>1. pc[w] = "unhash" /\ UNCHANGED <<policy, fresh>>
    BY <1>6 DEF RemoveHash
  <2>2. CASE Find(target[w]) = {} /\ RemoveReturns(w) /\ UNCHANGED memory
    <3>1. pc'[w] # "unlink"
      BY <1>0, <2>2, ReturnMoves DEF RemoveReturns, WriterTypes
    <3> QED
      BY <1>0, <2>1, <2>2, <3>1 DEF Lives, Life, Writes, Births, HeapTypes
  <2>3. ASSUME NEW e \in Find(target[w]), memory' = [memory EXCEPT ![e] = "unhashed"],
               Take(w, e, "unlink")
        PROVE  Lives(w)
    <3>1. e \in Entries /\ memory[e] = "hashed" /\ policy[e].file = target[w]
      BY DEF Find, Hashed
    <3>2. pc'[w] = "unlink" /\ held'[w] = e
      BY <1>0, <2>3, <3>1, TakeMoves DEF RemovePCs
    <3>3. memory'[e] = "unhashed" /\ \A d \in Entries : d # e => memory'[d] = memory[d]
      BY <1>0, <2>3, <3>1 DEF HeapTypes
    <3>4. HeapTypes'
      BY <1>0, <2>1, <2>3, <3>1 DEF HeapTypes
    <3>5. \A d \in Entries : Life(w, d) /\ Writes(w, d)
      BY <2>1, <3>1, <3>2, <3>3 DEF Life, Writes
    <3> QED
      BY <2>1, <3>1, <3>2, <3>3, <3>4, <3>5 DEF Lives, Births
  <2> QED
    BY <1>6, <2>2, <2>3 DEF RemoveHash
<1>7. CASE RemoveFree(w)
  <2>1. pc[w] = "free" /\ DlpFreeCacheEntry({held[w]}) /\ held[w] \in Entries
    BY <1>7 DEF RemoveFree, Holds
  <2>2. /\ HeapTypes' /\ memory'[held[w]] = "freed"
        /\ \A e \in Entries : e # held[w] => memory'[e] = memory[e] /\ policy'[e] = policy[e]
    BY <2>1, FreeEffect
  <2>3. \A d \in Entries : Life(w, d) /\ Writes(w, d)
    BY <2>1, <2>2 DEF Life, Writes
  <2> QED
    BY <2>1, <2>2, <2>3 DEF Lives, Births
<1>8. CASE ClearBucket(w)
  <2> DEFINE S == {e \in Hashed : Bucket[policy[e].file] = bucket[w]}
  <2>1. pc[w] = "bucket" /\ DlpFreeCacheEntry(S)
    BY <1>8 DEF ClearBucket
  <2>2. S \in SUBSET Entries /\ \A e \in S : memory[e] = "hashed"
    BY DEF Hashed
  <2>3. \A e \in S : Bucket[policy[e].file] = bucket[w]
    OBVIOUS
  <2>4. \A e \in Hashed : Bucket[policy[e].file] = bucket[w] => e \in S
    OBVIOUS
  <2> HIDE DEF S
  <2>5. /\ HeapTypes' /\ \A e \in S : memory'[e] = "freed"
        /\ \A e \in Entries \ S : memory'[e] = memory[e] /\ policy'[e] = policy[e]
    BY <2>1, <2>2, FreeEffect
  <2>6. \A d \in Entries : Life(w, d) /\ Writes(w, d)
    BY <2>1, <2>2, <2>3, <2>5 DEF Life, Writes
  <2> QED
    BY <2>1, <2>4, <2>5, <2>6 DEF Lives, Births
<1> QED
  BY <1>1, <1>2, <1>3, <1>4, <1>5, <1>6, <1>7, <1>8
     DEF Step, DlpInsertPolicy, DlpRemovePolicy, DlpClearCache

----------------------------------------------------------------------------
(* The list and the counter. *)

ListTypes ==
    /\ linked \subseteq Entries /\ lru \in Seq(linked) /\ count \in Int
    /\ look \in [Readers -> {{}} \cup {{f} : f \in Files}]
    /\ overlaps \subseteq {"any", "clear"} /\ corrupted \in BOOLEAN

\* What a step of w does to the list.
Links(w) ==
    \/ UNCHANGED <<lru, linked>> /\ (pc[w] = "link" => corrupted')
       /\ (pc[w] = "unlink" => corrupted' \/ held[w] \notin linked) /\ pc[w] # "clearLru"
    \/ /\ pc[w] = "link" /\ Allocated(held[w])
       /\ lru' = Append(lru, held[w]) /\ linked' = linked \cup {held[w]}
    \/ /\ pc[w] = "unlink"
       /\ lru' = Without(lru, {held[w]}) /\ linked' = linked \ {held[w]}
    \/ pc[w] = "clearLru" /\ lru' = <<>> /\ linked' = linked

\* Where a step of w uses freed memory.
Corrupts(w) ==
    corrupted' =>
        \/ corrupted
        \/ pc[w] = "evict" /\ \E e \in Range(lru) : ~Allocated(e)
        \/ pc[w] = "link" /\ (~Allocated(held[w]) \/ ~TailIntact(lru))
        \/ pc[w] = "unlink" /\ held[w] \in linked /\ ~Unlinkable(held[w])
        \/ pc[w] = "free" /\ held[w] \in Range(lru)

Counts(w) ==
    count' = CASE pc[w] = "count" -> count + 1
               [] pc[w] = "free" -> count - 1
               [] pc[w] = "clearCount" -> 0
               [] OTHER -> count

Lists(w) ==
    /\ ListTypes' /\ Links(w) /\ Corrupts(w) /\ Counts(w) /\ UNCHANGED look
    /\ pc[w] = "free" /\ held[w] \in Range(lru) => corrupted'

LEMMA StepLists ==
    ASSUME TypeOK, NEW w \in Writers, Holds(w), Step(w), ~corrupted
    PROVE  Lists(w)
<1>0. ListTypes
  BY DEF TypeOK, ListTypes
<1>1. ASSUME UNCHANGED <<list, count, look>>, overlaps' \subseteq {"any", "clear"},
             pc[w] \notin {"link", "unlink", "clearLru", "count", "free", "clearCount"}
      PROVE  Lists(w)
  BY <1>0, <1>1 DEF Lists, ListTypes, Links, Corrupts, Counts, list
<1>2. CASE \/ \E p \in Policies : UpdateMessage(w, p)
           \/ \E f \in Files : RemoveMessage(w, f)
           \/ ClearMessage(w)
  <2>1. UNCHANGED <<list, count, look>> /\ pc[w] = "idle" /\ \E op : overlaps' = Overlap(w, op)
    BY <1>2 DEF UpdateMessage, RemoveMessage, ClearMessage, Receive
  <2>2. overlaps' \subseteq {"any", "clear"}
    BY <1>0, <2>1 DEF Overlap, ListTypes
  <2> QED
    BY <1>1, <2>1, <2>2
<1>3. CASE \/ CheckFull(w) \/ Scan(w) \/ Update(w) \/ DlpAllocateCacheEntry(w) \/ Hash(w)
           \/ RemoveHash(w) \/ ClearBucket(w)
  <2>1. /\ UNCHANGED <<list, count, look, overlaps>>
        /\ pc[w] \in {"full", "scan", "update", "allocate", "hash", "unhash", "bucket"}
    BY <1>3 DEF CheckFull, Scan, Update, DlpAllocateCacheEntry, Hash, RemoveHash, ClearBucket
  <2> QED
    BY <1>0, <1>1, <2>1 DEF ListTypes
<1>4. CASE DlpEvictOldestEntry(w)
  <2> DEFINE loose == {i \in DOMAIN lru : ~policy[lru[i]].pinned}
             first == CHOOSE i \in loose : \A j \in loose : i <= j
             read  == IF loose = {} THEN DOMAIN lru ELSE 1 .. first
  <2>1. /\ pc[w] = "evict" /\ UNCHANGED <<lru, linked, count, look, overlaps>>
        /\ corrupted' = (corrupted \/ \E i \in read : ~Allocated(lru[i]))
    BY <1>4 DEF DlpEvictOldestEntry
  <2>2. read \subseteq DOMAIN lru
    <3>1. loose \in SUBSET Nat /\ loose \subseteq DOMAIN lru /\ DOMAIN lru = 1 .. Len(lru)
          /\ Len(lru) \in Nat
      BY <1>0 DEF ListTypes
    <3>2. loose # {} => first \in DOMAIN lru
      <4>1. loose # {} => \E i \in loose : \A j \in loose : i <= j
        <5> HIDE DEF loose
        <5> QED
          BY <3>1, LeastNumber
      <4> HIDE DEF loose
      <4> QED
        BY <3>1, <4>1
    <3> HIDE DEF loose, first
    <3> QED
      BY <3>1, <3>2
  <2> HIDE DEF read
  <2>3. corrupted' \in BOOLEAN /\ (corrupted' => corrupted \/ \E i \in DOMAIN lru : ~Allocated(lru[i]))
    BY <2>1, <2>2
  <2>4. Corrupts(w)
    BY <2>1, <2>3 DEF Corrupts, Range
  <2>5. ListTypes'
    BY <1>0, <2>1, <2>3 DEF ListTypes
  <2> QED
    BY <2>1, <2>4, <2>5 DEF Lists, Links, Counts
<1>5. CASE Link(w)
  <2>1. pc[w] = "link" /\ held[w] \in Entries /\ UNCHANGED <<count, look, overlaps>>
    BY <1>5 DEF Link, Holds
  <2>2. CASE /\ Allocated(held[w]) /\ TailIntact(lru)
             /\ lru' = Append(lru, held[w]) /\ linked' = linked \cup {held[w]}
             /\ UNCHANGED corrupted
    <3>1. lru \in Seq(linked \cup {held[w]})
      BY <1>0 DEF ListTypes
    <3>2. lru' \in Seq(linked')
      BY <2>2, <3>1, RangeAppend
    <3>3. ListTypes'
      BY <1>0, <2>1, <2>2, <3>2 DEF ListTypes
    <3> QED
      BY <2>1, <2>2, <3>3 DEF Lists, Links, Corrupts, Counts
  <2>3. CASE ~(Allocated(held[w]) /\ TailIntact(lru)) /\ corrupted' = TRUE
             /\ UNCHANGED <<lru, linked>>
    <3>1. ListTypes'
      BY <1>0, <2>1, <2>3 DEF ListTypes
    <3> QED
      BY <2>1, <2>3, <3>1 DEF Lists, Links, Corrupts, Counts
  <2> QED
    BY <1>5, <2>2, <2>3 DEF Link
<1>6. CASE Count(w) \/ ClearCount(w)
  BY <1>0, <1>6 DEF Count, ClearCount, Lists, ListTypes, Links, Corrupts, Counts, list
<1>7. CASE RemoveLru(w)
  <2>1. pc[w] = "unlink" /\ held[w] \in Entries /\ UNCHANGED <<count, look, overlaps>>
    BY <1>7 DEF RemoveLru, Holds
  <2>2. CASE held[w] \notin linked /\ UNCHANGED list
    BY <1>0, <2>1, <2>2 DEF Lists, ListTypes, Links, Corrupts, Counts, list
  <2>3. CASE /\ lru' = Without(lru, {held[w]}) /\ linked' = linked \ {held[w]}
             /\ UNCHANGED corrupted
    <3>1. Without(lru, {held[w]}) \in Seq(linked)
          /\ Range(Without(lru, {held[w]})) = Range(lru) \ {held[w]}
      BY <1>0, RangeWithout DEF ListTypes
    <3>2. Range(lru) \subseteq linked
      BY <1>0 DEF ListTypes, Range
    <3>3. lru' \in Seq(linked')
      BY <2>3, <3>1, <3>2, SeqOfRange
    <3>4. ListTypes'
      BY <1>0, <2>1, <2>3, <3>3 DEF ListTypes
    <3> QED
      BY <2>1, <2>3, <3>4 DEF Lists, Links, Corrupts, Counts
  <2>4. CASE /\ held[w] \in linked /\ ~Unlinkable(held[w])
             /\ corrupted' = TRUE /\ UNCHANGED <<lru, linked>>
    <3>1. ListTypes'
      BY <1>0, <2>1, <2>4 DEF ListTypes
    <3> QED
      BY <2>1, <2>4, <3>1 DEF Lists, Links, Corrupts, Counts
  <2> QED
    BY <1>7, <2>2, <2>3, <2>4 DEF RemoveLru
<1>8. CASE RemoveFree(w)
  <2>1. pc[w] = "free" /\ count' = count - 1 /\ UNCHANGED <<lru, linked, look, overlaps>>
        /\ corrupted' = (held[w] \in Range(lru))
    BY <1>8 DEF RemoveFree
  <2>2. ListTypes'
    BY <1>0, <2>1 DEF ListTypes
  <2> QED
    BY <2>1, <2>2 DEF Lists, Links, Corrupts, Counts
<1>9. CASE ClearLru(w)
  BY <1>0, <1>9 DEF ClearLru, Lists, ListTypes, Links, Corrupts, Counts
<1> QED
  BY <1>2, <1>3, <1>4, <1>5, <1>6, <1>7, <1>8, <1>9
     DEF Step, DlpInsertPolicy, DlpRemovePolicy, DlpClearCache

\* A lookup moves at most one entry that is in a bucket and says it is linked.
Touches ==
    /\ UNCHANGED <<memory, policy, msg, pc, target, held, bucket, linked, count, overlaps>>
    /\ HeapTypes' /\ ListTypes'
    /\ \/ lru' = lru
       \/ \E e \in Hashed \cap linked : lru' = Append(Without(lru, {e}), e)
    /\ corrupted' =>
        \/ corrupted
        \/ \E e \in Hashed \cap linked : ~(Unlinkable(e) /\ TailIntact(Without(lru, {e})))

LEMMA OutsideTouches ==
    ASSUME TypeOK, Outside
    PROVE  Touches
<1>0. HeapTypes /\ ListTypes
  BY DEF TypeOK, HeapTypes, ListTypes
<1>1. ASSUME NEW r \in Readers, NEW f \in Files, LookupFirst(r, f)
      PROVE  Touches
  <2>1. /\ UNCHANGED <<heap, list, count, writer, overlaps>>
        /\ look' = [look EXCEPT ![r] = {f}]
    BY <1>1 DEF LookupFirst
  <2>2. look' \in [Readers -> {{}} \cup {{g} : g \in Files}]
    BY <1>0, <2>1 DEF ListTypes
  <2> QED
    BY <1>0, <2>1, <2>2 DEF Touches, HeapTypes, ListTypes, heap, list, writer
<1>2. ASSUME NEW r \in Readers, LookupSecond(r)
      PROVE  Touches
  <2>1. /\ UNCHANGED <<heap, count, writer, overlaps>>
        /\ look' = [look EXCEPT ![r] = {}]
        /\ UNCHANGED list \/ \E e \in Hashed : DlpTouchEntry(e)
    BY <1>2 DEF LookupSecond, Find
  <2>2. look' \in [Readers -> {{}} \cup {{g} : g \in Files}]
    BY <1>0, <2>1 DEF ListTypes
  <2>3. CASE UNCHANGED list
    BY <1>0, <2>1, <2>2, <2>3 DEF Touches, HeapTypes, ListTypes, heap, list, writer
  <2>4. ASSUME NEW e \in Hashed \cap linked, corrupted' = TRUE, UNCHANGED <<lru, linked>>,
               ~(Unlinkable(e) /\ TailIntact(Without(lru, {e})))
        PROVE  Touches
    BY <1>0, <2>1, <2>2, <2>4 DEF Touches, HeapTypes, ListTypes, heap, writer
  <2>5. ASSUME NEW e \in Hashed \cap linked, UNCHANGED <<linked, corrupted>>,
               lru' = Append(Without(lru, {e}), e)
        PROVE  Touches
    <3>1. Without(lru, {e}) \in Seq(linked)
      BY <1>0, RangeWithout DEF ListTypes
    <3>2. lru' \in Seq(linked')
      BY <2>5, <3>1
    <3> QED
      BY <1>0, <2>1, <2>2, <2>5, <3>2 DEF Touches, HeapTypes, ListTypes, heap, writer
  <2> QED
    BY <2>1, <2>3, <2>4, <2>5 DEF DlpTouchEntry
<1>3. ASSUME NEW e \in Entries, Expire(e)
      PROVE  Touches
  BY <1>0, <1>3 DEF Expire, Touches, HeapTypes, ListTypes, list, writer
<1> QED
  BY <1>1, <1>2, <1>3 DEF Outside

\* What an insertion knows when it goes on: there is room, everything on the list
\* is pinned, or a victim is chosen.
Chooses(w) ==
    /\ pc[w] = "full" /\ pc'[w] = "scan" => 0 <= count /\ count < MaxEntries
    /\ pc[w] = "evict" /\ pc'[w] = "scan" => \A e \in Range(lru) : policy[e].pinned
    /\ pc[w] = "evict" /\ pc'[w] = "unhash" =>
        \E e \in Range(lru) : ~policy[e].pinned /\ target'[w] = policy[e].file

LEMMA StepChooses ==
    ASSUME TypeOK, NEW w \in Writers, Step(w)
    PROVE  Chooses(w)
<1>0. WriterTypes /\ count \in Int /\ lru \in Seq(linked)
  BY DEF TypeOK, WriterTypes
<1>1. ASSUME pc[w] = "full"
      PROVE  CheckFull(w)
  BY <1>1 DEF Step, UpdateMessage, RemoveMessage, ClearMessage, Receive, DlpInsertPolicy,
         DlpRemovePolicy, DlpClearCache, DlpEvictOldestEntry, Scan, Update, DlpAllocateCacheEntry,
         Hash, Link, Count, RemoveHash, RemoveLru, RemoveFree, ClearBucket, ClearLru, ClearCount
<1>2. ASSUME pc[w] = "evict"
      PROVE  DlpEvictOldestEntry(w)
  BY <1>2 DEF Step, UpdateMessage, RemoveMessage, ClearMessage, Receive, DlpInsertPolicy,
         DlpRemovePolicy, DlpClearCache, CheckFull, Scan, Update, DlpAllocateCacheEntry,
         Hash, Link, Count, RemoveHash, RemoveLru, RemoveFree, ClearBucket, ClearLru, ClearCount
<1>3. ASSUME pc[w] = "full", pc'[w] = "scan"
      PROVE  0 <= count /\ count < MaxEntries
  <2>1. ~(count < 0 \/ count >= MaxEntries)
    <3>1. Goto(w, IF count < 0 \/ count >= MaxEntries THEN "evict" ELSE "scan")
      BY <1>1, <1>3 DEF CheckFull
    <3> QED
      BY <1>0, <1>3, <3>1 DEF Goto, WriterTypes
  <2> QED
    BY <1>0, <2>1, PolicyTypes
<1>4. ASSUME pc[w] = "evict"
      PROVE  /\ pc'[w] = "scan" => \A e \in Range(lru) : policy[e].pinned
             /\ pc'[w] = "unhash" =>
                  \E e \in Range(lru) : ~policy[e].pinned /\ target'[w] = policy[e].file
  <2> DEFINE loose == {i \in DOMAIN lru : ~policy[lru[i]].pinned}
             first == CHOOSE i \in loose : \A j \in loose : i <= j
  <2>1. IF loose = {} THEN Goto(w, "scan") ELSE GoRemove(w, policy[lru[first]].file)
    BY <1>2, <1>4 DEF DlpEvictOldestEntry
  <2>2. CASE loose = {}
    <3>1. pc'[w] = "scan"
      BY <1>0, <2>1, <2>2 DEF Goto, WriterTypes
    <3>2. \A i \in DOMAIN lru : policy[lru[i]].pinned
      BY <2>2
    <3> QED
      BY <3>1, <3>2 DEF Range
  <2>3. CASE loose # {}
    <3>1. loose \in SUBSET Nat
      BY <1>0
    <3>2. first \in loose
      <4>1. \E i \in loose : \A j \in loose : i <= j
        <5> HIDE DEF loose
        <5> QED
          BY <2>3, <3>1, LeastNumber
      <4> HIDE DEF loose
      <4> QED
        BY <4>1
    <3>3. first \in DOMAIN lru /\ ~policy[lru[first]].pinned
      BY <3>2
    <3>4. GoRemove(w, policy[lru[first]].file)
      BY <2>1, <2>3
    <3> HIDE DEF first, loose
    <3>5. pc'[w] = "unhash" /\ target'[w] = policy[lru[first]].file
      BY <1>0, <3>4 DEF GoRemove, WriterTypes
    <3> QED
      BY <3>3, <3>5 DEF Range
  <2> QED
    BY <2>2, <2>3
<1> QED
  BY <1>3, <1>4 DEF Chooses

----------------------------------------------------------------------------
(* Steps, summed up. *)

Effect(w) ==
    /\ WriterTypes' /\ OnlyMoves(w) /\ Moves(w) /\ Lives(w) /\ Lists(w) /\ Chooses(w)
    /\ ~corrupted

LEMMA NextEffects ==
    ASSUME CacheInv, [Next]_vars
    PROVE  (\E w \in Writers : Effect(w)) \/ (Touches /\ ~corrupted) \/ UNCHANGED vars
<1>0. TypeOK /\ \A w \in Writers : Holds(w)
  BY DEF CacheInv, BucketsExact
<1>1. CASE UNCHANGED vars
  BY <1>1
<1>2. CASE Next
  <2>1. ~corrupted /\ ((\E w \in Writers : Step(w)) \/ Outside)
    BY <1>2 DEF Next, Step, Outside
  <2> QED
    BY <1>0, <2>1, StepMoves, StepLives, StepLists, StepChooses, OutsideTouches DEF Effect
<1> QED
  BY <1>1, <1>2

\* Each thread holds what its point in the code says, and no other does.
LEMMA EffectShape ==
    ASSUME CacheInv, NEW w \in Writers, Effect(w)
    PROVE  TypeOK' /\ Ownership' /\ \A v \in Writers : Holds(v)'
<1>0. TypeOK /\ Ownership /\ \A v \in Writers : Holds(v) /\ Shape(v)
  BY WriterShape DEF CacheInv, BucketsExact
<1>1. WriterTypes' /\ HeapTypes' /\ ListTypes'
  BY DEF Effect, Lives, Lists
<1>2. \A e \in Entries : Life(w, e) /\ Writes(w, e)
  BY DEF Effect, Lives
<1>3. Births(w)
  BY DEF Effect, Lives
<1>4. Moves(w) /\ OnlyMoves(w) /\ Links(w) /\ (pc[w] = "link" => ~corrupted)
  BY DEF Effect, Lists
<1> DEFINE Right(v) ==
      /\ pc[v] \in {"hash", "link", "count", "unlink", "free"} => held[v] \in Entries
      /\ pc[v] = "hash" => memory[held[v]] = "private"
      /\ pc[v] \in {"link", "count"} => memory[held[v]] \in {"hashed", "unhashed", "freed"}
      /\ pc[v] \in {"unlink", "free"} => memory[held[v]] = "unhashed"
<1>5. \A v \in Writers : Right(v)
  BY <1>0 DEF TypeOK, Holds
<1>6. ASSUME NEW v \in Writers, v # w
      PROVE  Right(v)'
  <2>1. pc'[v] = pc[v] /\ held'[v] = held[v]
    BY <1>4, <1>6 DEF OnlyMoves
  <2>2. ASSUME pc[v] \in {"hash", "link", "count"}
        PROVE  /\ Life(w, held[v]) /\ ~(pc[w] = "hash" /\ held[w] = held[v])
               /\ pc[w] = "free" => memory[held[w]] = "unhashed" /\ held[w] \in Entries
    BY <1>0, <1>2, <1>5, <1>6, <2>2 DEF Ownership
  <2>3. ASSUME pc[v] \in {"unlink", "free"}
        PROVE  /\ Life(w, held[v]) /\ ~(pc[w] = "free" /\ held[w] = held[v])
               /\ pc[w] = "hash" => memory[held[w]] = "private"
    BY <1>0, <1>2, <1>5, <1>6, <2>3 DEF Ownership
  <2>4. pc[v] = "hash" => memory'[held[v]] = "private"
    BY <1>5, <2>2 DEF Life
  <2>5. pc[v] \in {"link", "count"} => memory'[held[v]] \in {"hashed", "unhashed", "freed"}
    BY <1>5, <2>2 DEF Life
  <2>6. pc[v] \in {"unlink", "free"} => memory'[held[v]] = "unhashed"
    BY <1>5, <2>3 DEF Life
  <2> QED
    BY <1>5, <2>1, <2>4, <2>5, <2>6
<1>7. Right(w)'
  <2>1. CASE pc'[w] = "hash"
    BY <1>3, <1>4, <2>1 DEF Moves, Births, Jumps
  <2>2. CASE pc'[w] = "link"
    BY <1>3, <1>4, <1>5, <2>2 DEF Moves, Births, Jumps
  <2>3. CASE pc'[w] = "count"
    <3>1. pc[w] = "link" /\ held'[w] = held[w]
      BY <1>4, <2>3 DEF Moves, Jumps
    <3>2. memory'[held[w]] = memory[held[w]]
      BY <1>2, <1>5, <3>1 DEF Life
    <3> QED
      BY <1>5, <2>3, <3>1, <3>2
  <2>4. CASE pc'[w] = "unlink"
    BY <1>3, <1>4, <2>4 DEF Moves, Births, Jumps
  <2>5. CASE pc'[w] = "free"
    <3>1. pc[w] = "unlink" /\ held'[w] = held[w]
      BY <1>4, <2>5 DEF Moves, Jumps
    <3>2. memory'[held[w]] = memory[held[w]]
      BY <1>2, <1>5, <3>1 DEF Life
    <3> QED
      BY <1>5, <2>5, <3>1, <3>2
  <2> QED
    BY <2>1, <2>2, <2>3, <2>4, <2>5
<1>8. \A v \in Writers : Right(v)'
  BY <1>6, <1>7
<1>9. ASSUME NEW v \in Writers
      PROVE  /\ pc'[v] \in PCs(msg'[v].op)
             /\ pc'[v] \notin {"hash", "link", "count", "unlink", "free"} => held'[v] = 0
             /\ pc'[v] = "bucket" => bucket'[v] < NBuckets
             /\ pc'[v] \notin ClearPCs => bucket'[v] = 0
  <2>0. /\ pc[v] \in PCs(msg[v].op)
        /\ pc[v] \notin {"hash", "link", "count", "unlink", "free"} => held[v] = 0
        /\ pc[v] = "bucket" => bucket[v] < NBuckets
        /\ pc[v] \notin ClearPCs => bucket[v] = 0
    BY <1>0 DEF TypeOK, Holds
  <2>1. CASE v # w
    BY <1>4, <2>0, <2>1 DEF OnlyMoves
  <2>2. CASE v = w
    <3>1. pc'[w] \in PCs(msg'[w].op)
      <4>1. Shape(w)
        BY <1>0
      <4> QED
        BY <1>4, <4>1 DEF Moves, Jumps, Shape, PCs, InsertPCs, RemovePCs, ClearPCs, Idle
    <3>2. pc'[w] \notin {"hash", "link", "count", "unlink", "free"} => held'[w] = 0
      BY <1>4, <2>0, <2>2 DEF Moves, Jumps
    <3>3. pc'[w] = "bucket" => bucket'[w] < NBuckets
      BY <1>4, <2>0, <2>2, PolicyTypes DEF Moves, Jumps, ClearPCs
    <3>4. pc'[w] \notin ClearPCs => bucket'[w] = 0
      BY <1>4, <2>0, <2>2 DEF Moves, Jumps, ClearPCs
    <3> QED
      BY <2>2, <3>1, <3>2, <3>3, <3>4
  <2> QED
    BY <2>1, <2>2
<1>10. TypeOK'
  BY <1>1, <1>8, <1>9 DEF TypeOK, WriterTypes, HeapTypes, ListTypes
<1>11. ASSUME NEW v \in Writers
       PROVE  Holds(v)'
  <2>1. pc'[v] = "hash" => policy'[held'[v]] = msg'[v].policy
    <3>1. CASE v = w
      BY <1>3, <1>4, <3>1 DEF Moves, Jumps, Births
    <3>2. CASE v # w
      <4>0. SUFFICES ASSUME pc[v] = "hash" PROVE policy'[held[v]] = msg[v].policy
        BY <1>4, <3>2 DEF OnlyMoves
      <4>1. /\ held[v] \in Entries /\ memory[held[v]] = "private" /\ memory'[held[v]] = "private"
            /\ policy[held[v]] = msg[v].policy
        BY <1>0, <1>4, <1>5, <1>8, <3>2, <4>0 DEF OnlyMoves, Holds
      <4>2. Writes(w, held[v])
        BY <1>2, <4>1
      <4> QED
        BY <1>3, <4>1, <4>2 DEF Writes, Births
    <3> QED
      BY <3>1, <3>2
  <2>2. pc'[v] = "link" => held'[v] \notin linked'
    <3>1. CASE v = w
      <4>0. SUFFICES ASSUME pc'[w] = "link" PROVE held'[w] \notin linked'
        BY <3>1
      <4>1. pc[w] = "hash" /\ held'[w] = held[w]
        BY <1>4, <4>0 DEF Moves, Jumps
      <4>2. linked' = linked
        BY <1>4, <4>1 DEF Links
      <4> QED
        BY <1>0, <1>5, <4>1, <4>2 DEF Ownership
    <3>2. CASE v # w
      <4>0. SUFFICES ASSUME pc[v] = "link" PROVE held[v] \notin linked'
        BY <1>4, <3>2 DEF OnlyMoves
      <4>1. held[v] \notin linked /\ (pc[w] = "link" => held[w] # held[v])
        BY <1>0, <3>2, <4>0 DEF Holds, Ownership
      <4> QED
        BY <1>4, <4>1 DEF Links
    <3> QED
      BY <3>1, <3>2
  <2> QED
    BY <1>8, <1>9, <2>1, <2>2 DEF Holds
<1>12. Ownership'
  <2>1. ASSUME NEW v \in Writers, NEW u \in Writers, held'[v] = held'[u],
               \/ pc'[v] \in {"hash", "link", "count"} /\ pc'[u] \in {"hash", "link", "count"}
               \/ pc'[v] \in {"unlink", "free"} /\ pc'[u] \in {"unlink", "free"}
        PROVE  v = u
    <3>1. ASSUME NEW x \in Writers, x # w, held'[x] = held'[w],
                 pc'[x] \in {"hash", "link", "count"} /\ pc'[w] \in {"hash", "link", "count"}
          PROVE  FALSE
      <4>1. pc[x] \in {"hash", "link", "count"} /\ held[x] = held'[w]
        BY <1>4, <3>1 DEF OnlyMoves
      <4>2. \/ pc[w] = "allocate" /\ pc'[w] = "hash"
            \/ pc[w] \in {"hash", "link", "count"} /\ held'[w] = held[w]
        BY <1>4, <3>1 DEF Moves, Jumps
      <4> QED
        BY <1>0, <1>3, <1>5, <3>1, <4>1, <4>2 DEF Ownership, Births
    <3>2. ASSUME NEW x \in Writers, x # w, held'[x] = held'[w],
                 pc'[x] \in {"unlink", "free"} /\ pc'[w] \in {"unlink", "free"}
          PROVE  FALSE
      <4>1. pc[x] \in {"unlink", "free"} /\ held[x] = held'[w]
        BY <1>4, <3>2 DEF OnlyMoves
      <4>2. \/ pc[w] = "unhash" /\ pc'[w] = "unlink"
            \/ pc[w] \in {"unlink", "free"} /\ held'[w] = held[w]
        BY <1>4, <3>2 DEF Moves, Jumps
      <4> QED
        BY <1>0, <1>3, <1>5, <3>2, <4>1, <4>2 DEF Ownership, Births
    <3>3. CASE v # w /\ u # w
      BY <1>0, <1>4, <2>1, <3>3 DEF OnlyMoves, Ownership
    <3> QED
      BY <2>1, <3>1, <3>2, <3>3
  <2>2. ASSUME NEW e \in Entries, memory'[e] = "unhashed"
        PROVE  \E v \in Writers : pc'[v] \in {"unlink", "free"} /\ held'[v] = e
    <3>1. CASE memory[e] = "unhashed"
      <4>1. PICK v \in Writers : pc[v] \in {"unlink", "free"} /\ held[v] = e
        BY <1>0, <3>1 DEF Ownership, Unhashed
      <4>2. CASE v # w
        BY <1>4, <4>1, <4>2 DEF OnlyMoves
      <4>3. CASE v = w
        <5>1. pc[w] # "free"
          BY <1>3, <2>2, <4>1, <4>3 DEF Births
        <5>2. pc'[w] = "free" /\ held'[w] = e
          BY <1>4, <4>1, <4>3, <5>1 DEF Moves, Jumps
        <5> QED
          BY <5>2
      <4> QED
        BY <4>2, <4>3
    <3>2. CASE memory[e] # "unhashed"
      <4>1. pc'[w] = "unlink" /\ held'[w] = e
        BY <1>2, <2>2, <3>2 DEF Life
      <4> QED
        BY <4>1
    <3> QED
      BY <3>1, <3>2
  <2>3. ASSUME NEW e \in linked'
        PROVE  memory'[e] \notin {"unused", "private"}
    <3>0. e \in Entries
      BY <1>1 DEF ListTypes
    <3>1. CASE e \in linked
      BY <1>0, <1>2, <3>0, <3>1 DEF Ownership, Life
    <3>2. CASE e \notin linked
      <4>1. pc[w] = "link" /\ e = held[w]
        BY <1>4, <3>2 DEF Links
      <4>2. memory'[e] = memory[e]
        BY <1>2, <3>0, <4>1 DEF Life
      <4> QED
        BY <1>5, <4>1, <4>2
    <3> QED
      BY <3>1, <3>2
  <2> QED
    BY <2>1, <2>2, <2>3 DEF Ownership, Unhashed
<1> QED
  BY <1>10, <1>11, <1>12

LEMMA TouchShape ==
    ASSUME CacheInv, Touches
    PROVE  TypeOK' /\ Ownership' /\ \A v \in Writers : Holds(v)'
<1>0. TypeOK /\ Ownership /\ \A v \in Writers : Holds(v)
  BY DEF CacheInv, BucketsExact
<1>1. /\ UNCHANGED <<memory, policy, msg, pc, target, held, bucket, linked>>
      /\ HeapTypes' /\ ListTypes'
  BY DEF Touches
<1>2. TypeOK'
  BY <1>0, <1>1 DEF TypeOK, HeapTypes, ListTypes
<1>3. Ownership'
  BY <1>0, <1>1 DEF Ownership, Unhashed
<1> QED
  BY <1>0, <1>1, <1>2, <1>3 DEF Holds

----------------------------------------------------------------------------
(* The buckets. *)

LEMMA EffectOnePerFile ==
    ASSUME CacheInv, NEW w \in Writers, Effect(w)
    PROVE  OnePerFile'
<1>0. TypeOK /\ OnePerFile /\ Holds(w)
  BY DEF CacheInv, BucketsExact
<1>1. Births(w) /\ \A e \in Entries : Life(w, e) /\ Writes(w, e)
  BY DEF Effect, Lives
<1>2. ASSUME NEW e \in Entries, memory[e] = "hashed", memory'[e] = "hashed"
      PROVE  policy'[e].file = policy[e].file
  <2>1. Writes(w, e) /\ (pc[w] = "allocate" /\ pc'[w] = "hash" => held'[w] # e)
    BY <1>1, <1>2 DEF Births
  <2> QED
    BY <1>2, <2>1 DEF Writes
<1>3. ASSUME NEW e \in Entries, memory[e] # "hashed", memory'[e] = "hashed"
      PROVE  /\ pc[w] = "hash" /\ pc'[w] = "link" /\ held[w] = e /\ policy' = policy
             /\ policy[e] = msg[w].policy
             /\ \A d \in Hashed : policy[d].file # msg[w].policy.file
  BY <1>0, <1>1, <1>3 DEF Life, Births, Holds
<1>4. ASSUME NEW d \in Entries, NEW e \in Entries, memory'[d] = "hashed", memory'[e] = "hashed",
             policy'[d].file = policy'[e].file
      PROVE  d = e
  <2>1. CASE memory[d] = "hashed" /\ memory[e] = "hashed"
    BY <1>0, <1>2, <1>4, <2>1 DEF OnePerFile, Hashed
  <2>2. CASE memory[d] # "hashed" /\ memory[e] # "hashed"
    BY <1>3, <1>4, <2>2
  <2>3. CASE memory[d] # "hashed" /\ memory[e] = "hashed"
    BY <1>3, <1>4, <2>3 DEF Hashed
  <2>4. CASE memory[d] = "hashed" /\ memory[e] # "hashed"
    BY <1>3, <1>4, <2>4 DEF Hashed
  <2> QED
    BY <2>1, <2>2, <2>3, <2>4
<1> QED
  BY <1>4 DEF OnePerFile, Hashed

LEMMA OverlapFacts ==
    ASSUME TypeOK, NEW w \in Writers, NEW op
    PROVE  /\ Overlap(w, op) = {} =>
                overlaps = {} /\ \A v \in Writers : v # w => pc[v] = "idle"
           /\ "clear" \notin Overlap(w, op) =>
                /\ "clear" \notin overlaps
                /\ op = "clear" => \A v \in Writers : v # w => pc[v] = "idle"
                /\ \A v \in Writers : v # w => msg[v].op # "clear"
<1> DEFINE others == {msg[v].op : v \in Writers \ {w}} \ {"none"}
<1>1. \A v \in Writers : Shape(v)
  BY WriterShape
<1>2. ASSUME NEW v \in Writers, v # w
      PROVE  (others = {} => pc[v] = "idle") /\ (msg[v].op = "clear" => "clear" \in others)
  <2>1. msg[v].op = "none" \/ msg[v].op \in others
    BY <1>2
  <2> HIDE DEF others
  <2> QED
    BY <1>1, <2>1 DEF Shape
<1>3. Overlap(w, op) = overlaps \cup (IF others = {} THEN {} ELSE {"any"})
                 \cup (IF others # {} /\ "clear" \in others \cup {op} THEN {"clear"} ELSE {})
  BY DEF Overlap
<1> HIDE DEF others
<1> QED
  BY <1>2, <1>3

LEMMA EffectAlone ==
    ASSUME CacheInv, NEW w \in Writers, Effect(w)
    PROVE  OneAtATime' /\ ClearsAlone'
<1>0. TypeOK /\ OneAtATime /\ ClearsAlone /\ Holds(w) /\ \A v \in Writers : Shape(v)
  BY WriterShape DEF CacheInv, BucketsExact
<1>1. /\ Moves(w) /\ OnlyMoves(w) /\ Births(w) /\ \A e \in Entries : Life(w, e) /\ Writes(w, e)
      /\ Links(w) /\ HeapTypes' /\ ListTypes'
  BY DEF Effect, Lives, Lists
<1>2. \/ pc[w] = "idle" /\ overlaps' = Overlap(w, msg'[w].op)
      \/ pc[w] # "idle" /\ overlaps' = overlaps
  BY <1>1 DEF Moves, Jumps
<1>3. OneAtATime'
  <2>1. ASSUME overlaps' = {} PROVE \A v \in Writers : v # w => pc[v] = "idle"
    BY <1>0, <1>2, <2>1, OverlapFacts DEF OneAtATime
  <2> QED
    BY <1>1, <2>1 DEF OneAtATime, OnlyMoves
<1>4. ASSUME "clear" \notin overlaps', NEW v \in Writers, v # w
      PROVE  msg'[v].op # "clear"
  <2>1. msg[v].op # "clear"
    BY <1>0, <1>2, <1>4, OverlapFacts DEF ClearsAlone
  <2> QED
    BY <1>1, <1>4, <2>1 DEF OnlyMoves
<1>5. ASSUME "clear" \notin overlaps', msg'[w].op = "clear"
      PROVE  /\ \A v \in Writers : v # w => pc'[v] = "idle"
             /\ pc'[w] = "bucket" => \A e \in Hashed' : Bucket[policy'[e].file] >= bucket'[w]
             /\ pc'[w] \in {"clearLru", "clearCount"} => Hashed' = {}
             /\ pc'[w] = "clearCount" => lru' = <<>>
  <2>1. \A v \in Writers : v # w => pc'[v] = "idle"
    <3>1. \A v \in Writers : v # w => pc[v] = "idle"
      <4>1. CASE pc[w] = "idle"
        BY <1>0, <1>2, <1>5, <4>1, OverlapFacts
      <4>2. CASE pc[w] # "idle"
        <5>1. msg'[w] = msg[w] \/ msg'[w] = Idle
          BY <1>1, <4>2 DEF Moves
        <5>2. msg[w].op = "clear" /\ "clear" \notin overlaps
          BY <1>2, <1>5, <4>2, <5>1 DEF Idle
        <5> QED
          BY <1>0, <5>2 DEF ClearsAlone
      <4> QED
        BY <4>1, <4>2
    <3> QED
      BY <1>1, <3>1 DEF OnlyMoves
  <2>2. \A e \in Hashed' : e \in Entries /\ memory'[e] = "hashed" /\ Bucket[policy'[e].file] \in 0 .. NBuckets - 1
    BY <1>1, PolicyTypes DEF Hashed, HeapTypes
  <2>3. CASE pc[w] = "idle"
    <3>1. bucket[w] = 0 /\ bucket' = bucket
      BY <1>0, <1>1, <2>3 DEF Holds, Moves, ClearPCs, Jumps
    <3>2. pc'[w] = "bucket"
      BY <1>1, <1>5, <2>3 DEF Moves, Jumps
    <3> QED
      BY <2>1, <2>2, <3>1, <3>2
  <2>4. CASE pc[w] = "bucket"
    <3>1. msg[w].op = "clear" /\ "clear" \notin overlaps
      BY <1>0, <1>2, <1>5, <2>4 DEF Shape, ClearPCs
    <3>2. \A e \in Hashed : Bucket[policy[e].file] >= bucket[w]
      BY <1>0, <2>4, <3>1 DEF ClearsAlone
    <3>3. ASSUME NEW e \in Hashed' PROVE Bucket[policy'[e].file] >= bucket[w] + 1
      <4>1. e \in Entries /\ memory'[e] = "hashed" /\ memory[e] = "hashed"
        BY <1>1, <2>2, <2>4 DEF Life
      <4>2. policy'[e] = policy[e]
        BY <1>1, <2>4, <4>1 DEF Writes
      <4>3. Bucket[policy[e].file] # bucket[w] /\ Bucket[policy[e].file] >= bucket[w]
        BY <1>1, <2>4, <3>2, <4>1 DEF Births, Hashed
      <4>4. Bucket[policy[e].file] \in Int /\ bucket[w] \in Int
        BY <1>0, <2>2, <4>2 DEF TypeOK
      <4> QED
        BY <4>2, <4>3, <4>4
    <3>4. bucket'[w] = bucket[w] + 1 /\ pc'[w] = IF bucket'[w] < NBuckets THEN "bucket" ELSE "clearLru"
      BY <1>1, <2>4 DEF Moves, Jumps
    <3>5. bucket[w] \in Nat /\ NBuckets \in Nat
      BY <1>0, PolicyTypes DEF TypeOK
    <3>6. pc'[w] = "clearLru" => Hashed' = {}
      <4>1. ASSUME pc'[w] = "clearLru", NEW e \in Hashed' PROVE FALSE
        BY <2>2, <3>3, <3>4, <3>5, <4>1
      <4> QED
        BY <4>1
    <3> QED
      BY <2>1, <3>3, <3>4, <3>6
  <2>5. CASE pc[w] = "clearLru"
    <3>1. msg[w].op = "clear" /\ "clear" \notin overlaps
      BY <1>0, <1>2, <1>5, <2>5 DEF Shape, ClearPCs
    <3>2. pc'[w] = "clearCount" /\ lru' = <<>>
      BY <1>1, <2>5 DEF Moves, Jumps, Links
    <3>3. \A e \in Entries : memory'[e] = "hashed" => memory[e] = "hashed"
      BY <1>1, <2>5 DEF Life
    <3>4. Hashed' = {}
      BY <1>0, <2>5, <3>1, <3>3 DEF ClearsAlone, Hashed
    <3> QED
      BY <2>1, <3>2, <3>4
  <2>6. pc[w] \in {"idle", "bucket", "clearLru"}
    <3>1. CASE pc[w] \notin ClearPCs /\ pc[w] # "idle"
      <4>1. msg[w].op # "clear" /\ (msg'[w] = msg[w] \/ msg'[w] = Idle)
        BY <1>0, <1>1, <3>1 DEF Shape, Moves
      <4> QED
        BY <1>5, <4>1 DEF Idle
    <3>2. CASE pc[w] = "clearCount"
      BY <1>1, <1>5, <3>2 DEF Moves, Jumps, Idle
    <3> QED
      BY <3>1, <3>2 DEF ClearPCs
  <2> QED
    BY <2>3, <2>4, <2>5, <2>6
<1>6. ClearsAlone'
  BY <1>4, <1>5 DEF ClearsAlone
<1> QED
  BY <1>3, <1>6

LEMMA TouchAlone ==
    ASSUME CacheInv, Touches
    PROVE  OneAtATime' /\ ClearsAlone' /\ OnePerFile' /\ CountExact'
<1>0. OneAtATime /\ ClearsAlone /\ OnePerFile /\ CountExact
  BY DEF CacheInv, BucketsExact
<1>1. /\ UNCHANGED <<memory, policy, msg, pc, target, held, bucket, linked, count, overlaps>>
      /\ lru' = lru \/ \E e \in Hashed : TRUE
  BY DEF Touches
<1>2. OneAtATime' /\ OnePerFile' /\ CountExact'
  BY <1>0, <1>1 DEF OneAtATime, OnePerFile, CountExact, Clearing, Hashed
<1>3. Hashed' = Hashed
  BY <1>1 DEF Hashed
<1>4. ClearsAlone'
  BY <1>0, <1>1, <1>3 DEF ClearsAlone
<1> QED
  BY <1>2, <1>4

----------------------------------------------------------------------------
(* The counter. *)

\* The threads on their way from publishing an entry to counting it.
Linking == {w \in Writers : pc[w] \in {"link", "count"}}

LEMMA Sizes ==
    /\ \A S \in SUBSET Entries : IsFiniteSet(S) /\ Cardinality(S) \in Nat
    /\ \A S \in SUBSET Writers : IsFiniteSet(S) /\ Cardinality(S) \in Nat
<1>1. IsFiniteSet(Entries)
  BY PolicyTypes, FS_Interval DEF Entries
<1>2. IsFiniteSet(Writers)
  BY CacheAssumption
<1> QED
  BY <1>1, <1>2, FS_Subset, FS_CardinalityType

LEMMA EffectCount ==
    ASSUME CacheInv, NEW w \in Writers, Effect(w)
    PROVE  CountExact'
<1>0. TypeOK /\ Ownership /\ ClearsAlone /\ CountExact /\ Holds(w) /\ Shape(w)
  BY WriterShape DEF CacheInv, BucketsExact
<1>1. /\ Moves(w) /\ OnlyMoves(w) /\ Births(w) /\ Counts(w)
      /\ \A e \in Entries : Life(w, e)
      /\ WriterTypes' /\ HeapTypes' /\ ListTypes'
  BY DEF Effect, Lives, Lists
<1> SUFFICES ASSUME ~Clearing', "clear" \notin overlaps'
             PROVE  count' = Cardinality(Hashed') + Cardinality(Unhashed')
                           - Cardinality(Linking')
  BY DEF CountExact, Unhashed, Linking
<1>2. /\ Hashed \in SUBSET Entries /\ Unhashed \in SUBSET Entries /\ Linking \in SUBSET Writers
      /\ IsFiniteSet(Hashed) /\ IsFiniteSet(Unhashed) /\ IsFiniteSet(Linking)
      /\ Cardinality(Hashed) \in Nat /\ Cardinality(Unhashed) \in Nat
      /\ Cardinality(Linking) \in Nat /\ count \in Int
  <2>1. Hashed \in SUBSET Entries /\ Unhashed \in SUBSET Entries /\ Linking \in SUBSET Writers
    BY DEF Hashed, Unhashed, Linking
  <2> QED
    BY <1>0, <2>1, Sizes DEF TypeOK
<1>3. msg'[w].op # "clear" /\ "clear" \notin overlaps
  BY <1>1, OverlapFacts, <1>0 DEF Clearing, Moves
<1>4. CASE msg[w].op = "clear"
  <2>1. pc[w] = "clearCount" /\ pc'[w] = "idle"
    BY <1>0, <1>1, <1>3, <1>4 DEF Moves, Jumps, Shape, ClearPCs
  <2>2. Hashed = {} /\ \A v \in Writers : v # w => pc[v] = "idle"
    BY <1>0, <1>3, <1>4, <2>1 DEF ClearsAlone
  <2>3. \A e \in Entries : memory'[e] = memory[e]
    BY <1>1, <2>1 DEF Life
  <2>4. Unhashed = {}
    BY <1>0, <2>1, <2>2 DEF Ownership
  <2>5. Hashed' = {} /\ Unhashed' = {}
    BY <2>2, <2>3, <2>4 DEF Hashed, Unhashed
  <2>6. Linking' = {}
    BY <1>1, <2>1, <2>2 DEF Linking, OnlyMoves
  <2>7. count' = 0
    BY <1>1, <2>1 DEF Counts
  <2> QED
    BY <2>5, <2>6, <2>7, FS_EmptySet
<1>5. CASE msg[w].op # "clear"
  <2>1. ~Clearing
    BY <1>1, <1>5 DEF Clearing, OnlyMoves
  <2>2. count = Cardinality(Hashed) + Cardinality(Unhashed) - Cardinality(Linking)
    BY <1>0, <1>3, <2>1 DEF CountExact, Unhashed, Linking
  <2>3. pc[w] \notin ClearPCs
    BY <1>0, <1>5 DEF Shape
  <2>4. CASE pc[w] = "hash" /\ pc'[w] = "link"
    <3>1. held[w] \in Entries /\ memory[held[w]] = "private" /\ memory'[held[w]] = "hashed"
      BY <1>0, <1>1, <2>4 DEF Holds, TypeOK, Births
    <3>2. \A e \in Entries : e # held[w] => memory'[e] = memory[e]
      BY <1>1, <2>4 DEF Life
    <3>3. Hashed' = Hashed \cup {held[w]} /\ held[w] \notin Hashed /\ Unhashed' = Unhashed
      BY <3>1, <3>2 DEF Hashed, Unhashed
    <3>4. Linking' = Linking \cup {w} /\ w \notin Linking
      BY <1>1, <2>4 DEF Linking, OnlyMoves
    <3>5. count' = count
      BY <1>1, <2>4 DEF Counts
    <3>6. Cardinality(Hashed') = Cardinality(Hashed) + 1
      BY <1>2, <3>3, FS_AddElement
    <3>7. Cardinality(Linking') = Cardinality(Linking) + 1
      BY <1>2, <3>4, FS_AddElement
    <3> QED
      BY <1>2, <2>2, <3>3, <3>5, <3>6, <3>7
  <2>5. CASE pc[w] = "count"
    <3>1. pc'[w] = "idle" /\ \A e \in Entries : memory'[e] = memory[e]
      BY <1>1, <2>5 DEF Moves, Jumps, Life
    <3>2. Hashed' = Hashed /\ Unhashed' = Unhashed
      BY <3>1 DEF Hashed, Unhashed
    <3>3. Linking' = Linking \ {w} /\ w \in Linking
      BY <1>1, <2>5, <3>1 DEF Linking, OnlyMoves
    <3>4. Cardinality(Linking') = Cardinality(Linking) - 1
      BY <1>2, <3>3, FS_RemoveElement
    <3>5. count' = count + 1
      BY <1>1, <2>5 DEF Counts
    <3> QED
      BY <1>2, <2>2, <3>2, <3>4, <3>5
  <2>6. CASE pc[w] = "unhash" /\ pc'[w] = "unlink"
    <3> DEFINE e == held'[w]
    <3>1. e \in Entries /\ memory[e] = "hashed" /\ memory'[e] = "unhashed"
      BY <1>1, <2>6 DEF Births, Moves, Jumps
    <3>2. \A d \in Entries : d # e => memory'[d] = memory[d]
      BY <1>1, <2>6 DEF Life
    <3>3. /\ Hashed' = Hashed \ {e} /\ e \in Hashed
          /\ Unhashed' = Unhashed \cup {e} /\ e \notin Unhashed
      BY <3>1, <3>2 DEF Hashed, Unhashed
    <3>4. Linking' = Linking
      BY <1>1, <2>6 DEF Linking, OnlyMoves
    <3>5. count' = count
      BY <1>1, <2>6 DEF Counts
    <3> HIDE DEF e
    <3>6. Cardinality(Hashed') = Cardinality(Hashed) - 1
      BY <1>2, <3>3, FS_RemoveElement
    <3>7. Cardinality(Unhashed') = Cardinality(Unhashed) + 1
      BY <1>2, <3>3, FS_AddElement
    <3> QED
      BY <1>2, <2>2, <3>4, <3>5, <3>6, <3>7
  <2>7. CASE pc[w] = "free"
    <3>1. held[w] \in Entries /\ memory[held[w]] = "unhashed" /\ memory'[held[w]] = "freed"
      BY <1>0, <1>1, <2>7 DEF Holds, TypeOK, Births
    <3>2. \A e \in Entries : e # held[w] => memory'[e] = memory[e]
      BY <1>1, <2>7 DEF Life
    <3>3. Unhashed' = Unhashed \ {held[w]} /\ held[w] \in Unhashed /\ Hashed' = Hashed
      BY <3>1, <3>2 DEF Hashed, Unhashed
    <3>4. pc'[w] \in {"scan", "idle"}
      BY <1>1, <2>7 DEF Moves, Jumps
    <3>5. Linking' = Linking
      BY <1>1, <2>7, <3>4 DEF Linking, OnlyMoves
    <3>6. count' = count - 1
      BY <1>1, <2>7 DEF Counts
    <3>7. Cardinality(Unhashed') = Cardinality(Unhashed) - 1
      <4> DEFINE e == held[w]
      <4>1. IsFiniteSet(Unhashed) /\ e \in Unhashed /\ Unhashed' = Unhashed \ {e}
        BY <1>2, <3>3
      <4> HIDE DEF e
      <4> QED
        BY <4>1, FS_RemoveElement
    <3> QED
      BY <1>2, <2>2, <3>3, <3>5, <3>6, <3>7
  <2>8. CASE /\ pc[w] \notin {"count", "free"}
             /\ ~(pc[w] = "hash" /\ pc'[w] = "link")
             /\ ~(pc[w] = "unhash" /\ pc'[w] = "unlink")
    <3>1. \A e \in Entries :
            \/ memory'[e] = memory[e]
            \/ memory[e] \notin {"hashed", "unhashed"} /\ memory'[e] \notin {"hashed", "unhashed"}
      <4>1. pc[w] = "hash" => held[w] \in Entries /\ memory[held[w]] = "private"
        BY <1>0 DEF Holds, TypeOK
      <4> QED
        BY <1>1, <2>3, <2>8, <4>1 DEF Life, ClearPCs
    <3>2. Hashed' = Hashed /\ Unhashed' = Unhashed
      BY <3>1 DEF Hashed, Unhashed
    <3>3. pc[w] \in {"link", "count"} <=> pc'[w] \in {"link", "count"}
      BY <1>1, <2>8 DEF Moves, Jumps
    <3>4. Linking' = Linking
      BY <1>1, <3>3 DEF Linking, OnlyMoves
    <3>5. count' = count
      BY <1>1, <2>3, <2>8 DEF Counts, ClearPCs
    <3> QED
      BY <2>2, <3>2, <3>4, <3>5
  <2> QED
    BY <2>4, <2>5, <2>6, <2>7, <2>8
<1> QED
  BY <1>4, <1>5

----------------------------------------------------------------------------
(* The LRU list. *)

Exact ==
    /\ IsInjective(lru)
    /\ Hashed \ Unlinked \subseteq Range(lru)
    /\ \A e \in Range(lru) : memory[e] \in {"hashed", "unhashed"}
    /\ \A e \in linked : Allocated(e) => e \in Range(lru)

Unclear == ~Clearing /\ "clear" \notin overlaps

LEMMA ExactList ==
    CacheInv /\ Unclear /\ ~corrupted => Exact
BY DEF CacheInv, LruExact, LinkedInList, Exact, Unclear

\* Steps of a clear that has not ended, or that overlapped, are left out; the last
\* one leaves an empty list beside empty buckets.
LEMMA ClearEnds ==
    ASSUME CacheInv, NEW w \in Writers, Effect(w), Unclear', msg[w].op = "clear"
    PROVE  /\ pc[w] = "clearCount" /\ lru = <<>> /\ Hashed = {} /\ Unhashed = {}
           /\ UNCHANGED <<lru, linked>> /\ \A e \in Entries : memory'[e] = memory[e]
<1>0. TypeOK /\ Ownership /\ ClearsAlone /\ Shape(w)
  BY WriterShape DEF CacheInv, BucketsExact
<1>1. Moves(w) /\ Links(w) /\ \A e \in Entries : Life(w, e)
  BY DEF Effect, Lives, Lists
<1>2. msg'[w].op # "clear" /\ "clear" \notin overlaps'
  BY DEF Unclear, Clearing
<1>3. pc[w] = "clearCount" /\ overlaps' = overlaps
  BY <1>0, <1>1, <1>2 DEF Moves, Jumps, Shape, ClearPCs
<1>4. lru = <<>> /\ Hashed = {} /\ \A v \in Writers : v # w => pc[v] = "idle"
  BY <1>0, <1>2, <1>3 DEF ClearsAlone
<1>5. Unhashed = {}
  BY <1>0, <1>3, <1>4 DEF Ownership
<1>6. UNCHANGED <<lru, linked>> /\ \A e \in Entries : memory'[e] = memory[e]
  BY <1>1, <1>3 DEF Links, Life
<1> QED
  BY <1>3, <1>4, <1>5, <1>6

LEMMA UnclearBefore ==
    ASSUME CacheInv, NEW w \in Writers, Effect(w), Unclear', msg[w].op # "clear"
    PROVE  Unclear /\ pc[w] \notin ClearPCs
<1>0. TypeOK /\ Shape(w)
  BY WriterShape DEF CacheInv, BucketsExact
<1>1. Moves(w) /\ OnlyMoves(w)
  BY DEF Effect
<1>2. "clear" \notin overlaps
  BY <1>0, <1>1, OverlapFacts DEF Unclear, Moves
<1> QED
  BY <1>0, <1>1, <1>2 DEF Unclear, Clearing, OnlyMoves, Shape

LEMMA EffectLru ==
    ASSUME CacheInv, NEW w \in Writers, Effect(w)
    PROVE  LruExact' /\ LinkedInList'
<1> SUFFICES ASSUME Unclear', ~corrupted' PROVE Exact'
  BY DEF LruExact, LinkedInList, Exact, Unclear
<1>0. TypeOK /\ Ownership /\ ~corrupted /\ Holds(w) /\ Shape(w)
  BY WriterShape DEF CacheInv, BucketsExact, Effect
<1>1. /\ Moves(w) /\ OnlyMoves(w) /\ Births(w) /\ Links(w)
      /\ \A e \in Entries : Life(w, e)
      /\ ListTypes'
      /\ pc[w] = "free" => held[w] \notin Range(lru)
  BY DEF Effect, Lives, Lists
<1>2. linked \subseteq Entries /\ lru \in Seq(linked) /\ Range(lru) \subseteq linked
  BY <1>0 DEF TypeOK, Range
<1>3. CASE msg[w].op = "clear"
  <2>1. /\ lru' = <<>> /\ linked' = linked
        /\ \A e \in Entries : memory'[e] = memory[e] /\ memory'[e] \notin {"hashed", "unhashed"}
    BY <1>3, ClearEnds DEF Hashed, Unhashed
  <2>2. \A e \in linked : memory[e] # "private"
    BY <1>0 DEF Ownership
  <2>3. IsInjective(lru') /\ Range(lru') = {}
    BY <2>1 DEF IsInjective, Range
  <2> QED
    BY <1>2, <2>1, <2>2, <2>3 DEF Exact, Hashed, Allocated
<1>4. CASE msg[w].op # "clear"
  <2>1. Exact /\ pc[w] \notin ClearPCs
    BY <1>0, <1>4, UnclearBefore, ExactList
  <2>2. CASE pc[w] = "link"
    <3> DEFINE e == held[w]
    <3>1. /\ e \in Entries /\ e \notin linked /\ memory[e] \in {"hashed", "unhashed"}
          /\ lru' = Append(lru, e) /\ linked' = linked \cup {e}
      BY <1>0, <1>1, <2>2 DEF Links, Holds, Allocated
    <3>2. \A d \in Entries : memory'[d] = memory[d]
      BY <1>1, <2>2 DEF Life
    <3>3. \A d \in Unlinked : d = e \/ d \in Unlinked'
      BY <1>1 DEF Unlinked, OnlyMoves
    <3> HIDE DEF e
    <3>4. Range(lru') = Range(lru) \cup {e} /\ IsInjective(lru')
      <4>1. lru \in Seq(Entries) /\ e \notin Range(lru)
        BY <1>2, <3>1
      <4> QED
        BY <2>1, <3>1, <4>1, RangeAppend DEF Exact
    <3> QED
      BY <1>2, <2>1, <3>1, <3>2, <3>3, <3>4 DEF Exact, Hashed, Allocated
  <2>3. CASE pc[w] = "unlink"
    <3> DEFINE e == held[w]
    <3>1. e \in Entries /\ memory[e] = "unhashed"
      BY <1>0, <2>3 DEF Holds, TypeOK
    <3>2. \A d \in Entries : memory'[d] = memory[d]
      BY <1>1, <2>3 DEF Life
    <3>3. Unlinked \subseteq Unlinked'
      BY <1>1, <2>3 DEF Unlinked, OnlyMoves
    <3>4. \/ UNCHANGED <<lru, linked>>
          \/ lru' = Without(lru, {e}) /\ linked' = linked \ {e}
      BY <1>1, <2>3 DEF Links
    <3> HIDE DEF e
    <3>5. CASE UNCHANGED <<lru, linked>>
      BY <1>2, <2>1, <3>2, <3>3, <3>5 DEF Exact, Hashed, Allocated
    <3>6. CASE lru' = Without(lru, {e}) /\ linked' = linked \ {e}
      <4>1. Range(lru') = Range(lru) \ {e} /\ IsInjective(lru')
        BY <1>2, <2>1, <3>6, RangeWithout DEF Exact
      <4> QED
        BY <1>2, <2>1, <3>1, <3>2, <3>3, <3>6, <4>1 DEF Exact, Hashed, Allocated
    <3> QED
      BY <3>4, <3>5, <3>6
  <2>4. CASE pc[w] \notin {"link", "unlink"}
    <3>1. UNCHANGED <<lru, linked>>
      BY <1>1, <2>1, <2>4 DEF Links, ClearPCs
    <3>2. pc[w] = "hash" => memory[held[w]] = "private"
      BY <1>0 DEF TypeOK
    <3>3. ASSUME NEW e \in Range(lru)
          PROVE  memory'[e] \in {"hashed", "unhashed"}
      <4>1. e \in Entries /\ memory[e] \in {"hashed", "unhashed"}
        BY <1>2, <2>1, <3>3 DEF Exact
      <4> QED
        BY <1>1, <2>1, <3>2, <3>3, <4>1 DEF Life, ClearPCs
    <3>4. ASSUME NEW e \in Hashed', e \notin Unlinked'
          PROVE  e \in Range(lru)
      <4>1. e \in Entries /\ memory'[e] = "hashed"
        BY DEF Hashed
      <4>2. memory[e] = "hashed"
        <5>1. ASSUME pc[w] = "hash", held[w] = e, pc'[w] = "link" PROVE FALSE
          <6>1. held'[w] = e
            BY <1>1, <5>1 DEF Moves, Jumps
          <6> QED
            BY <3>4, <5>1, <6>1 DEF Unlinked
        <5> QED
          BY <1>1, <4>1, <5>1 DEF Life
      <4>3. e \notin Unlinked
        BY <1>1, <2>4, <3>4 DEF Unlinked, OnlyMoves
      <4> QED
        BY <2>1, <4>1, <4>2, <4>3 DEF Exact, Hashed
    <3>5. ASSUME NEW e \in linked, Allocated(e)'
          PROVE  e \in Range(lru)
      <4>1. e \in Entries /\ memory[e] \notin {"unused", "private"}
        BY <1>0, <1>2 DEF Ownership
      <4>2. memory'[e] \in {"private", "hashed", "unhashed"}
        BY <3>5 DEF Allocated
      <4>3. Allocated(e)
        BY <1>1, <3>2, <4>1, <4>2 DEF Life, Allocated
      <4> QED
        BY <2>1, <4>3 DEF Exact
    <3> QED
      BY <2>1, <3>1, <3>3, <3>4, <3>5 DEF Exact
  <2> QED
    BY <2>2, <2>3, <2>4
<1> QED
  BY <1>3, <1>4

LEMMA TouchedList ==
    ASSUME CacheInv, Touches
    PROVE  /\ Range(lru') \subseteq Range(lru) \cup Hashed
           /\ Exact => Range(lru') = Range(lru) /\ IsInjective(lru')
<1>0. lru \in Seq(linked)
  BY DEF CacheInv, BucketsExact, TypeOK
<1>1. CASE lru' = lru
  BY <1>1 DEF Exact
<1>2. ASSUME NEW e \in Hashed \cap linked, lru' = Append(Without(lru, {e}), e)
      PROVE  /\ Range(lru') = Range(lru) \cup {e}
             /\ Exact => Range(lru') = Range(lru) /\ IsInjective(lru')
  <2> DEFINE l == Without(lru, {e})
  <2>1. /\ l \in Seq(linked) /\ Range(l) = Range(lru) \ {e} /\ lru' = Append(l, e)
        /\ IsInjective(lru) => IsInjective(l)
    BY <1>0, <1>2, RangeWithout
  <2> HIDE DEF l
  <2>2. Range(lru') = Range(l) \cup {e} /\ (IsInjective(l) => IsInjective(lru'))
    BY <2>1, RangeAppend
  <2>3. Exact => e \in Range(lru)
    BY DEF Exact, Hashed, Allocated
  <2> QED
    BY <2>1, <2>2, <2>3 DEF Exact
<1> QED
  BY <1>1, <1>2 DEF Touches

LEMMA TouchLru ==
    ASSUME CacheInv, Touches, ~corrupted
    PROVE  LruExact' /\ LinkedInList'
<1> SUFFICES ASSUME Unclear', ~corrupted' PROVE Exact'
  BY DEF LruExact, LinkedInList, Exact, Unclear
<1>1. UNCHANGED <<memory, linked, msg, pc, held, overlaps>>
  BY DEF Touches
<1>2. Unclear
  BY <1>1 DEF Unclear, Clearing
<1>3. Exact
  BY <1>2, ExactList
<1>4. Range(lru') = Range(lru) /\ IsInjective(lru')
  BY <1>3, TouchedList
<1> QED
  BY <1>1, <1>3, <1>4 DEF Exact, Hashed, Unlinked, Allocated

----------------------------------------------------------------------------
(* No use of freed memory while messages come one by one. *)

\* A list whose elements are allocated can be changed anywhere.
LEMMA SafeList ==
    ASSUME TypeOK, Exact
    PROVE  /\ TailIntact(lru)
           /\ \A e \in linked : Allocated(e) =>
                Unlinkable(e) /\ TailIntact(Without(lru, {e}))
           /\ \A e \in Range(lru) : Allocated(e)
<1>0. lru \in Seq(linked) /\ DOMAIN lru = 1 .. Len(lru) /\ Len(lru) \in Nat
  BY DEF TypeOK
<1>1. \A e \in Range(lru) : Allocated(e)
  BY DEF Exact, Allocated
<1>2. ASSUME NEW l \in Seq(linked), Range(l) \subseteq Range(lru)
      PROVE  TailIntact(l)
  <2>1. l = <<>> \/ Len(l) \in DOMAIN l
    BY <1>2
  <2> QED
    BY <1>1, <1>2, <2>1 DEF TailIntact, Range
<1>3. ASSUME NEW e \in linked, Allocated(e)
      PROVE  Unlinkable(e) /\ TailIntact(Without(lru, {e}))
  <2>1. e \in Range(lru)
    BY <1>3 DEF Exact
  <2>2. Unlinkable(e)
    BY <1>0, <1>1, <2>1 DEF Unlinkable, Range
  <2>3. TailIntact(Without(lru, {e}))
    <3> DEFINE l == Without(lru, {e})
    <3>1. l \in Seq(linked) /\ Range(l) = Range(lru) \ {e}
      BY <1>0, RangeWithout
    <3> HIDE DEF l
    <3>2. TailIntact(l)
      BY <1>2, <3>1
    <3> QED
      BY <3>2 DEF l
  <2> QED
    BY <2>2, <2>3
<1> QED
  BY <1>0, <1>1, <1>2, <1>3

LEMMA EffectSafe ==
    ASSUME CacheInv, NEW w \in Writers, Effect(w)
    PROVE  SafeIfSerial'
<1> SUFFICES ASSUME corrupted', overlaps' = {}, ~Clearing' PROVE FALSE
  BY DEF SafeIfSerial
<1>0. TypeOK /\ Holds(w) /\ Serial
  BY DEF CacheInv, BucketsExact
<1>1. Moves(w) /\ OnlyMoves(w) /\ Corrupts(w) /\ ~corrupted
  BY DEF Effect, Lists
<1>2. overlaps = {} /\ Unclear'
  BY <1>0, <1>1, OverlapFacts DEF Moves, Unclear
<1>3. /\ \/ pc[w] = "evict" /\ \E e \in Range(lru) : ~Allocated(e)
         \/ pc[w] = "link" /\ (~Allocated(held[w]) \/ ~TailIntact(lru))
         \/ pc[w] = "unlink" /\ held[w] \in linked /\ ~Unlinkable(held[w])
         \/ pc[w] = "free" /\ held[w] \in Range(lru)
  BY <1>1 DEF Corrupts
<1>4. msg[w].op # "clear"
  BY <1>0, <1>3, WriterShape DEF Shape, ClearPCs
<1>5. Exact
  BY <1>1, <1>2, <1>4, UnclearBefore, ExactList
<1>6. CASE pc[w] = "evict"
  BY <1>0, <1>3, <1>5, <1>6, SafeList
<1>7. CASE pc[w] = "link"
  <2>1. Allocated(held[w])
    BY <1>0, <1>1, <1>2, <1>7 DEF Serial, Allocated
  <2> QED
    BY <1>0, <1>3, <1>5, <1>7, <2>1, SafeList
<1>8. CASE pc[w] = "unlink"
  <2>1. Allocated(held[w])
    BY <1>0, <1>8 DEF TypeOK, Allocated
  <2> QED
    BY <1>0, <1>3, <1>5, <1>8, <2>1, SafeList
<1>9. CASE pc[w] = "free"
  BY <1>0, <1>1, <1>2, <1>3, <1>9 DEF Serial
<1> QED
  BY <1>3, <1>6, <1>7, <1>8, <1>9

LEMMA TouchSafe ==
    ASSUME CacheInv, Touches, ~corrupted
    PROVE  SafeIfSerial'
<1> SUFFICES ASSUME corrupted', overlaps' = {}, ~Clearing' PROVE FALSE
  BY DEF SafeIfSerial
<1>1. UNCHANGED <<msg, overlaps>>
  BY DEF Touches
<1>2. Exact /\ TypeOK
  BY <1>1, ExactList DEF Unclear, Clearing, CacheInv, BucketsExact
<1>3. PICK e \in Hashed \cap linked : ~(Unlinkable(e) /\ TailIntact(Without(lru, {e})))
  BY DEF Touches
<1>4. Allocated(e)
  BY DEF Hashed, Allocated
<1> QED
  BY <1>2, <1>3, <1>4, SafeList

----------------------------------------------------------------------------
(* One message after the other. *)

\* A step that overlaps with nothing has the cache for itself.
LEMMA AloneNow ==
    ASSUME CacheInv, NEW w \in Writers, Effect(w), overlaps' = {}
    PROVE  /\ overlaps = {} /\ \A v \in Writers : v # w => pc[v] = "idle" /\ pc'[v] = "idle"
           /\ pc[w] \notin {"unlink", "free"} => Unhashed = {}
           /\ pc[w] \notin {"link", "count"} => Linking = {} /\ Unlinked = {}
<1>0. TypeOK /\ OneAtATime /\ Ownership
  BY DEF CacheInv, BucketsExact
<1>1. Moves(w) /\ OnlyMoves(w)
  BY DEF Effect
<1>2. \/ pc[w] = "idle" /\ overlaps' = Overlap(w, msg'[w].op)
      \/ pc[w] # "idle" /\ overlaps' = overlaps
  BY <1>1 DEF Moves, Jumps
<1>3. overlaps = {} /\ \A v \in Writers : v # w => pc[v] = "idle"
  BY <1>0, <1>2, OverlapFacts DEF OneAtATime
<1>4. \A v \in Writers : v # w => pc'[v] = "idle"
  BY <1>1, <1>3 DEF OnlyMoves
<1>5. pc[w] \notin {"unlink", "free"} => Unhashed = {}
  BY <1>0, <1>3 DEF Ownership
<1>6. pc[w] \notin {"link", "count"} => Linking = {} /\ Unlinked = {}
  BY <1>3 DEF Linking, Unlinked
<1> QED
  BY <1>3, <1>4, <1>5, <1>6

\* Only publishing an entry makes the buckets fuller, and only that, or writing into
\* one that is there, makes an entry one that can be evicted.
LEMMA Grows ==
    ASSUME CacheInv, NEW w \in Writers, Effect(w)
    PROVE  \/ Hashed' \subseteq Hashed /\ Loose' \subseteq Loose
           \/ /\ pc[w] = "hash" /\ pc'[w] = "link" /\ held[w] \in Entries
              /\ Hashed' = Hashed \cup {held[w]} /\ held[w] \notin Hashed
              /\ Loose' \subseteq Loose \cup {held[w]}
           \/ /\ pc[w] \in {"update", "hash"} /\ pc'[w] = "idle" /\ Hashed' = Hashed
              /\ \E e \in Hashed : Loose' \subseteq Loose \cup {e}
<1>0. TypeOK /\ Holds(w)
  BY DEF CacheInv, BucketsExact
<1>1. Births(w) /\ \A e \in Entries : Life(w, e) /\ Writes(w, e)
  BY DEF Effect, Lives
<1>2. pc[w] = "hash" => held[w] \in Entries /\ memory[held[w]] = "private"
  BY <1>0 DEF Holds, TypeOK
<1>3. CASE pc[w] = "hash" /\ pc'[w] = "link"
  <2>1. \A e \in Entries : e # held[w] => memory'[e] = memory[e]
    BY <1>1, <1>3 DEF Life
  <2>2. policy' = policy /\ memory'[held[w]] = "hashed"
    BY <1>1, <1>3 DEF Births
  <2>3. Hashed' = Hashed \cup {held[w]} /\ held[w] \notin Hashed
    BY <1>2, <1>3, <2>1, <2>2 DEF Hashed
  <2>4. Loose' \subseteq Loose \cup {held[w]}
    BY <2>2, <2>3 DEF Loose
  <2> QED
    BY <1>2, <1>3, <2>3, <2>4
<1>4. CASE ~(pc[w] = "hash" /\ pc'[w] = "link")
  <2>1. \A e \in Entries : memory'[e] = "hashed" => memory[e] = "hashed"
    BY <1>1, <1>4 DEF Life
  <2>2. Hashed' \subseteq Hashed
    BY <2>1 DEF Hashed
  <2>3. CASE \A e \in Hashed' : policy'[e] = policy[e]
    BY <2>2, <2>3 DEF Loose
  <2>4. ASSUME NEW e \in Hashed', policy'[e] # policy[e]
        PROVE  /\ pc[w] \in {"update", "hash"} /\ pc'[w] = "idle" /\ Hashed' = Hashed
               /\ e \in Hashed /\ Loose' \subseteq Loose \cup {e}
    <3>1. e \in Entries /\ memory'[e] = "hashed" /\ memory[e] = "hashed"
      BY <2>2 DEF Hashed
    <3>2. /\ pc[w] \in {"update", "hash"} /\ pc'[w] = "idle"
          /\ \A d \in Entries : d = e \/ policy'[d] = policy[d] \/ memory'[d] = "freed"
      <4>1. ~(pc[w] = "allocate" /\ pc'[w] = "hash" /\ held'[w] = e)
        BY <1>1, <3>1 DEF Births
      <4>2. Writes(w, e)
        BY <1>1, <3>1
      <4> QED
        BY <2>4, <3>1, <4>1, <4>2 DEF Writes
    <3>3. \A d \in Entries : memory[d] = "hashed" => memory'[d] = "hashed"
      BY <1>1, <1>2, <3>2 DEF Life
    <3>4. Hashed' = Hashed
      BY <2>2, <3>3 DEF Hashed
    <3>5. \A d \in Hashed' : d = e \/ policy'[d] = policy[d]
      BY <3>2 DEF Hashed
    <3> QED
      BY <2>2, <3>1, <3>2, <3>4, <3>5 DEF Loose, Hashed
  <2> QED
    BY <2>2, <2>3, <2>4
<1> QED
  BY <1>3, <1>4

LEMMA EffectLimit ==
    ASSUME CacheInv, NEW w \in Writers, Effect(w), overlaps' = {}
    PROVE  Limit'
<1>0. TypeOK /\ Serial /\ ~corrupted /\ overlaps = {}
  BY AloneNow DEF CacheInv, BucketsExact, Effect
<1>1. Limit /\ (pc[w] \in {"update", "hash"} => Room)
  BY <1>0 DEF Serial
<1>2. /\ Hashed \in SUBSET Entries /\ IsFiniteSet(Hashed) /\ Cardinality(Hashed) \in Nat
      /\ Hashed' \in SUBSET Entries /\ IsFiniteSet(Hashed') /\ Cardinality(Hashed') \in Nat
      /\ MaxEntries \in Nat
  <2>1. Hashed \in SUBSET Entries /\ Hashed' \in SUBSET Entries
    BY DEF Hashed
  <2> QED
    BY <2>1, Sizes, PolicyTypes
<1>3. CASE Hashed' \subseteq Hashed /\ Loose' \subseteq Loose
  <2>1. Cardinality(Hashed') <= Cardinality(Hashed)
    BY <1>2, <1>3, FS_Subset
  <2> QED
    BY <1>1, <1>2, <1>3, <2>1 DEF Limit
<1>4. CASE /\ pc[w] = "hash" /\ Hashed' = Hashed \cup {held[w]} /\ held[w] \notin Hashed
           /\ Loose' \subseteq Loose \cup {held[w]}
  <2> DEFINE e == held[w]
  <2>1. Hashed' = Hashed \cup {e} /\ e \notin Hashed /\ Loose' \subseteq Loose \cup {e}
    BY <1>4
  <2> HIDE DEF e
  <2>2. Cardinality(Hashed') = Cardinality(Hashed) + 1
    BY <1>2, <2>1, FS_AddElement
  <2>3. CASE Cardinality(Hashed) < MaxEntries
    BY <1>2, <2>2, <2>3 DEF Limit
  <2>4. CASE Loose = {}
    BY <2>1, <2>4 DEF Limit
  <2> QED
    BY <1>1, <1>4, <2>3, <2>4 DEF Room
<1>5. ASSUME NEW e \in Hashed, Hashed' = Hashed, Loose' \subseteq Loose \cup {e},
             pc[w] \in {"update", "hash"}
      PROVE  Limit'
  <2>1. CASE Cardinality(Hashed) < MaxEntries
    BY <1>2, <1>5, <2>1 DEF Limit
  <2>2. CASE Loose = {}
    BY <1>5, <2>2 DEF Limit
  <2> QED
    BY <1>1, <1>5, <2>1, <2>2 DEF Room
<1> QED
  BY <1>3, <1>4, <1>5, Grows

\* The victim of an eviction is in a bucket, alone for its file, and not pinned.
LEMMA Victim ==
    ASSUME CacheInv, NEW w \in Writers, Effect(w), overlaps' = {},
           pc[w] = "evict", pc'[w] = "unhash"
    PROVE  Find(target[w])' # {} /\ (Find(target[w]) \subseteq Loose)'
<1>0. TypeOK /\ OnePerFile /\ ~corrupted /\ overlaps = {} /\ Unhashed = {}
  BY AloneNow DEF CacheInv, BucketsExact, Effect
<1>1. Moves(w) /\ OnlyMoves(w) /\ Chooses(w) /\ \A e \in Entries : Life(w, e) /\ Writes(w, e)
  BY DEF Effect, Lives
<1>2. Exact
  <2>1. msg[w].op # "clear" /\ msg'[w].op # "clear"
    BY <1>0, <1>1, WriterShape DEF Moves, Jumps, Shape, InsertPCs
  <2>2. Unclear'
    <3>1. \A v \in Writers : v # w => msg'[v].op # "clear"
      BY <1>0, <1>1, AloneNow, WriterShape DEF Shape, OnlyMoves
    <3> QED
      BY <2>1, <3>1 DEF Unclear, Clearing
  <2> QED
    BY <1>0, <2>1, <2>2, UnclearBefore, ExactList
<1>3. PICK e \in Range(lru) : ~policy[e].pinned /\ target'[w] = policy[e].file
  BY <1>1 DEF Chooses
<1>4. e \in Hashed
  <2>1. e \in Entries
    BY <1>0, <1>3 DEF TypeOK, Range
  <2> QED
    BY <1>0, <1>2, <1>3, <2>1 DEF Exact, Hashed, Unhashed
<1>5. \A d \in Entries : memory'[d] = memory[d] /\ (d \in Hashed => policy'[d] = policy[d])
  <2>1. \A d \in Entries : memory'[d] = memory[d]
    BY <1>1 DEF Life
  <2> QED
    BY <1>1, <2>1 DEF Writes, Hashed
<1>6. Hashed' = Hashed
  BY <1>5 DEF Hashed
<1>7. \A d \in Hashed : policy[d].file = policy[e].file => d = e
  BY <1>0, <1>4 DEF OnePerFile
<1>8. \A d \in Hashed : policy'[d] = policy[d]
  BY <1>5 DEF Hashed
<1>9. Find(target[w])' = {e}
  BY <1>3, <1>4, <1>6, <1>7, <1>8 DEF Find
<1>10. e \in Loose'
  BY <1>3, <1>4, <1>6, <1>8 DEF Loose
<1> QED
  BY <1>9, <1>10

\* Whoever goes on to add an entry has room for it.
LEMMA EffectRoom ==
    ASSUME CacheInv, NEW w \in Writers, Effect(w), overlaps' = {},
           \/ pc'[w] \in {"scan", "update", "allocate", "hash"}
           \/ pc'[w] \in {"unlink", "free"} /\ msg'[w].op = "insert"
    PROVE  Room'
<1>0. /\ TypeOK /\ CountExact /\ Serial /\ Shape(w) /\ ~corrupted /\ overlaps = {}
      /\ \A v \in Writers : v # w => pc[v] = "idle"
  BY AloneNow, WriterShape DEF CacheInv, BucketsExact, Effect
<1>1. /\ Moves(w) /\ OnlyMoves(w) /\ Chooses(w) /\ Births(w)
      /\ \A e \in Entries : Life(w, e) /\ Writes(w, e)
  BY DEF Effect, Lives
<1>2. /\ Hashed \in SUBSET Entries /\ IsFiniteSet(Hashed) /\ Cardinality(Hashed) \in Nat
      /\ MaxEntries \in Nat /\ count \in Int
  <2>1. Hashed \in SUBSET Entries
    BY DEF Hashed
  <2> QED
    BY <1>0, <2>1, Sizes, PolicyTypes DEF TypeOK
<1>3. Hashed' \subseteq Hashed /\ Loose' \subseteq Loose
  <2>1. pc[w] \notin {"update", "hash"} \/ (pc'[w] # "idle" /\ pc'[w] # "link")
    BY <1>1 DEF Moves, Jumps
  <2> QED
    BY <2>1, Grows
<1>4. Cardinality(Hashed') <= Cardinality(Hashed) /\ Cardinality(Hashed') \in Nat
  <2>1. Hashed' \in SUBSET Entries
    BY <1>2, <1>3
  <2> QED
    BY <1>2, <1>3, <2>1, FS_Subset, Sizes
<1>5. ASSUME Room PROVE Room'
  BY <1>2, <1>3, <1>4, <1>5 DEF Room
<1>6. msg[w].op = "insert" /\ pc[w] \in InsertPCs \cup RemovePCs
  BY <1>0, <1>1 DEF Moves, Jumps, Shape, Idle, InsertPCs, RemovePCs, ClearPCs
<1>7. Unclear
  <2>1. \A v \in Writers : msg[v].op # "clear"
    BY <1>0, <1>6, WriterShape DEF Shape
  <2> QED
    BY <1>0, <2>1 DEF Unclear, Clearing
<1>8. CASE pc[w] = "full"
  <2>1. pc'[w] = "scan"
    BY <1>1, <1>8 DEF Moves, Jumps
  <2>2. count < MaxEntries
    BY <1>1, <1>8, <2>1 DEF Chooses
  <2>3. Linking = {} /\ Unhashed = {}
    BY <1>8, AloneNow
  <2>4. count = Cardinality(Hashed)
    <3>1. count = Cardinality(Hashed) + Cardinality(Unhashed) - Cardinality(Linking)
      BY <1>0, <1>7 DEF CountExact, Unclear, Unhashed, Linking
    <3> QED
      BY <1>2, <2>3, <3>1, FS_EmptySet
  <2> QED
    BY <1>5, <2>2, <2>4 DEF Room
<1>9. CASE pc[w] = "evict"
  <2>1. pc'[w] = "scan"
    BY <1>1, <1>9 DEF Moves, Jumps
  <2>2. \A e \in Range(lru) : policy[e].pinned
    BY <1>1, <1>9, <2>1 DEF Chooses
  <2>3. Hashed \subseteq Range(lru)
    <3>1. Exact /\ Unlinked = {}
      BY <1>0, <1>7, <1>9, ExactList, AloneNow
    <3> QED
      BY <3>1 DEF Exact
  <2>4. Loose = {}
    BY <2>2, <2>3 DEF Loose
  <2> QED
    BY <1>5, <2>4 DEF Room
<1>10. CASE pc[w] = "unhash"
  <2>1. Find(target[w]) # {} /\ Find(target[w]) \subseteq Loose /\ Limit
    BY <1>0, <1>6, <1>10 DEF Serial
  <2>2. pc'[w] = "unlink"
    BY <1>1, <1>10, <2>1 DEF Births
  <2> DEFINE e == held'[w]
  <2>3. e \in Entries /\ memory[e] = "hashed" /\ memory'[e] = "unhashed"
    BY <1>1, <1>10, <2>2 DEF Births, Moves, Jumps
  <2>4. policy[e].file = target[w]
    BY <1>1, <1>10, <2>3 DEF Life
  <2> HIDE DEF e
  <2>5. e \in Loose /\ e \notin Hashed'
    BY <2>1, <2>3, <2>4 DEF Find, Hashed
  <2>6. Cardinality(Hashed') < Cardinality(Hashed)
    <3>1. Hashed' # Hashed
      BY <2>5 DEF Loose
    <3>2. Cardinality(Hashed') # Cardinality(Hashed)
      BY <1>2, <1>3, <3>1, FS_Subset
    <3> QED
      BY <1>2, <1>4, <3>2
  <2>7. CASE Cardinality(Hashed) <= MaxEntries
    BY <1>2, <1>4, <2>6, <2>7 DEF Room
  <2>8. CASE \A c, d \in Loose : c = d
    <3>1. Loose' = {}
      BY <1>3, <2>5, <2>8 DEF Loose
    <3> QED
      BY <3>1 DEF Room
  <2> QED
    BY <2>1, <2>7, <2>8 DEF Limit
<1>11. CASE pc[w] \in {"scan", "update", "allocate", "hash", "unlink", "free"}
  BY <1>0, <1>5, <1>6, <1>11 DEF Serial
<1>12. pc[w] \notin {"link", "count"}
  BY <1>1 DEF Moves, Jumps
<1> QED
  BY <1>6, <1>8, <1>9, <1>10, <1>11, <1>12 DEF InsertPCs, RemovePCs

LEMMA EffectSerial ==
    ASSUME CacheInv, NEW w \in Writers, Effect(w)
    PROVE  Serial'
<1> SUFFICES ASSUME overlaps' = {}, ~corrupted'
             PROVE  /\ Limit'
                    /\ \A v \in Writers :
                        /\ pc'[v] \in {"link", "count"} => memory'[held'[v]] = "hashed"
                        /\ pc'[v] = "free" => held'[v] \notin Range(lru')
                        /\ pc'[v] = "unhash" /\ msg'[v].op = "insert" =>
                            Find(target[v])' # {} /\ (Find(target[v]) \subseteq Loose)'
                        /\ \/ pc'[v] \in {"scan", "update", "allocate", "hash"}
                           \/ pc'[v] \in {"unlink", "free"} /\ msg'[v].op = "insert"
                           => Room'
  BY DEF Serial
<1>0. /\ TypeOK /\ Serial /\ Holds(w) /\ Shape(w) /\ ~corrupted /\ overlaps = {}
      /\ \A v \in Writers : v # w => pc'[v] = "idle"
  BY AloneNow, WriterShape DEF CacheInv, BucketsExact, Effect
<1>1. Moves(w) /\ Births(w) /\ Links(w) /\ \A e \in Entries : Life(w, e)
  BY DEF Effect, Lives, Lists
<1>2. pc'[w] \in {"link", "count"} => memory'[held'[w]] = "hashed"
  <2>1. CASE pc'[w] = "link"
    BY <1>1, <2>1 DEF Moves, Jumps, Births
  <2>2. CASE pc'[w] = "count"
    <3>1. pc[w] = "link" /\ held'[w] = held[w] /\ held[w] \in Entries
      BY <1>0, <1>1, <2>2 DEF Moves, Jumps, Holds
    <3>2. memory[held[w]] = "hashed"
      BY <1>0, <3>1 DEF Serial
    <3> QED
      BY <1>1, <3>1, <3>2 DEF Life
  <2> QED
    BY <2>1, <2>2
<1>3. pc'[w] = "free" => held'[w] \notin Range(lru')
  <2>1. SUFFICES ASSUME pc'[w] = "free" PROVE held'[w] \notin Range(lru')
    OBVIOUS
  <2>2. pc[w] = "unlink" /\ held'[w] = held[w]
    BY <1>1, <2>1 DEF Moves, Jumps
  <2>3. lru \in Seq(linked) /\ Range(lru) \subseteq linked
    BY <1>0 DEF TypeOK, Range
  <2>4. CASE held[w] \notin linked /\ lru' = lru
    BY <2>2, <2>3, <2>4
  <2>5. CASE lru' = Without(lru, {held[w]})
    <3> DEFINE l == Without(lru, {held[w]})
    <3>1. Range(l) = Range(lru) \ {held[w]}
      BY <2>3, RangeWithout
    <3> HIDE DEF l
    <3>2. lru' = l
      BY <2>5 DEF l
    <3> QED
      BY <2>2, <3>1, <3>2
  <2> QED
    BY <1>1, <2>2, <2>4, <2>5 DEF Links
<1>4. pc'[w] = "unhash" /\ msg'[w].op = "insert" =>
        Find(target[w])' # {} /\ (Find(target[w]) \subseteq Loose)'
  <2>1. pc'[w] = "unhash" /\ msg'[w].op = "insert" => pc[w] = "evict"
    BY <1>1 DEF Moves, Jumps
  <2> QED
    BY <2>1, Victim
<1>5. ASSUME NEW v \in Writers
      PROVE  /\ pc'[v] \in {"link", "count"} => memory'[held'[v]] = "hashed"
             /\ pc'[v] = "free" => held'[v] \notin Range(lru')
             /\ pc'[v] = "unhash" /\ msg'[v].op = "insert" =>
                 Find(target[v])' # {} /\ (Find(target[v]) \subseteq Loose)'
             /\ \/ pc'[v] \in {"scan", "update", "allocate", "hash"}
                \/ pc'[v] \in {"unlink", "free"} /\ msg'[v].op = "insert"
                => Room'
  <2>1. CASE v # w
    BY <1>0, <2>1
  <2>2. CASE v = w
    BY <1>2, <1>3, <1>4, <2>2, EffectRoom
  <2> QED
    BY <2>1, <2>2
<1> QED
  BY <1>5, EffectLimit

LEMMA TouchSerial ==
    ASSUME CacheInv, Touches, ~corrupted
    PROVE  Serial'
<1>0. TypeOK /\ Serial
  BY DEF CacheInv, BucketsExact
<1>1. UNCHANGED <<memory, policy, msg, pc, target, held, overlaps>>
  BY DEF Touches
<1>2. UNCHANGED <<Hashed, Loose>>
  BY <1>1 DEF Hashed, Loose
<1>3. Limit' = Limit /\ Room' = Room
  BY <1>2 DEF Limit, Room
<1>4. \A v \in Writers : Find(target[v])' = Find(target[v])
  BY <1>1, <1>2 DEF Find
<1>5. ASSUME NEW v \in Writers, pc[v] = "free", held[v] \notin Range(lru)
      PROVE  held[v] \notin Range(lru')
  <2>1. held[v] \notin Hashed
    BY <1>0, <1>5 DEF TypeOK, Hashed
  <2> QED
    BY <1>5, <2>1, TouchedList
<1> QED
  BY <1>0, <1>1, <1>2, <1>3, <1>4, <1>5 DEF Serial

----------------------------------------------------------------------------
(* The invariant. *)

LEMMA InitInv ==
    Init => CacheInv
<1> SUFFICES ASSUME Init PROVE CacheInv
  OBVIOUS
<1>1. /\ Hashed = {} /\ Unhashed = {} /\ Linking = {} /\ Range(lru) = {}
  <2>1. Hashed = {} /\ Unhashed = {} /\ Linking = {}
    BY DEF Init, Hashed, Unhashed, Linking
  <2>2. Range(lru) = {}
    BY DEF Init, Range
  <2> QED
    BY <2>1, <2>2
<1>2. WriterTypes
  <2>1. Blank.file \in Files /\ NEntries \in Nat /\ NBuckets \in Nat
    BY PolicyTypes
  <2>2. msg \in [Writers -> Messages]
    BY DEF Init, Messages
  <2> QED
    BY <2>1, <2>2 DEF Init, WriterTypes
<1>3. TypeOK
  <2>1. HeapTypes
    BY PolicyTypes DEF Init, HeapTypes
  <2>2. ListTypes
    <3>1. <<>> \in Seq({})
      OBVIOUS
    <3>2. look \in [Readers -> {{}} \cup {{f} : f \in Files}]
      BY DEF Init
    <3>3. linked = {} /\ lru = <<>> /\ overlaps = {}
      BY DEF Init
    <3>4. lru \in Seq(linked)
      <4>1. Seq(linked) = Seq({})
        BY <3>3, Zenon
      <4> QED
        BY <3>1, <3>3, <4>1, Zenon
    <3>5. linked \subseteq Entries /\ overlaps \subseteq {"any", "clear"}
      BY <3>3, Zenon
    <3>6. count \in Int
      <4>1. count = 0
        BY DEF Init
      <4> QED
        BY <4>1
    <3>7. corrupted \in BOOLEAN
      BY Zenon DEF Init
    <3> QED
      BY <3>2, <3>4, <3>5, <3>6, <3>7, Zenon DEF ListTypes
  <2>3. \A w \in Writers : pc[w] = "idle" /\ msg[w].op = "none" /\ held[w] = 0
    BY DEF Init, Idle
  <2>4. \A w \in Writers :
         /\ pc[w] \in PCs(msg[w].op)
         /\ pc[w] \notin {"hash", "link", "count", "unlink", "free"} => held[w] = 0
         /\ pc[w] = "hash" => memory[held[w]] = "private"
         /\ pc[w] \in {"link", "count"} => memory[held[w]] # "private"
         /\ pc[w] \in {"unlink", "free"} => memory[held[w]] = "unhashed"
    BY <2>3 DEF PCs
  <2> QED
    BY <1>2, <2>1, <2>2, <2>4 DEF TypeOK, WriterTypes, HeapTypes, ListTypes
<1>4. OnePerFile /\ CountExact
  <2>1. OnePerFile
    BY <1>1 DEF OnePerFile
  <2>2. count = 0
    BY DEF Init
  <2>3. CountExact
    BY <1>1, <2>2, FS_EmptySet DEF CountExact, Unhashed, Linking
  <2> QED
    BY <2>1, <2>3
<1>5. (\A w \in Writers : Holds(w)) /\ Ownership
  <2>1. \A w \in Writers : Holds(w)
    BY DEF Init, Holds, ClearPCs
  <2>2. Ownership
    BY <1>1 DEF Init, Ownership
  <2> QED
    BY <2>1, <2>2
<1>6. ClearsAlone /\ OneAtATime /\ LinkedInList /\ SafeIfSerial
  BY DEF Init, ClearsAlone, OneAtATime, LinkedInList, SafeIfSerial, Idle
<1>7. LruExact
  <2>1. IsInjective(lru)
    BY DEF Init, IsInjective
  <2> QED
    BY <1>1, <2>1 DEF LruExact
<1>8. Serial
  <2>1. Limit
    BY <1>1 DEF Limit, Loose
  <2> QED
    BY <2>1 DEF Init, Serial
<1> QED
  BY <1>3, <1>4, <1>5, <1>6, <1>7, <1>8 DEF CacheInv, BucketsExact

LEMMA StepInv ==
    CacheInv /\ [Next]_vars => CacheInv'
<1> SUFFICES ASSUME CacheInv, [Next]_vars PROVE CacheInv'
  OBVIOUS
<1>1. ASSUME NEW w \in Writers, Effect(w)
      PROVE  CacheInv'
  BY <1>1, EffectShape, EffectOnePerFile, EffectCount, EffectAlone, EffectLru, EffectSafe,
     EffectSerial DEF CacheInv, BucketsExact
<1>2. CASE Touches /\ ~corrupted
  BY <1>2, TouchShape, TouchAlone, TouchLru, TouchSafe, TouchSerial DEF CacheInv, BucketsExact
<1>3. CASE UNCHANGED vars
  <2>1. UNCHANGED <<memory, policy, fresh, lru, linked, count, msg, pc, target, held, bucket,
                    look, overlaps, corrupted>>
    BY <1>3 DEF vars
  <2>2. UNCHANGED <<Hashed, Unhashed, Loose, Unlinked, Clearing>>
    BY <2>1 DEF Hashed, Unhashed, Loose, Unlinked, Clearing
  <2>3. TypeOK' /\ OnePerFile' /\ CountExact'
    <3>1. TypeOK'
      BY <2>1 DEF CacheInv, BucketsExact, TypeOK
    <3>2. OnePerFile' /\ CountExact'
      BY <2>1, <2>2 DEF CacheInv, BucketsExact, OnePerFile, CountExact
    <3> QED
      BY <3>1, <3>2
  <2>4. (\A w \in Writers : Holds(w)') /\ Ownership' /\ ClearsAlone' /\ OneAtATime'
    BY <2>1, <2>2 DEF CacheInv, Holds, Ownership, ClearsAlone, OneAtATime
  <2>5. LruExact' /\ LinkedInList' /\ SafeIfSerial'
    BY <2>1, <2>2 DEF CacheInv, LruExact, LinkedInList, SafeIfSerial, Allocated
  <2>6. Serial'
    <3>1. \A v \in Writers : Find(target[v])' = Find(target[v])
      BY <2>1, <2>2 DEF Find
    <3>2. Limit' = Limit /\ Room' = Room
      BY <2>2 DEF Limit, Room
    <3> QED
      BY <2>1, <2>2, <3>1, <3>2 DEF CacheInv, Serial
  <2> QED
    BY <2>3, <2>4, <2>5, <2>6 DEF CacheInv, BucketsExact
<1> QED
  BY <1>1, <1>2, <1>3, NextEffects

LEMMA CacheInvariant == Spec => []CacheInv
BY InitInv, StepInv, PTL DEF Spec

\* Over every interleaving of insertions, removals, evictions and clears, and of
\* lookups between them, a file has one entry, the entries taken out of their
\* buckets have one owner, and CurrentEntries agrees with the buckets, unless a
\* clear overlapped (DlpInsertPolicy, DlpRemovePolicy, DlpClearCache).
THEOREM BucketsStayExact == Spec => []BucketsExact
<1>1. CacheInv => BucketsExact
  BY DEF CacheInv
<1> QED
  BY <1>1, CacheInvariant, PTL

\* The LRU list holds every entry of the buckets once and no freed one, up to the
\* first use of freed memory and unless a clear overlapped (the list operations
\* of dlp_policy_cache.c).
THEOREM ListStaysExact == Spec => []LruExact
<1>1. CacheInv => LruExact
  BY DEF CacheInv
<1> QED
  BY <1>1, CacheInvariant, PTL

\* While updates and removals come one by one, lookups never make the list
\* operations use a freed entry (DlpTouchEntry against DlpRemovePolicy).
THEOREM SerialIsSafe == Spec => []SafeIfSerial
<1>1. CacheInv => SafeIfSerial
  BY DEF CacheInv
<1> QED
  BY <1>1, CacheInvariant, PTL

\* While messages come one by one the cache grows beyond MaxEntries only if all in it
\* is pinned, and an eviction takes nothing that is pinned (CheckFull,
\* DlpEvictOldestEntry).
THEOREM EvictionIsSound == Spec => EvictionSound
<1> DEFINE Bounded ==
             (/\ overlaps = {}
              /\ Cardinality(Hashed') > Cardinality(Hashed)
              /\ Cardinality(Hashed) >= MaxEntries)
               => \A e \in Hashed : policy[e].pinned
           Kept ==
             \A w \in Writers : \A e \in Hashed :
               (/\ overlaps = {} /\ msg[w].op = "insert" /\ pc[w] = "unhash"
                /\ memory'[e] = "unhashed") => ~policy[e].pinned
<1>0. /\ \A S \in SUBSET Entries : IsFiniteSet(S) /\ Cardinality(S) \in Nat
      /\ Hashed \in SUBSET Entries /\ Hashed' \in SUBSET Entries /\ MaxEntries \in Nat
  BY Sizes, PolicyTypes DEF Hashed
<1>1. ASSUME CacheInv, [Next]_vars, overlaps = {},
             Cardinality(Hashed') > Cardinality(Hashed),
             Cardinality(Hashed) >= MaxEntries, NEW e \in Hashed
      PROVE  policy[e].pinned
  <2>1. ~(Hashed' \subseteq Hashed)
    BY <1>0, <1>1, FS_Subset
  <2>2. PICK w \in Writers : Effect(w)
    <3>1. Touches \/ UNCHANGED vars => Hashed' = Hashed
      BY DEF Touches, vars, Hashed
    <3> QED
      BY <1>1, <2>1, <3>1, NextEffects
  <2>3. pc[w] = "hash"
    BY <1>1, <2>1, <2>2, Grows
  <2>4. Room
    BY <1>1, <2>2, <2>3 DEF CacheInv, Serial, Effect
  <2> QED
    BY <1>0, <1>1, <2>4 DEF Room, Loose
<1>2. ASSUME CacheInv, [Next]_vars, NEW w \in Writers, NEW e \in Hashed, overlaps = {},
             msg[w].op = "insert", pc[w] = "unhash", memory'[e] = "unhashed"
      PROVE  ~policy[e].pinned
  <2>1. e \in Entries /\ memory[e] = "hashed"
    BY DEF Hashed
  <2>2. PICK v \in Writers : Effect(v)
    <3>1. Touches \/ UNCHANGED vars => memory' = memory
      BY DEF Touches, vars
    <3> QED
      BY <1>2, <2>1, <3>1, NextEffects
  <2>3. pc[v] = "unhash" /\ policy[e].file = target[v]
    BY <1>2, <2>1, <2>2 DEF Effect, Lives, Life
  <2>4. v = w
    BY <1>2, <2>3 DEF CacheInv, OneAtATime
  <2>5. e \in Find(target[w])
    BY <2>3, <2>4 DEF Find
  <2>6. Find(target[w]) \subseteq Loose
    BY <1>2, <2>2 DEF CacheInv, Serial, Effect
  <2> QED
    BY <2>5, <2>6 DEF Loose
<1>3. CacheInv /\ [Next]_vars => Bounded /\ Kept
  BY <1>1, <1>2
<1>4. Spec => [][Bounded]_vars /\ [][Kept]_vars
  <2> HIDE DEF Bounded, Kept
  <2> QED
    BY <1>3, CacheInvariant, PTL DEF Spec
<1> QED
  BY <1>4 DEF EvictionSound, BoundedUnlessPinned, PinnedStay

=============================================================================

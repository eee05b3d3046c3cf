---------------------------- MODULE PolicyCache ----------------------------
(***************************************************************************)
(* The policy cache of the minifilter driver, from which every file        *)
(* operation is decided: agent/kernel/minifilter/dlp_policy_cache.c, and   *)
(* the messages of dlp_driver_core.c that change it.                       *)
(*                                                                         *)
(* Writers are threads inside DlpPortMessage, which the filter manager     *)
(* runs in the thread that sends and does not serialize; readers are file  *)
(* system callbacks inside DlpLookupPolicy.  An action is what one thread  *)
(* does between taking and releasing a lock, or one interlocked            *)
(* operation; a lookup's second pass takes the LRU lock inside the bucket  *)
(* lock and is one action.  A hash bucket is the set of its entries: the   *)
(* order of the chain decides nothing.  Statistics are left out.           *)
(***************************************************************************)
EXTENDS Integers, Sequences, FiniteSets, Functions, Filtering

CONSTANTS
    Writers,     \* threads of the service that send messages
    Readers,     \* threads inside file system callbacks
    Files,       \* file identifiers
    Policies,    \* entries the service sends: file, pinned, permanent
    Kinds,       \* the messages it sends, of "update", "remove" and "clear"
    Bucket,      \* DlpHashFileId: the bucket of a file
    NBuckets,    \* DLP_CACHE_HASH_BUCKETS (4096)
    MaxEntries,  \* Cache->MaxEntries (65536)
    NEntries     \* bound: allocations in a behaviour

ASSUME CacheAssumption ==
    /\ Kinds \subseteq {"update", "remove", "clear"}
    /\ Policies \subseteq [file : Files, pinned : BOOLEAN, permanent : BOOLEAN]
    /\ Policies # {}
    /\ IsFiniteSet(Writers)
    /\ Bucket \in [Files -> 0 .. NBuckets - 1]
    /\ NBuckets \in Nat \ {0} /\ MaxEntries \in Nat \ {0} /\ NEntries \in Nat

VARIABLES
    memory,     \* what each DLP_CACHE_ENTRY is; none is reused, so that the
                \* use of a freed one is seen
    policy,     \* Entry->Policy
    fresh,      \* entries whose ExpirationTime is ahead
    lru,        \* the list at Cache->LruHead, least recently used first
    linked,     \* entries whose LruLink does not point at itself
    count,      \* Cache->CurrentEntries
    msg,        \* the message each writer is handling
    pc,         \* the point each writer has reached in it
    target,     \* the file each writer looks for in the buckets
    held,       \* the entry each writer has made or taken out, 0 if none
    bucket,     \* the next bucket a clear empties
    look,       \* the file whose second pass a reader has still to do, if any
    overlaps,   \* history: whether any messages overlapped, or a clear did
    corrupted   \* freed memory was used through the LRU list, or can be:
                \* nothing is known of the system after that

heap == <<memory, policy, fresh>>
list == <<lru, linked, corrupted>>
writer == <<msg, pc, target, held, bucket>>
vars == <<memory, policy, fresh, lru, linked, count, msg, pc, target, held, bucket,
          look, overlaps, corrupted>>

Entries == 1 .. NEntries
Hashed == {e \in Entries : memory[e] = "hashed"}
Allocated(e) == memory[e] \in {"private", "hashed", "unhashed"}

\* The entries a scan of the file's bucket finds.
Find(f) == {e \in Hashed : policy[e].file = f}

\* What is left in memory that was given back says nothing.
Blank == CHOOSE p \in Policies : TRUE

\* DlpFreeCacheEntry.
DlpFreeCacheEntry(S) ==
    /\ memory' = [e \in Entries |-> IF e \in S THEN "freed" ELSE memory[e]]
    /\ policy' = [e \in Entries |-> IF e \in S THEN Blank ELSE policy[e]]
    /\ fresh' = fresh \ S

\* An ExpirationTime is set only if the entry is not permanent.
Renewed(e, p) == IF p.permanent THEN fresh \ {e} ELSE fresh \cup {e}

\* DlpIsEntryExpired.
Expired(e) == ~policy[e].permanent /\ e \notin fresh

----------------------------------------------------------------------------
(* The LRU list, under LruLock. *)

Place(e) == CHOOSE i \in DOMAIN lru : lru[i] = e

\* RemoveEntryList writes to both neighbours; the list's head stands for the
\* missing one at either end.
Unlinkable(e) ==
    /\ e \in Range(lru)
    /\ \A i \in {Place(e) - 1, Place(e) + 1} \cap DOMAIN lru : Allocated(lru[i])

\* InsertTailList writes to the last element.
TailIntact(l) == l = <<>> \/ Allocated(l[Len(l)])

\* A bug: the entry is appended again without being taken out.
DlpTouchEntry_Appends(e) ==
    /\ lru' = IF e \in linked THEN Append(lru, e) ELSE lru
    /\ UNCHANGED <<linked, corrupted>>

\* DlpTouchEntry moves a linked entry to the tail.
DlpTouchEntry(e) ==
    IF e \notin linked THEN UNCHANGED list
    ELSE IF Unlinkable(e) /\ TailIntact(Without(lru, {e}))
      THEN lru' = Append(Without(lru, {e}), e) /\ UNCHANGED <<linked, corrupted>>
      ELSE corrupted' = TRUE /\ UNCHANGED <<lru, linked>>

----------------------------------------------------------------------------
(* DlpPortMessage: the service sends a message. *)

Idle == [op |-> "none"]

\* A thread between two messages: nothing it knew is used again.
Return(w) ==
    /\ msg' = [msg EXCEPT ![w] = Idle]
    /\ pc' = [pc EXCEPT ![w] = "idle"]
    /\ target' = [target EXCEPT ![w] = Blank.file]
    /\ held' = [held EXCEPT ![w] = 0]
    /\ bucket' = [bucket EXCEPT ![w] = 0]

Goto(w, label) ==
    /\ pc' = [pc EXCEPT ![w] = label]
    /\ UNCHANGED <<msg, target, held, bucket>>

Overlap(w, op) ==
    LET others == {msg[v].op : v \in Writers \ {w}} \ {"none"}
    IN  overlaps \cup (IF others = {} THEN {} ELSE {"any"})
                 \cup (IF others # {} /\ "clear" \in others \cup {op}
                       THEN {"clear"} ELSE {})

Receive(w, kind, m, first, file) ==
    /\ kind \in Kinds
    /\ pc[w] = "idle"
    /\ msg' = [msg EXCEPT ![w] = m]
    /\ pc' = [pc EXCEPT ![w] = first]
    /\ target' = [target EXCEPT ![w] = file]
    /\ overlaps' = Overlap(w, m.op)
    /\ UNCHANGED <<heap, list, count, held, bucket, look>>

\* POLICY_UPDATE, and each entry of a POLICY_BULK_UPDATE.
UpdateMessage(w, p) ==
    Receive(w, "update", [op |-> "insert", policy |-> p], "full", p.file)

\* POLICY_REMOVE.
RemoveMessage(w, f) ==
    Receive(w, "remove", [op |-> "remove"], "unhash", f)

\* POLICY_CLEAR.
ClearMessage(w) ==
    Receive(w, "clear", [op |-> "clear"], "bucket", Blank.file)

----------------------------------------------------------------------------
(* DlpInsertPolicy. *)

\* The counter is compared as an unsigned number: below zero is large.
CheckFull(w) ==
    /\ pc[w] = "full"
    /\ Goto(w, IF count < 0 \/ count >= MaxEntries THEN "evict" ELSE "scan")
    /\ UNCHANGED <<heap, list, count, look, overlaps>>

GoRemove(w, file) ==
    /\ pc' = [pc EXCEPT ![w] = "unhash"]
    /\ target' = [target EXCEPT ![w] = file]
    /\ UNCHANGED <<msg, held, bucket>>

\* A bug: the head of the list is evicted whatever its flags are.
DlpEvictOldestEntry_Head(w) ==
    /\ pc[w] = "evict"
    /\ IF lru = <<>> THEN Goto(w, "scan")
       ELSE GoRemove(w, policy[Head(lru)].file)
    /\ UNCHANGED <<heap, list, count, look, overlaps>>

\* DlpEvictOldestEntry chooses, under LruLock, the first entry that is not
\* pinned and remembers its file; DlpRemovePolicy then looks the file up.
DlpEvictOldestEntry(w) ==
    /\ pc[w] = "evict"
    /\ LET loose == {i \in DOMAIN lru : ~policy[lru[i]].pinned}
           first == CHOOSE i \in loose : \A j \in loose : i <= j
           read  == IF loose = {} THEN DOMAIN lru ELSE 1 .. first
       IN  /\ corrupted' = (corrupted \/ \E i \in read : ~Allocated(lru[i]))
           /\ IF loose = {} THEN Goto(w, "scan")
              ELSE GoRemove(w, policy[lru[first]].file)
    /\ UNCHANGED <<heap, lru, linked, count, look, overlaps>>

\* The scan under the shared lock.
Scan(w) ==
    /\ pc[w] = "scan"
    /\ Goto(w, IF Find(msg[w].policy.file) # {} THEN "update" ELSE "allocate")
    /\ UNCHANGED <<heap, list, count, look, overlaps>>

\* The entry is updated in place, or it went away since the scan.
Update(w) ==
    LET p == msg[w].policy
    IN  /\ pc[w] = "update"
        /\ \/ /\ Find(p.file) = {}
              /\ Goto(w, "allocate") /\ UNCHANGED heap
           \/ \E e \in Find(p.file) :
                /\ policy' = [policy EXCEPT ![e] = p]
                /\ fresh' = Renewed(e, p)
                /\ Return(w) /\ UNCHANGED memory
        /\ UNCHANGED <<list, count, look, overlaps>>

Take(w, e, label) ==
    /\ held' = [held EXCEPT ![w] = e]
    /\ pc' = [pc EXCEPT ![w] = label]
    /\ UNCHANGED <<msg, target, bucket>>

\* DlpAllocateCacheEntry fails, or returns an entry only this thread knows.
DlpAllocateCacheEntry(w) ==
    /\ pc[w] = "allocate"
    /\ \/ Return(w) /\ UNCHANGED heap
       \/ \E e \in Entries :
            /\ memory[e] = "unused" /\ \A d \in 1 .. e - 1 : memory[d] # "unused"
            /\ memory' = [memory EXCEPT ![e] = "private"]
            /\ policy' = [policy EXCEPT ![e] = msg[w].policy]
            /\ fresh' = Renewed(e, msg[w].policy)
            /\ Take(w, e, "hash")
    /\ UNCHANGED <<list, count, look, overlaps>>

Publish(w) ==
    /\ memory' = [memory EXCEPT ![held[w]] = "hashed"]
    /\ Goto(w, "link")
    /\ UNCHANGED <<policy, fresh>>

\* A bug: the bucket is not searched again before the insertion.
Hash_Unchecked(w) ==
    /\ pc[w] = "hash"
    /\ Publish(w)
    /\ UNCHANGED <<list, count, look, overlaps>>

\* Under the exclusive lock: the entry goes into the bucket unless another
\* thread put one there, which is then overwritten with the message, whose
\* ExpirationTime is zero, and the new entry is freed.
Hash(w) ==
    LET p == msg[w].policy
    IN  /\ pc[w] = "hash"
        /\ \/ Find(p.file) = {} /\ Publish(w)
           \/ \E e \in Find(p.file) :
                /\ memory' = [memory EXCEPT ![held[w]] = "freed"]
                /\ policy' = [policy EXCEPT ![e] = p, ![held[w]] = Blank]
                /\ fresh' = fresh \ {e, held[w]}
                /\ Return(w)
        /\ UNCHANGED <<list, count, look, overlaps>>

\* The tail insertion under LruLock, after the bucket was released: by now
\* the entry may have been removed and freed.
Link(w) ==
    LET e == held[w]
    IN  /\ pc[w] = "link"
        /\ IF Allocated(e) /\ TailIntact(lru)
             THEN /\ lru' = Append(lru, e) /\ linked' = linked \cup {e}
                  /\ UNCHANGED corrupted
             ELSE corrupted' = TRUE /\ UNCHANGED <<lru, linked>>
        /\ Goto(w, "count")
        /\ UNCHANGED <<heap, count, look, overlaps>>

Count(w) ==
    /\ pc[w] = "count"
    /\ count' = count + 1
    /\ Return(w)
    /\ UNCHANGED <<heap, list, look, overlaps>>

----------------------------------------------------------------------------
(* DlpRemovePolicy, for a message or for an eviction. *)

\* An eviction goes on with the insertion.
RemoveReturns(w) ==
    IF msg[w].op = "insert"
      THEN /\ pc' = [pc EXCEPT ![w] = "scan"]
           /\ held' = [held EXCEPT ![w] = 0]
           /\ target' = [target EXCEPT ![w] = msg[w].policy.file]
           /\ UNCHANGED <<msg, bucket>>
      ELSE Return(w)

RemoveHash(w) ==
    /\ pc[w] = "unhash"
    /\ \/ /\ Find(target[w]) = {}
          /\ RemoveReturns(w) /\ UNCHANGED memory
       \/ \E e \in Find(target[w]) :
            /\ memory' = [memory EXCEPT ![e] = "unhashed"]
            /\ Take(w, e, "unlink")
    /\ UNCHANGED <<policy, fresh, list, count, look, overlaps>>

\* A bug: the entry is freed with its LruLink in the list.
RemoveLru_Forgotten(w) ==
    /\ pc[w] = "unlink"
    /\ Goto(w, "free")
    /\ UNCHANGED <<heap, list, count, look, overlaps>>

\* An entry that no thread has linked yet is left alone.
RemoveLru(w) ==
    LET e == held[w]
    IN  /\ pc[w] = "unlink"
        /\ \/ e \notin linked /\ UNCHANGED list
           \/ /\ e \in linked /\ Unlinkable(e)
              /\ lru' = Without(lru, {e}) /\ linked' = linked \ {e}
              /\ UNCHANGED corrupted
           \/ /\ e \in linked /\ ~Unlinkable(e)
              /\ corrupted' = TRUE /\ UNCHANGED <<lru, linked>>
        /\ Goto(w, "free")
        /\ UNCHANGED <<heap, count, look, overlaps>>

\* If the inserting thread linked the entry after RemoveLru, the list now
\* leads to freed memory.
RemoveFree(w) ==
    /\ pc[w] = "free"
    /\ count' = count - 1
    /\ DlpFreeCacheEntry({held[w]})
    /\ corrupted' = (held[w] \in Range(lru))
    /\ RemoveReturns(w)
    /\ UNCHANGED <<lru, linked, look, overlaps>>

----------------------------------------------------------------------------
(* DlpClearCache. *)

\* The entries of a bucket are freed; they stay on the LRU list.
ClearBucket(w) ==
    LET b == bucket[w]
    IN  /\ pc[w] = "bucket"
        /\ DlpFreeCacheEntry({e \in Hashed : Bucket[policy[e].file] = b})
        /\ bucket' = [bucket EXCEPT ![w] = b + 1]
        /\ pc' = [pc EXCEPT ![w] = IF b + 1 < NBuckets THEN "bucket" ELSE "clearLru"]
        /\ UNCHANGED <<list, count, msg, target, held, look, overlaps>>

\* The head is reset; links that led to it stay as they are.
ClearLru(w) ==
    /\ pc[w] = "clearLru"
    /\ lru' = <<>>
    /\ Goto(w, "clearCount")
    /\ UNCHANGED <<heap, linked, corrupted, count, look, overlaps>>

ClearCount(w) ==
    /\ pc[w] = "clearCount"
    /\ count' = 0
    /\ Return(w)
    /\ UNCHANGED <<heap, list, look, overlaps>>

----------------------------------------------------------------------------
(* DlpLookupPolicy. *)

\* The first pass finds the file; it is a miss unless the entry is current.
LookupFirst(r, f) ==
    /\ look[r] = {}
    /\ \E e \in Find(f) : ~Expired(e)
    /\ look' = [look EXCEPT ![r] = {f}]
    /\ UNCHANGED <<heap, list, count, writer, overlaps>>

\* The second pass finds it again under the exclusive lock.
LookupSecond(r) ==
    /\ look[r] # {}
    /\ LET found == {e \in UNION {Find(f) : f \in look[r]} : ~Expired(e)}
       IN  \/ found = {} /\ UNCHANGED list
           \/ \E e \in found : DlpTouchEntry(e)
    /\ look' = [look EXCEPT ![r] = {}]
    /\ UNCHANGED <<heap, count, writer, overlaps>>

\* Time passes.
Expire(e) ==
    /\ e \in fresh \cap Hashed
    /\ fresh' = fresh \ {e}
    /\ UNCHANGED <<memory, policy, list, count, writer, look, overlaps>>

----------------------------------------------------------------------------
Init ==
    /\ memory = [e \in Entries |-> "unused"]
    /\ policy = [e \in Entries |-> Blank]
    /\ fresh = {} /\ lru = <<>> /\ linked = {} /\ count = 0
    /\ msg = [w \in Writers |-> Idle]
    /\ pc = [w \in Writers |-> "idle"]
    /\ target = [w \in Writers |-> Blank.file]
    /\ held = [w \in Writers |-> 0]
    /\ bucket = [w \in Writers |-> 0]
    /\ look = [r \in Readers |-> {}]
    /\ overlaps = {} /\ corrupted = FALSE

DlpInsertPolicy(w) ==
    \/ CheckFull(w) \/ DlpEvictOldestEntry(w) \/ Scan(w) \/ Update(w)
    \/ DlpAllocateCacheEntry(w) \/ Hash(w) \/ Link(w) \/ Count(w)

DlpRemovePolicy(w) == RemoveHash(w) \/ RemoveLru(w) \/ RemoveFree(w)

DlpClearCache(w) == ClearBucket(w) \/ ClearLru(w) \/ ClearCount(w)

\* Nothing is said of what follows the use of freed memory.
Next ==
    /\ ~corrupted
    /\ \/ \E w \in Writers :
            \/ \E p \in Policies : UpdateMessage(w, p)
            \/ \E f \in Files : RemoveMessage(w, f)
            \/ ClearMessage(w)
            \/ DlpInsertPolicy(w) \/ DlpRemovePolicy(w) \/ DlpClearCache(w)
       \/ \E r \in Readers :
            \/ \E f \in Files : LookupFirst(r, f)
            \/ LookupSecond(r)
       \/ \E e \in Entries : Expire(e)

Spec == Init /\ [][Next]_vars

----------------------------------------------------------------------------
(* Properties. *)

Messages ==
    {Idle, [op |-> "remove"], [op |-> "clear"]}
    \cup [op : {"insert"}, policy : Policies]

\* Where a thread can be in a message.
InsertPCs == {"full", "evict", "scan", "update", "allocate", "hash", "link", "count"}
RemovePCs == {"unhash", "unlink", "free"}
ClearPCs == {"bucket", "clearLru", "clearCount"}
PCs(op) ==
    CASE op = "insert" -> InsertPCs \cup RemovePCs
      [] op = "remove" -> RemovePCs
      [] op = "clear"  -> ClearPCs
      [] op = "none"   -> {"idle"}

Clearing == \E w \in Writers : msg[w].op = "clear"

\* Entries that are in a bucket and that their writer has not linked yet.
Unlinked == {held[w] : w \in {v \in Writers : pc[v] = "link"}}

\* The state has its shape: what a thread holds at each point between two
\* locks is what the code before it left there.  A new entry is private until
\* it is published; an entry taken out of its bucket belongs to the thread
\* that took it and to no other until it is freed.
TypeOK ==
    /\ memory \in [Entries -> {"unused", "private", "hashed", "unhashed", "freed"}]
    /\ policy \in [Entries -> Policies]
    /\ fresh \subseteq Entries /\ linked \subseteq Entries
    /\ lru \in Seq(linked)
    /\ count \in Int
    /\ msg \in [Writers -> Messages]
    /\ pc \in [Writers -> InsertPCs \cup RemovePCs \cup ClearPCs \cup {"idle"}]
    /\ target \in [Writers -> Files]
    /\ held \in [Writers -> 0 .. NEntries]
    /\ bucket \in [Writers -> 0 .. NBuckets]
    /\ look \in [Readers -> {{}} \cup {{f} : f \in Files}]
    /\ overlaps \subseteq {"any", "clear"}
    /\ corrupted \in BOOLEAN
    /\ \A w \in Writers :
         /\ pc[w] \in PCs(msg[w].op)
         /\ pc[w] \notin {"hash", "link", "count", "unlink", "free"} => held[w] = 0
         /\ pc[w] = "hash" => memory[held[w]] = "private"
         /\ pc[w] \in {"link", "count"} => memory[held[w]] # "private"
         /\ pc[w] \in {"unlink", "free"} =>
              memory[held[w]] = "unhashed"

\* A file has at most one entry: DlpInsertPolicy scans the bucket with the
\* shared lock, again with the exclusive one, and once more after it
\* allocated, and releases the lock in between.  A second entry would be
\* found or hidden by the order of the chain, and survive a removal.
OnePerFile ==
    \A d, e \in Hashed : policy[d].file = policy[e].file => d = e

\* CurrentEntries is changed by interlocked operations far from the locks.
\* Counting the insertions on their way to it and the removals that have not
\* reached it, it is the number of entries in the buckets, whatever the
\* threads do, as long as no clear overlapped with another message: a clear
\* resets it to zero although entries may have been added behind it.
CountExact ==
    \/ Clearing \/ "clear" \in overlaps
    \/ count = Cardinality(Hashed)
             + Cardinality({e \in Entries : memory[e] = "unhashed"})
             - Cardinality({w \in Writers : pc[w] \in {"link", "count"}})

\* The buckets are exact: entries are where the steps of their threads say, a
\* file has one at most, and the counter agrees (DlpInsertPolicy, DlpRemovePolicy
\* and DlpClearCache, over every interleaving of their lock sections).
BucketsExact == TypeOK /\ OnePerFile /\ CountExact

\* The LRU list holds every entry of the buckets once, except one that is
\* about to be linked, and no freed one, over insertions, removals,
\* evictions and the moves of DlpTouchEntry by readers, until the moment
\* a freed entry is used and as long as no clear overlapped with another message.
\* An entry missing here can never be evicted.
LruExact ==
    \/ Clearing \/ "clear" \in overlaps \/ corrupted
    \/ /\ IsInjective(lru)
       /\ Hashed \ Unlinked \subseteq Range(lru)
       /\ \A e \in Range(lru) : memory[e] \in {"hashed", "unhashed"}

\* The cache does not grow beyond MaxEntries while messages come one by one,
\* with readers at work all the time, unless everything in it is pinned: pinned
\* entries can push it over the limit, one that is unpinned then goes with the
\* next update, whatever that updates.  (Two insertions that overlap can choose
\* the same victim, and the cache then stays one larger.)
BoundedUnlessPinned ==
    [][(/\ overlaps = {}
        /\ Cardinality(Hashed') > Cardinality(Hashed)
        /\ Cardinality(Hashed) >= MaxEntries)
         => \A e \in Hashed : policy[e].pinned]_vars

\* "Don't evict pinned entries": between choosing the victim and removing it
\* by its file no lock is held; while messages come one by one the entry
\* that goes is still one that is not pinned.
PinnedStay ==
    [][\A w \in Writers : \A e \in Hashed :
         (/\ overlaps = {} /\ msg[w].op = "insert" /\ pc[w] = "unhash"
          /\ memory'[e] = "unhashed") => ~policy[e].pinned]_vars

\* While messages come one by one, eviction keeps the limit and takes nothing
\* that is pinned (CheckFull, DlpEvictOldestEntry).
EvictionSound == BoundedUnlessPinned /\ PinnedStay

\* While updates and removals come one by one, as the agent's single scanning
\* thread sends them, no thread uses an entry after it was freed: lookups may
\* fall between any two steps of an insertion, an eviction or a removal, and
\* move entries whose neighbour is on its way out.
SafeIfSerial == corrupted => overlaps # {} \/ Clearing

=============================================================================

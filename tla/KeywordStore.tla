---------------------------- MODULE KeywordStore ----------------------------
(***************************************************************************)
(* Keyword lists: backend/internal/keywords/{manager,matcher}.go and the    *)
(* handlers of api/keywords.go.                                             *)
(*                                                                         *)
(* The keywords table is compiled into a matcher.  Every change and every   *)
(* test reads the table and then loads what it read into the matcher, under *)
(* the matcher's lock; nothing orders the loads of two requests.  The table *)
(* counts its changes, so that a list carries the version it was read at.   *)
(***************************************************************************)
EXTENDS Integers, Sequences, FiniteSets

CONSTANTS
    Ids,        \* keyword ids
    Handlers,   \* requests the backend serves at the same time
    Inputs,     \* keywords callers send: [empty, valid, enabled]
    Csv,        \* the rows of the file that is imported, keywords too
    MaxWrites,  \* bound: changes of the table
    None,       \* no row
    DbFails     \* whether statements may fail

VARIABLES
    table,    \* the keywords table
    version,  \* how often it has changed
    matcher,  \* the compiled list: its version, and whether it can be matched
    work,     \* what each handler is doing
    emptied   \* history: an update stored an empty keyword

vars == <<table, version, matcher, work, emptied>>

----------------------------------------------------------------------------
\* valid: not of type REGEX, or a pattern that compiles.
Keyword == [empty : BOOLEAN, valid : BOOLEAN, enabled : BOOLEAN]

\* LoadKeywords skips disabled keywords and patterns that do not compile.  An
\* empty keyword is found at every position and the search never moves on.
Compile(list) ==
    [version |-> list.version,
     endless |-> \E kw \in list.keywords : kw.enabled /\ kw.valid /\ kw.empty]

Idle == [pc |-> "idle"]
Work(pc, task, row) == [pc |-> pc, task |-> task, row |-> row]
Goto(h, w) == work' = [work EXCEPT ![h] = w]

\* The lists that were read and are not loaded yet.
Pending == {h \in Handlers : work[h].pc = "load"}
Oldest(versions) == CHOOSE v \in versions : \A w \in versions : v <= w

Init ==
    /\ table = [i \in Ids |-> None]
    /\ version = 0
    /\ matcher = Compile([version |-> 0, keywords |-> {}])
    /\ work = [h \in Handlers |-> Idle]
    /\ emptied = FALSE

----------------------------------------------------------------------------
\* A statement that changes the table; reloadMatcher follows it.
Store(i, kw) ==
    /\ version < MaxWrites
    /\ table' = [table EXCEPT ![i] = kw]
    /\ version' = version + 1
    /\ UNCHANGED matcher

\* The operations of the service; one on a row that is not there changes nothing
\* and is answered with an error.
Create(i, kw) == table[i] = None /\ Store(i, kw)
Update(i, kw) == table[i] # None /\ Store(i, kw)
Delete(i) == table[i] # None /\ Store(i, None)

\* POST /api/keywords: neither empty nor a pattern that does not compile.
HandleCreate(h, i) ==
    /\ work[h] = Idle
    /\ \E kw \in Inputs : ~kw.empty /\ kw.valid /\ Create(i, kw)
    /\ Goto(h, Work("list", "edit", 0))
    /\ UNCHANGED emptied

\* PUT /api/keywords: only patterns are checked.
HandleUpdate(h, i) ==
    /\ work[h] = Idle
    /\ \E kw \in Inputs : /\ kw.valid /\ Update(i, kw)
                          /\ emptied' = (emptied \/ kw.empty)
    /\ Goto(h, Work("list", "edit", 0))

HandleDelete(h, i) ==
    /\ work[h] = Idle
    /\ Delete(i)
    /\ Goto(h, Work("list", "edit", 0))
    /\ UNCHANGED emptied

HandleTest_OnlyIfNotLoaded(h) ==
    /\ work[h] = Idle
    /\ work' = [work EXCEPT ![h] =
                   IF matcher.version = 0 THEN Work("list", "test", 0)
                   ELSE [pc |-> "match", task |-> "test", floor |-> version]]
    /\ UNCHANGED <<table, version, matcher, emptied>>
HandleTest(h) ==
    /\ work[h] = Idle
    /\ Goto(h, Work("list", "test", 0))
    /\ UNCHANGED <<table, version, matcher, emptied>>

\* POST /api/keywords/import: row after row through Create, each with its own
\* reload.  An empty row is skipped, a pattern is not checked, every keyword is
\* enabled whatever the file says.
HandleImport(h) ==
    /\ work[h] = Idle
    /\ Goto(h, Work("row", "import", 1))
    /\ UNCHANGED <<table, version, matcher, emptied>>

Imported(row) == [row EXCEPT !.enabled = TRUE]
NextRow(n) == IF n < Len(Csv) THEN Work("row", "import", n + 1) ELSE Idle

ImportRow(h, i) ==
    /\ work[h].pc = "row"
    /\ ~Csv[work[h].row].empty
    /\ Create(i, Imported(Csv[work[h].row])) /\ Goto(h, Work("list", "import", work[h].row))
    /\ UNCHANGED emptied

\* An empty row, or one that cannot be inserted, is counted as skipped.
SkipRow(h) ==
    /\ work[h].pc = "row"
    /\ Csv[work[h].row].empty \/ DbFails
    /\ Goto(h, NextRow(work[h].row))
    /\ UNCHANGED <<table, version, matcher, emptied>>

----------------------------------------------------------------------------
Done(w) == IF w.task = "import" THEN NextRow(w.row) ELSE Idle

\* reloadMatcher: List reads the enabled keywords.  Create, Update and Delete
\* ignore that it failed; a test answers with an error.
List(h) ==
    /\ work[h].pc = "list"
    /\ \/ Goto(h, [pc |-> "load", task |-> work[h].task, row |-> work[h].row,
                   list |-> [version |-> version,
                             keywords |-> {table[i] : i \in Ids} \ {None}],
                   floor |-> Oldest({version} \cup {work[g].list.version : g \in Pending})])
       \/ DbFails /\ Goto(h, Done(work[h]))
    /\ UNCHANGED <<table, version, matcher, emptied>>

\* The lock is not granted while somebody is matching.
Unlocked == \A h \in Handlers : work[h].pc # "endless"

LoadKeywords(h) ==
    /\ work[h].pc = "load" /\ Unlocked
    /\ matcher' = Compile(work[h].list)
    /\ Goto(h, IF work[h].task = "test"
               THEN [pc |-> "match", task |-> "test", floor |-> work[h].floor]
               ELSE Done(work[h]))
    /\ UNCHANGED <<table, version, emptied>>

\* MatchContent works on whatever list was loaded last.  A handler that waits
\* for the lock keeps new readers out.
MatchContent(h) ==
    /\ work[h].pc = "match"
    /\ Unlocked \/ Pending = {}
    /\ Goto(h, IF matcher.endless THEN [pc |-> "endless"]
               ELSE [pc |-> "matched", floor |-> work[h].floor, version |-> matcher.version])
    /\ UNCHANGED <<table, version, matcher, emptied>>

Answer(h) ==
    /\ work[h].pc = "matched"
    /\ Goto(h, Idle)
    /\ UNCHANGED <<table, version, matcher, emptied>>

Next ==
    \E h \in Handlers :
        \/ HandleTest(h) \/ HandleImport(h) \/ SkipRow(h) \/ List(h) \/ LoadKeywords(h)
        \/ MatchContent(h) \/ Answer(h)
        \/ \E i \in Ids :
               HandleCreate(h, i) \/ HandleUpdate(h, i) \/ HandleDelete(h, i) \/ ImportRow(h, i)

Spec == Init /\ [][Next]_vars

----------------------------------------------------------------------------
TypeOK ==
    /\ table \in [Ids -> Keyword \cup {None}]
    /\ version \in 0..MaxWrites
    /\ matcher \in [version : 0..version, endless : BOOLEAN]
    /\ \A h \in Handlers :
           work[h].pc \in {"idle", "row", "list", "load", "match", "matched", "endless"}
    /\ emptied \in BOOLEAN

\* A test never uses a list older than the table when it was read, or than the
\* lists other requests had read and not yet loaded at that moment (TestKeywords
\* reloads before it matches, but loads of other requests fall in between).
TestIsRecent == \A h \in Handlers : work[h].pc = "matched" => work[h].version >= work[h].floor

\* Only an update can store the keyword that makes matching go on for ever:
\* HandleCreate and ImportCSV turn empty keywords away (matchPartial).
OnlyUpdatesHang == (\E h \in Handlers : work[h].pc = "endless") => emptied

\* What a test of keywords can count on: it ends unless an update stored an empty
\* keyword, and what it answers is recent (TestKeywords beside other requests).
TestsAnswer == TestIsRecent /\ OnlyUpdatesHang

=============================================================================

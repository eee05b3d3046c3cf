--------------------------- MODULE Classification ---------------------------
(***************************************************************************)
(* Classification of files: backend/internal/classification/                *)
(* classification_engine.go (phases 0 to 5), orchestrator.go and provider.go*)
(* (the optional analysis provider), rule_engine.go (the rules that override*)
(* the result).                                                             *)
(*                                                                         *)
(* A file is what the detectors see in it: the marks its path bears, how    *)
(* often each pattern occurs, which comparisons of the rules hold for it.   *)
(* A classification is three steps: the scored phases, the call of the      *)
(* provider, the rules.  Rules change while files are classified.           *)
(***************************************************************************)
EXTENDS Integers, Sequences, FiniteSets, Findings

CONSTANTS
    Files,      \* the files that are classified
    Answers,    \* what the provider may answer: [findings, verdict]
    RuleIds,    \* ids of classification_rules
    RuleInputs, \* the rules callers store
    Handlers,   \* requests the backend serves at the same time
    MaxWrites,  \* bound: changes of the rules table
    None,       \* no row
    DbFails     \* whether statements may fail

VARIABLES
    table,    \* the classification_rules table
    version,  \* how many statements have changed it
    cache,    \* re.rules: the enabled rules, and the version they were read at
    work      \* what each handler is doing

vars == <<table, version, cache, work>>

----------------------------------------------------------------------------
(* Phases 0 to 4 *)

\* Points for what occurs in the name, the directory and the extension.
PathWeight ==
    << <<"payroll", 12>>, <<"salary", 12>>, <<"customer", 8>>, <<"invoice", 8>>, <<"pii", 18>>,
       <<"ssn", 25>>, <<"credit_card", 20>>, <<"password", 15>>, <<"secret", 15>>,
       <<"hr_dir", 10>>, <<"finance_dir", 12>>, <<"legal_dir", 10>>, <<"executive_dir", 15>>,
       <<"secret_dir", 20>>, <<"classified_dir", 20>>, <<"office_ext", 5>>, <<"sql_ext", 30>> >>

\* Points for each occurrence of a validated number or a listed word.
CountWeight ==
    << <<"credit_cards", 20>>, <<"ssns", 25>>, <<"nirs", 35>>, <<"ibans", 18>>,
       <<"critical", 95>>, <<"high", 15>>, <<"medium", 8>>, <<"low", 3>> >>

\* Points for a secret, once; some count only outside an example context.
SecretWeight ==
    << <<"aws_key", 100>>, <<"github_token", 100>>, <<"private_key", 100>>, <<"api_key", 70>>,
       <<"db_connection", 80>>, <<"stripe_key", 100>>, <<"jwt", 50>>, <<"password_word", 15>>,
       <<"api_key_word", 20>>, <<"secret_word", 15>> >>
Suppressible == {"api_key", "db_connection", "jwt"}

Sum(points) ==
    LET sum[n \in 0..Len(points)] == IF n = 0 THEN 0 ELSE sum[n - 1] + points[n]
    IN  sum[Len(points)]
Present(weight, marks) ==
    [n \in DOMAIN weight |-> IF weight[n][1] \in marks THEN weight[n][2] ELSE 0]
Counted(weight, counts) == [n \in DOMAIN weight |-> weight[n][2] * counts[weight[n][1]]]

phase1PreAnalysis(f) == Sum(Present(PathWeight, f.path))
phase2Secrets(f) == Sum(Present(SecretWeight, f.secrets \ (f.examples \cap Suppressible)))
phase2ContentPatterns(f) == Sum(Counted(CountWeight, f.counts)) + phase2Secrets(f)
phase3ContextLogic_Reduces(f) == IF f.bulk THEN -30 ELSE 0
phase3ContextLogic(f) == IF f.bulk THEN 30 ELSE 0

\* The first rule that applies decides; -1 is no decision.  A file the backend
\* cannot see has size 0.
phase0FastFilter(f) ==
    CASE f.size = 0 -> 0
      [] f.size > 0 /\ f.ext = "key_material" -> 100
      [] f.size > 0 /\ f.ext = "scratch" -> 0
      [] f.size > 1 /\ f.ext = "database" -> 100
      [] f.size > 0 /\ f.path \cap {"password", "secret", "api_key"} # {} -> 95
      [] OTHER -> -1

Level(score) ==
    CASE score >= 90 -> 3
      [] score >= 50 /\ score < 90 -> 2
      [] score >= 20 /\ score < 50 -> 1
      [] OTHER -> 0
Classes == <<"PUBLIC", "INTERNAL", "CONFIDENTIAL", "RESTRICTED">>
Risks == <<"NONE", "LOW", "MEDIUM_HIGH", "CRITICAL">>
Clamp_None(score) == score
Clamp(score) == IF score > 100 THEN 100 ELSE score

\* phase4Decision.
Result(score, findings) ==
    [class |-> Classes[Level(Clamp(score)) + 1], risk |-> Risks[Level(Clamp(score)) + 1],
     score |-> Clamp(score), findings |-> findings, rule |-> None]

Ambiguous(score) == 50 <= score /\ score < 90

\* Classify reads the file itself and sees nothing of a remote one.
Seen(f, withContent) ==
    IF withContent \/ f.local THEN f
    ELSE [f EXCEPT !.size = 0, !.counts = [p \in DOMAIN f.counts |-> 0], !.secrets = {},
                   !.findings = <<>>, !.bulk = FALSE]

----------------------------------------------------------------------------
Idle == [pc |-> "idle"]
Goto(h, w) == work' = [work EXCEPT ![h] = w]
AtRules(f, late, result) == [pc |-> "rules", file |-> f, late |-> late, result |-> result]

\* Classify and ClassifyWithContent.  No two findings of the detectors have the
\* same key, so merging them with nothing only puts them in order.
Classify(h) ==
    /\ work[h] = Idle
    /\ \E g \in Files, withContent \in BOOLEAN :
           LET f == Seen(g, withContent)
               fast == phase0FastFilter(f)
               score == phase1PreAnalysis(f) + phase2ContentPatterns(f)
               found == MergeFindings(f.findings, <<>>)
           IN  Goto(h, CASE fast # -1 -> AtRules(f, FALSE, Result(fast, <<>>))
                         [] fast = -1 /\ Ambiguous(score) ->
                                [pc |-> "provider", file |-> f, score |-> score]
                         [] OTHER -> AtRules(f, FALSE, Result(score + phase3ContextLogic(f), found)))
    /\ UNCHANGED <<table, version, cache>>

\* runPhase25 and Execute: an answer counts if it came in time and carries no
\* verdict; after an error, a timeout or a late answer there are no findings.
Accepted(answer, inTime) == inTime /\ ~answer.verdict
Execute(h) ==
    /\ work[h].pc = "provider"
    /\ \E answer \in Answers, inTime \in BOOLEAN :
           LET f == work[h].file
               optional == IF Accepted(answer, inTime) THEN answer.findings ELSE <<>>
           IN  Goto(h, AtRules(f, ~inTime,
                               Result(work[h].score + phase3ContextLogic(f),
                                      MergeFindings(f.findings, optional))))
    /\ UNCHANGED <<table, version, cache>>

----------------------------------------------------------------------------
(* Phase 5 and the rules *)

\* What each kind of condition looks at, and the operators it knows.
Operators ==
    [keyword |-> {"equals", "contains", "matches_regex"}, file_extension |-> {"equals", "in_list"},
     file_size |-> {"gt", "lt", "equals"}, directory_path |-> {"equals", "contains", "matches_regex"},
     content_pattern |-> {"contains", "matches_regex"}]
Sources(rule) ==
    CASE rule.field = "keyword" -> {"name"} \cup (IF rule.op = "equals" THEN {} ELSE {"content"})
      [] rule.field = "content_pattern" -> {"content"}
      [] OTHER -> {rule.field}

evaluateCondition(rule, f) ==
    /\ rule.field \in DOMAIN Operators /\ rule.op \in Operators[rule.field]
    /\ \E source \in Sources(rule) : <<source, rule.op, rule.value>> \in f.facts

\* The rule of lowest priority number that applies; equal numbers in any order.
FirstMatching(f) ==
    LET hits == {rule \in cache.rules : evaluateCondition(rule, f)}
    IN  {rule \in hits : \A other \in hits : rule.priority <= other.priority}

\* The rule replaces classification and score; the risk level stays as it was.
Evaluate(h) ==
    /\ work[h].pc = "rules"
    /\ LET w == work[h]
           first == FirstMatching(w.file)
           done(result) == [w EXCEPT !.pc = "done", !.result = result]
       IN  \/ first = {} /\ Goto(h, done(w.result))
           \/ \E rule \in first :
                  Goto(h, done([w.result EXCEPT !.class = rule.class, !.score = 100, !.rule = rule]))
    /\ UNCHANGED <<table, version, cache>>

Answer(h) ==
    /\ work[h].pc \in {"done", "stored"}
    /\ Goto(h, Idle)
    /\ UNCHANGED <<table, version, cache>>

\* AddRule, UpdateRule and DeleteRule: one statement, then a reload.  To delete
\* a rule that is not there is no error.
Enabled(rows) == {rows[i] : i \in {j \in RuleIds : rows[j] # None /\ rows[j].enabled}}
WriteRule(h, i) ==
    /\ work[h] = Idle /\ version < MaxWrites
    /\ \E row \in RuleInputs \cup {None} : table' = [table EXCEPT ![i] = row]
    /\ version' = version + 1
    /\ Goto(h, [pc |-> "reload", version |-> version + 1, rules |-> Enabled(table')])
    /\ UNCHANGED cache

\* loadRulesFromDB: the query is made under the write lock, so loads happen in
\* the order of their queries.  It empties the rules first, and leaves them
\* empty if the query fails.
loadRulesFromDB_QueriesUnlocked(h) ==
    /\ work[h].pc = "reload"
    /\ cache' = [rules |-> work[h].rules, version |-> work[h].version, failed |-> FALSE]
    /\ Goto(h, [pc |-> "stored", version |-> work[h].version])
    /\ UNCHANGED <<table, version>>
loadRulesFromDB(h) ==
    /\ work[h].pc = "reload"
    /\ \/ cache' = [rules |-> Enabled(table), version |-> version, failed |-> FALSE]
       \/ DbFails /\ cache' = [rules |-> {}, version |-> version, failed |-> TRUE]
    /\ Goto(h, [pc |-> "stored", version |-> work[h].version])
    /\ UNCHANGED <<table, version>>

Init ==
    /\ table = [i \in RuleIds |-> None]
    /\ version = 0
    /\ cache = [rules |-> {}, version |-> 0, failed |-> FALSE]
    /\ work = [h \in Handlers |-> Idle]

Next ==
    \E h \in Handlers :
        \/ Classify(h) \/ Execute(h) \/ Evaluate(h) \/ Answer(h) \/ loadRulesFromDB(h)
        \/ \E i \in RuleIds : WriteRule(h, i)

Spec == Init /\ [][Next]_vars

----------------------------------------------------------------------------
Finished == {h \in Handlers : work[h].pc \in {"rules", "done"}}

TypeOK ==
    /\ table \in [RuleIds -> RuleInputs \cup {None}]
    /\ version \in 0..MaxWrites
    /\ cache.rules \subseteq RuleInputs /\ cache.version \in 0..version
    /\ \A h \in Handlers :
           work[h].pc \in {"idle", "provider", "rules", "done", "reload", "stored"}
    /\ \A h \in Finished :
           work[h].result.score \in 0..100 /\ work[h].result.risk \in {Risks[n] : n \in 1..4}

\* Validated evidence survives whatever the provider answers: it is neither
\* removed, nor weakened, nor replaced by a finding with its key ("Hard findings
\* are never downgraded", MergeFindings), unless the fast filter decided.
HardEvidenceKept ==
    \A h \in Finished :
        LET f == work[h].file
            result == work[h].result
        IN  phase0FastFilter(f) = -1 =>
                \A n \in DOMAIN f.findings :
                    f.findings[n].hard => /\ f.findings[n].key \in DOMAIN result.findings
                                          /\ result.findings[f.findings[n].key] = f.findings[n]

\* A provider that answers after its deadline has no influence on the result
\* (Execute looks at the context again after a call that did not fail).
LateAnswerIgnored ==
    \A h \in Finished :
        work[h].late =>
            work[h].result.findings = MergeFindings(work[h].file.findings, <<>>)

\* The provider is kept in its bounds: it takes no hard evidence away, and an
\* answer that comes too late is as good as none (Execute, MergeFindings).
ProviderBounded == HardEvidenceKept /\ LateAnswerIgnored

\* More evidence at the same path never lowers the level or the risk the phases
\* arrive at (weights, order of the fast rules, clamping and thresholds).
Evidence(f, g) ==
    /\ f.path \subseteq g.path /\ f.ext = g.ext /\ f.size = g.size /\ f.size > 0
    /\ \A p \in DOMAIN f.counts : f.counts[p] <= g.counts[p]
    /\ f.secrets \subseteq g.secrets /\ g.examples \subseteq f.examples
    /\ f.bulk => g.bulk
MoreEvidenceNeverLowers ==
    \A h, k \in Finished :
        Evidence(work[h].file, work[k].file) =>
            \A m, n \in 1..4 :
                work[h].result.risk = Risks[m] /\ work[k].result.risk = Risks[n] => m <= n

\* Whoever changed a rule and got the answer finds the change, or a later one,
\* in the rules that are applied, unless the last reload failed (AddRule,
\* UpdateRule and DeleteRule of several administrators, each with its reload).
OwnRuleApplies ==
    \A h \in Handlers :
        work[h].pc = "stored" => cache.failed \/ cache.version >= work[h].version

=============================================================================

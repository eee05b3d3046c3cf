------------------------------ MODULE MCConsole ------------------------------
(***************************************************************************)
(* Model-checking instance of Console: what every part is given.            *)
(***************************************************************************)
EXTENDS Console, TLC

CONSTANTS q1, q2, f1, u1, u2, d1, d2,    \* requests, file, users, destinations
          i1, i2,                        \* ids
          r2, acc                        \* role, cloud account

----------------------------------------------------------------------------
(* Approvals: one confidential file whose policy leaves the decision to the  *)
(* owner.  One request is for a destination, the other for all of them.  As  *)
(* a pattern the destination has a wild card that covers the other one; the  *)
(* events go there, or nowhere that is known.                                *)

Subject(u, d) == [file |-> f1, user |-> u, action |-> "UPLOAD", dest |-> d]
Rule(enabled, enforcement) ==
    [stock |-> FALSE, enabled |-> enabled, action |-> Blank, dest |-> Blank,
     enforcement |-> enforcement]

MCAsk == (q1 :> [subject |-> Subject(u2, d1), owner |-> u1, permanent |-> FALSE])
      @@ (q2 :> [subject |-> Subject(u2, Blank), owner |-> u2, permanent |-> TRUE])
MCEvents == {Subject(u2, d2), Subject(u2, Blank)}
MCLike == {<<d1, d1>>, <<d2, d2>>, <<d2, d1>>}
MCMatchSets == {{}, {[classification |-> "RESTRICTED", hardBlock |-> TRUE]}}
MCStoredClass == f1 :> "CONFIDENTIAL"
MCStoredRules ==
    [c \in Classifications |->
        IF c = "CONFIDENTIAL"
        THEN <<Rule(FALSE, "ALLOW"), Rule(TRUE, "REQUIRE_OWNER_APPROVAL")>>
        ELSE Blank]

(* Incidents: a batch of a classified file and of an event without a path.   *)
(* One rule is about classifications, the other about what happened.         *)

MCBatch == <<[type |-> "FILE_UPLOAD", path |-> TRUE, class |-> "CONFIDENTIAL",
              risk |-> "HIGH", keywords |-> {"payroll"}],
             [type |-> "USB_INSERT", path |-> FALSE, class |-> "PUBLIC", risk |-> "HIGH",
              keywords |-> {}]>>
MCDlpRules ==
    {[types |-> None, classes |-> {"CONFIDENTIAL", "RESTRICTED"},
      risks |-> {"HIGH", "CRITICAL"}, keywords |-> {"payroll"}],
     [types |-> {"FILE_UPLOAD", "USB_INSERT"}, classes |-> {"CONFIDENTIAL", "INTERNAL"},
      risks |-> None, keywords |-> None]}

(* Keywords: a word, an empty one and a pattern that does not compile; the   *)
(* file that is imported has an empty and a broken row.                      *)

Word(empty, valid, enabled) == [empty |-> empty, valid |-> valid, enabled |-> enabled]
MCKeywordInputs == {Word(FALSE, TRUE, TRUE), Word(TRUE, TRUE, TRUE), Word(FALSE, FALSE, TRUE)}
MCCsv == <<Word(TRUE, TRUE, TRUE), Word(FALSE, FALSE, FALSE)>>

(* Classification: files on both sides of every threshold; a provider that   *)
(* denies hard evidence, strengthens soft evidence, or returns a verdict.    *)

F == INSTANCE Findings
Counts(found) ==
    [p \in {"credit_cards", "ssns", "nirs", "ibans", "critical", "high", "medium", "low"} |->
        IF p \in DOMAIN found THEN found[p] ELSE 0]
File(local, size, ext, path) ==
    [local |-> local, size |-> size, ext |-> ext, path |-> path, counts |-> Counts(<<>>),
     secrets |-> {}, examples |-> {}, bulk |-> FALSE, findings |-> <<>>,
     facts |-> {<<"name", "contains", "payroll">>, <<"file_extension", "in_list", "csv">>}]
Sheet == [File(TRUE, 1, "plain", {"finance_dir", "office_ext"}) EXCEPT
              !.counts = Counts([credit_cards |-> 2]),
              !.findings = <<F!HardFinding("card1"), F!HardFinding("card2")>>]
Session == [File(FALSE, 1, "plain", {"salary"}) EXCEPT
                !.secrets = {"jwt"}, !.findings = <<F!SoftFinding("jwt1", "jwt")>>]
Sample == [Session EXCEPT !.secrets = {"api_key", "api_key_word"}, !.examples = {"api_key"},
                          !.findings = <<>>, !.facts = {}]
Leak == [File(TRUE, 1, "plain", {}) EXCEPT !.secrets = {"aws_key"},
                                           !.counts = Counts([critical |-> 1])]

MCSamples == {Sheet, [Sheet EXCEPT !.bulk = TRUE], Session, Sample, Leak,
              File(TRUE, 1, "key_material", {}), File(TRUE, 1, "scratch", {"payroll"}),
              File(TRUE, 2, "database", {}), File(TRUE, 1, "plain", {"api_key"})}
MCAnswers == {[findings |-> <<>>, verdict |-> FALSE],
              [findings |-> <<F!Finding("card1", FALSE, 0, 1, "benign")>>, verdict |-> FALSE],
              [findings |-> <<F!Finding("jwt1", TRUE, 2, 10, "token")>>, verdict |-> FALSE],
              [findings |-> <<F!Finding("name1", FALSE, 1, 5, "person")>>, verdict |-> TRUE]}
MCRuleInputs ==
    {[priority |-> 1, enabled |-> TRUE, field |-> "keyword", op |-> "contains",
      value |-> "payroll", class |-> "RESTRICTED"],
     [priority |-> 2, enabled |-> TRUE, field |-> "file_extension",
      op |-> "in_list", value |-> "csv", class |-> "PUBLIC"]}

----------------------------------------------------------------------------
(* Accounts: the administrator and another user; one system role and one of  *)
(* the administrators.                                                       *)

MCLists == {{}, {r2}}

(* Policies: one row, as rows do not meet; two fields, so that two updates     *)
(* can name different ones.  Access: a window longer than it takes to fill a   *)
(* bucket.  Their values are in the configuration.                             *)

(* Cloud scans: an object whose secret is behind the sample; a container under *)
(* a plain name whose bytes pass for text; a name that is sensitive, and is    *)
(* not there at first, and one that is public, whatever they hold; the key of  *)
(* a directory.  Writes delete an object, empty it or make it larger.  There   *)
(* is a setting of each kind.  Either scan is asked for: they share only the   *)
(* deadline and the result.                                                    *)

Object(size, secret, magic, text, format) ==
    [size |-> size, secret |-> secret, magic |-> magic, archived |-> FALSE,
     read |-> [text |-> text, format |-> format]]
Plain(size, secret) == Object(size, secret, FALSE, "shown", "shown")
Mostly(setting, others) ==
    [check \in {"public-access-block", "public-policy", "public-acl", "ownership-controls",
                "encryption", "versioning", "object-lock", "logging", "lifecycle"} |->
        IF check \in DOMAIN others THEN others[check] ELSE setting]

MCBucketNames == <<d1, d2>>
MCKeys == (d1 :> <<"notes", "plans", "secret.rtf">>) @@ (d2 :> <<"app.tmp", "dir/">>)
MCLabel == [o \in {"notes", "plans", "secret.rtf", "app.tmp", "dir/"} |->
               IF o = "app.tmp" THEN "structured" ELSE "plain"]
MCExtractor == [o \in DOMAIN MCLabel |-> IF o = "secret.rtf" THEN "format" ELSE "text"]
MCNameSays == [o \in DOMAIN MCLabel |->
                  CASE o = "app.tmp" -> "public" [] o = "secret.rtf" -> "sensitive"
                    [] OTHER -> "nothing"]
MCInitial == ("notes" :> Plain(2, 2)) @@ ("plans" :> Object(2, 2, TRUE, "hidden", "shown"))
          @@ ("secret.rtf" :> None) @@ ("app.tmp" :> Plain(1, 1)) @@ ("dir/" :> Plain(1, 1))
MCVersions == {None, Plain(0, 0), Plain(3, 0)}
MCSettings == (acc :> Mostly("on", <<>>)) @@ (d1 :> Mostly("on", [encryption |-> "odd"]))
           @@ (d2 :> Mostly("off", [versioning |-> "absent"] @@ ("public-policy" :> "absent")))
MCScans == {[posture |-> p, content |-> ~p] : p \in BOOLEAN}

----------------------------------------------------------------------------
\* Handlers are interchangeable everywhere, and so are ids.
Symmetry == Permutations(Handlers) \cup Permutations({i1, i2})

=============================================================================

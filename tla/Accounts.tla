------------------------------ MODULE Accounts ------------------------------
(***************************************************************************)
(* Users, roles and permissions: backend/internal/api/users.go, and the     *)
(* account ensureAdminUser (cmd/server/main.go) sees to at every start.     *)
(*                                                                         *)
(* Every SQL statement is a step of its own: the handlers use no            *)
(* transaction.  A name stands for a user's username and email, which the   *)
(* schema keeps unique.  Passwords and display names are left out, and so is *)
(* CreateUserFromAD: its INSERT has no password_hash, which the table        *)
(* (migration 001) requires, so it is refused and nothing changes.           *)
(***************************************************************************)
EXTENDS Integers, FiniteSets

CONSTANTS
    UserIds, RoleIds,
    SystemRoles,  \* the roles migration 012 marks is_system
    Names,        \* user names
    Admin,        \* ADMIN_EMAIL, one of the names
    AdminRole,    \* the system role called Admin
    Perms,        \* permissions
    Lists,        \* the lists of roles and permissions requests carry
    Handlers,     \* requests the backend serves at the same time
    None,         \* no row
    DbFails       \* whether statements may fail

VARIABLES
    users,     \* the users table
    roles,     \* the roles table
    grants,    \* user_roles
    allows,    \* role_permissions
    work       \* what each handler is doing

vars == <<users, roles, grants, allows, work>>

User(name) == [name |-> name, active |-> TRUE]

\* The unique columns of users.
Taken(name) == \E u \in UserIds : users[u] # None /\ users[u].name = name

Idle == [pc |-> "idle"]
Goto(h, w) == work' = [work EXCEPT ![h] = w]

\* The lists: the roles of a user, the permissions of a role.
Pairs(of) == IF of \in UserIds THEN grants ELSE allows
Listed(of) == {pair \in Pairs(of) : pair[1] = of}

\* A request that replaces or adds to the list of a user or role; old: the list
\* it found; failed: its statements that did; alone: nothing else has touched the
\* list since it began.
Listing(pc, of, wanted, replace) ==
    [pc |-> pc, of |-> of, wanted |-> wanted, left |-> wanted, replace |-> replace,
     old |-> Listed(of), failed |-> {}, alone |-> TRUE]
Lister(w) == w.pc \in {"clear", "insert", "answer"}

\* h goes on to w, and every other request about the same user or role knows
\* that it is not alone any more.
Disturb(h, w, of) ==
    work' = [g \in Handlers |->
                IF g = h
                THEN [w EXCEPT !.alone =
                         \A k \in Handlers \ {h} : ~(Lister(work[k]) /\ work[k].of = of)]
                ELSE IF Lister(work[g]) /\ work[g].of = of THEN [work[g] EXCEPT !.alone = FALSE]
                ELSE work[g]]
Then(h, of, wanted, replace) ==
    IF wanted = {} THEN Goto(h, Idle)
    ELSE Disturb(h, Listing(IF replace THEN "clear" ELSE "insert", of, wanted, replace), of)

----------------------------------------------------------------------------
(* Users *)

CreateUser(h, u) ==
    /\ work[h] = Idle /\ users[u] = None
    /\ \E name \in Names, wanted \in Lists :
           /\ ~Taken(name)
           /\ users' = [users EXCEPT ![u] = User(name)]
           /\ Then(h, u, wanted, FALSE)
    /\ UNCHANGED <<roles, grants, allows>>

\* is_active is TRUE when the request leaves it out.  Roles are replaced by a
\* list that is not empty: a DELETE, then an INSERT for each.
UpdateUser(h, u) ==
    /\ work[h] = Idle /\ users[u] # None
    /\ \E active \in BOOLEAN, wanted \in Lists :
           /\ users' = [users EXCEPT ![u].active = active]
           /\ Then(h, u, wanted, TRUE)
    /\ UNCHANGED <<roles, grants, allows>>

DeleteUser(u) ==
    /\ users[u] # None
    /\ users' = [users EXCEPT ![u].active = FALSE]
    /\ UNCHANGED <<roles, grants, allows, work>>

----------------------------------------------------------------------------
(* Roles *)

CreateRole(h, r) ==
    /\ work[h] = Idle /\ roles[r] = None
    /\ roles' = [roles EXCEPT ![r] = "custom"]
    /\ \E wanted \in SUBSET Perms : Then(h, r, wanted, FALSE)
    /\ UNCHANGED <<users, grants, allows>>

\* UpdateRole and DeleteRole first ask whether the role is a system role.
CheckRole(h, r) ==
    /\ work[h] = Idle /\ roles[r] = "custom"
    /\ \E next \in {"update", "drop"} : Goto(h, [pc |-> next, role |-> r])
    /\ UNCHANGED <<users, roles, grants, allows>>

UpdateRole(h) ==
    /\ work[h].pc = "update"
    /\ \E wanted \in SUBSET Perms : Then(h, work[h].role, wanted, TRUE)
    /\ UNCHANGED <<users, roles, grants, allows>>

\* The query or the statement fails: nothing more happens.
GiveUp(h) ==
    /\ DbFails
    /\ work[h].pc \in {"update", "drop"}
    /\ Goto(h, Idle)
    /\ UNCHANGED <<users, roles, grants, allows>>

\* ON DELETE CASCADE takes the permissions and the assignments with the role.
DeleteRole(h) ==
    /\ work[h].pc = "drop"
    /\ LET r == work[h].role
       IN  /\ roles' = [roles EXCEPT ![r] = None]
           /\ grants' = {pair \in grants : pair[2] # r}
           /\ allows' = {pair \in allows : pair[1] # r}
           /\ work' = [g \in Handlers |->
                          IF g = h THEN Idle
                          ELSE IF Lister(work[g]) /\ (work[g].of = r \/ r \in work[g].wanted)
                          THEN [work[g] EXCEPT !.alone = FALSE]
                          ELSE work[g]]
    /\ UNCHANGED users

----------------------------------------------------------------------------
(* The lists: assignRolesToUser and the loops over permission_ids.  Errors of  *)
(* these statements are ignored, and the answer is that of success.            *)

Put(of, pairs) ==
    IF of \in UserIds THEN grants' = pairs /\ UNCHANGED allows
    ELSE allows' = pairs /\ UNCHANGED grants
\* The foreign keys hold.
Known(of, x) == IF of \in UserIds THEN roles[x] # None ELSE roles[of] # None

ClearList_Skipped(h) ==
    /\ work[h].pc = "clear"
    /\ Goto(h, [work[h] EXCEPT !.pc = "insert"])
    /\ UNCHANGED <<users, roles, grants, allows>>
ClearList(h) ==
    /\ work[h].pc = "clear"
    /\ LET w == work[h]
       IN  \/ /\ Put(w.of, Pairs(w.of) \ Listed(w.of))
              /\ Goto(h, [w EXCEPT !.pc = "insert"])
           \/ /\ DbFails /\ UNCHANGED <<grants, allows>>
              /\ Goto(h, [w EXCEPT !.pc = "insert", !.failed = {"delete"}])
    /\ UNCHANGED <<users, roles>>

InsertPair(h) ==
    /\ work[h].pc = "insert"
    /\ \E x \in work[h].left :
           LET w == [work[h] EXCEPT !.left = @ \ {x},
                                    !.pc = IF @ = "insert" /\ work[h].left = {x}
                                           THEN "answer" ELSE @]
           IN  \/ /\ Known(w.of, x)
                  /\ Put(w.of, Pairs(w.of) \cup {<<w.of, x>>})
                  /\ Goto(h, w)
               \/ /\ ~Known(w.of, x) \/ DbFails
                  /\ UNCHANGED <<grants, allows>>
                  /\ Goto(h, [w EXCEPT !.failed = @ \cup {"insert"}])
    /\ UNCHANGED <<users, roles>>

Answer(h) ==
    /\ work[h].pc = "answer"
    /\ Goto(h, Idle)
    /\ UNCHANGED <<users, roles, grants, allows>>

----------------------------------------------------------------------------
\* The process ends anywhere; at the start the administrator's account is
\* created with its role, or made active.
Restart ==
    /\ work' = [h \in Handlers |-> Idle]
    /\ \/ \E u \in UserIds :
              /\ ~Taken(Admin) /\ users[u] = None
              /\ users' = [users EXCEPT ![u] = User(Admin)]
              /\ \/ grants' = grants \cup {<<u, AdminRole>>}
                 \/ DbFails /\ UNCHANGED grants
       \/ \E u \in UserIds :
              /\ users[u] # None /\ users[u].name = Admin
              /\ users' = [users EXCEPT ![u].active = TRUE]
              /\ UNCHANGED grants
       \/ DbFails /\ UNCHANGED <<users, grants>>
    /\ UNCHANGED <<roles, allows>>

Init ==
    /\ users = [u \in UserIds |-> None]
    /\ roles = [r \in RoleIds |-> IF r \in SystemRoles THEN "system" ELSE None]
    /\ grants = {}
    /\ allows = SystemRoles \X Perms
    /\ work = [h \in Handlers |-> Idle]

Next ==
    \/ Restart
    \/ \E u \in UserIds : DeleteUser(u)
    \/ \E h \in Handlers :
           \/ UpdateRole(h) \/ DeleteRole(h) \/ ClearList(h) \/ InsertPair(h) \/ Answer(h)
           \/ GiveUp(h)
           \/ \E u \in UserIds : CreateUser(h, u) \/ UpdateUser(h, u)
           \/ \E r \in RoleIds : CreateRole(h, r) \/ CheckRole(h, r)

Spec == Init /\ [][Next]_vars

----------------------------------------------------------------------------
TypeOK ==
    /\ users \in [UserIds -> [name : Names, active : BOOLEAN] \cup {None}]
    /\ roles \in [RoleIds -> {"system", "custom", None}]
    /\ grants \subseteq UserIds \X RoleIds /\ allows \subseteq RoleIds \X Perms
    /\ \A pair \in grants : users[pair[1]] # None /\ roles[pair[2]] # None

\* What an update that nothing came in between leaves when it answers, also if its
\* own statements failed, which the answer does not say: a failed DELETE may leave
\* old entries beside the new ones, but loses none of the new; a failed INSERT may
\* lose new ones, but keeps no old one; nothing else is ever on the list; and if no
\* statement failed, the list is the one asked for (UpdateUser, UpdateRole).
ReplacedExactly ==
    \A h \in Handlers :
        LET w == work[h]
            asked == {w.of} \X w.wanted
        IN  w.pc = "answer" /\ w.replace /\ w.alone =>
                /\ Listed(w.of) \subseteq asked \cup w.old
                /\ "delete" \notin w.failed => Listed(w.of) \subseteq asked
                /\ "insert" \notin w.failed => asked \subseteq Listed(w.of)

\* No sequence of requests and restarts changes what a system role may do, or
\* removes it (the check of is_system is a statement before the ones that write).
SystemRolesKept ==
    \A r \in SystemRoles :
        roles[r] = "system" /\ {r} \X Perms \subseteq allows

\* Roles are what they were made: system roles keep their permissions, and what an
\* undisturbed update leaves differs from its list by its own failed statements at
\* most (UpdateUser, UpdateRole, DeleteRole).
RolesExact == ReplacedExactly /\ SystemRolesKept

=============================================================================

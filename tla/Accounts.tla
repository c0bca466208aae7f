------------------------------- MODULE Accounts -------------------------------
(***************************************************************************)
(* Accounts, and the requests that administer them or log in to them.  A   *)
(* request reads the account it is about and may count the other active    *)
(* administrators; it then reads the account once more, lays what it has   *)
(* decided over what it finds and writes the difference.  No step takes a  *)
(* lock.  READ COMMITTED: each statement sees the last commit, and the row *)
(* of an account and its roles are read by separate statements.  An object *)
(* that nothing refers to leaves the database session, so every read is a  *)
(* fresh one.                                                              *)
(***************************************************************************)
CONSTANTS
  Handlers,    (* request threads                                          *)
  Emails,      (* addresses that identify accounts                         *)
  Bootstrap,   (* address of the administrator in the settings             *)
  Facilities,
  Changes,     (* what clients ask for                                     *)
  NoAccount

AccountStatus == {"Active", "Inactive"}

HumanRole == {"PlatformAdministrator", "FacilityOperator", "EVDriver",
              "Researcher", "DataScientist"}

Account == [type : {"Human", "TechnicalClient"}, status : AccountStatus,
            roles : SUBSET HumanRole, facilities : SUBSET Facilities]

\* A request gives the fields its kind is about; "same" leaves the status alone.
Change == [kind : {"create", "login", "profile", "roles", "facilities"},
           type : {"Human", "TechnicalClient"}, status : AccountStatus \cup {"same"},
           roles : SUBSET HumanRole, facilities : SUBSET Facilities]

ASSUME AccountsAssumption ==
  /\ Bootstrap \in Emails
  /\ Changes \subseteq Change
  /\ NoAccount \notin Account \cup Change

VARIABLES
  account,  (* the users table with each account's roles and facilities    *)
  up,       (* whether the application runs                                *)
  todo,     (* next step of each request                                   *)
  whom,     (* account it is about                                         *)
  change,   (* what it was asked for                                       *)
  user,     (* the account as read, then as decided                        *)
  active,   (* accounts it has counted as active                           *)
  base,     (* the account as read for the update                          *)
  since,    (* history: accounts others have changed since it began to read *)
  lapsed    (* history: a commit that raced another one has taken away the *)
            (* last active administrator                                   *)

asked   == <<whom, change>>
known   == <<user, active, base, since>>
acctVars == <<account, up, todo, asked, known, lapsed>>

Todo == {"idle", "insert", "row", "roles", "count", "admins", "base", "base-roles", "write"}

AccountsTypes ==
  /\ account \in [Emails -> Account \cup {NoAccount}]
  /\ up \in BOOLEAN /\ lapsed \in BOOLEAN
  /\ todo \in [Handlers -> Todo]
  /\ whom \in [Handlers -> Emails]
  /\ change \in [Handlers -> Change \cup {NoAccount}]
  /\ user \in [Handlers -> Account \cup {NoAccount}]
  /\ active \in [Handlers -> SUBSET Emails]
  /\ base \in [Handlers -> Account \cup {NoAccount}]
  /\ since \in [Handlers -> SUBSET Emails]

AccountsInit ==
  /\ account = [e \in Emails |-> NoAccount]
  /\ up = FALSE /\ lapsed = FALSE
  /\ todo = [q \in Handlers |-> "idle"]
  /\ whom = [q \in Handlers |-> Bootstrap]
  /\ change = [q \in Handlers |-> NoAccount]
  /\ user = [q \in Handlers |-> NoAccount]
  /\ active = [q \in Handlers |-> {}]
  /\ base = [q \in Handlers |-> NoAccount]
  /\ since = [q \in Handlers |-> {}]

-----------------------------------------------------------------------------
(* Rules on one account.                                                   *)

Valid(a) ==
  IF a.type = "Human"
  THEN /\ a.status = "Active" => a.roles # {}
       /\ a.facilities # {} => "FacilityOperator" \in a.roles
  ELSE a.roles = {} /\ a.facilities = {}

IsAdmin(a) == "PlatformAdministrator" \in a.roles

\* The accounts the platform is administered from.
ActiveAdmins ==
  {e \in Emails : account[e] # NoAccount /\ account[e].status = "Active" /\ IsAdmin(account[e])}

\* Facilities go with the role they are assigned for.
KeptFacilities(c, a) == IF "FacilityOperator" \in c.roles THEN a.facilities ELSE {}

\* The account as the request wants it.
Applied(c, a) ==
  CASE c.kind = "profile"    -> IF c.status = "same" THEN a ELSE [a EXCEPT !.status = c.status]
    [] c.kind = "roles"      -> [a EXCEPT !.roles = c.roles, !.facilities = KeptFacilities(c, a)]
    [] c.kind = "facilities" -> [a EXCEPT !.facilities = c.facilities]
    [] OTHER                 -> a

\* The slip of validating the account before it is changed.
WasValid(c, a) == Valid(a)

\* Replacing roles validates twice: the kept facilities with the roles the account
\* had, and the result.
Permitted(c, a) ==
  CASE c.kind = "login" -> a.status = "Active" /\ Valid(a)
    [] c.kind = "roles" -> /\ a.type = "TechnicalClient" => c.roles = {}
                           /\ Valid([a EXCEPT !.facilities = KeptFacilities(c, a)])
                           /\ Valid(Applied(c, a))
    [] OTHER            -> Valid(Applied(c, a))

\* Whether the request may take an administrator away, so that it has to count.
TakesAdmin(c, a) ==
  /\ IsAdmin(a)
  /\ \/ c.kind = "profile" /\ c.status = "Inactive"
     \/ c.kind = "roles" /\ "PlatformAdministrator" \notin c.roles /\ a.status = "Active"

-----------------------------------------------------------------------------
(* A request.                                                              *)

Continue(q, s) == todo' = [todo EXCEPT ![q] = s] /\ UNCHANGED <<account, up, asked, lapsed>>

\* The request answers; its database session is closed.
Done(q) ==
  /\ todo' = [todo EXCEPT ![q] = "idle"]
  /\ whom' = [whom EXCEPT ![q] = Bootstrap]
  /\ change' = [change EXCEPT ![q] = NoAccount]
  /\ user' = [user EXCEPT ![q] = NoAccount]
  /\ active' = [active EXCEPT ![q] = {}]
  /\ base' = [base EXCEPT ![q] = NoAccount]
  /\ UNCHANGED up

Rejected(q) == Done(q) /\ since' = [since EXCEPT ![q] = {}] /\ UNCHANGED <<account, lapsed>>

\* The row of account e becomes a; the others may have read it before.
Put(q, e, a) ==
  /\ account' = [account EXCEPT ![e] = a]
  /\ Done(q)
  /\ since' = [p \in Handlers |->
                 IF p = q THEN {}
                 ELSE IF todo[p] # "idle" /\ account[e] # a THEN since[p] \cup {e}
                 ELSE since[p]]

\* Whoever administers accounts is an active administrator when the request is
\* admitted; a login needs none.
Admit(q, c, e) ==
  /\ up /\ todo[q] = "idle"
  /\ c.kind # "login" => \E a \in ActiveAdmins : Valid(account[a])
  /\ todo' = [todo EXCEPT ![q] = IF c.kind = "create" THEN "insert" ELSE "row"]
  /\ whom' = [whom EXCEPT ![q] = e]
  /\ change' = [change EXCEPT ![q] = c]
  /\ UNCHANGED <<account, up, known, lapsed>>

NewAccount(c) ==
  [type |-> c.type, status |-> c.status, roles |-> c.roles, facilities |-> c.facilities]

\* POST /users: the unique address refuses a second account.
InsertAccount(q) ==
  LET c == change[q] IN
  /\ todo[q] = "insert"
  /\ IF account[whom[q]] = NoAccount /\ c.status # "same" /\ Valid(NewAccount(c))
     THEN Put(q, whom[q], NewAccount(c)) /\ UNCHANGED lapsed
     ELSE Rejected(q)

ReadRow(q) ==
  /\ todo[q] = "row"
  /\ IF account[whom[q]] = NoAccount
     THEN Rejected(q)
     ELSE /\ user' = [user EXCEPT ![q] = account[whom[q]]]
          /\ since' = [since EXCEPT ![q] = {}]
          /\ Continue(q, "roles") /\ UNCHANGED <<active, base>>

\* The roles and facilities an account has by now, on a row read before.
WithRoles(a, e) ==
  [a EXCEPT !.roles = account[e].roles, !.facilities = account[e].facilities]

Decide(q, a) ==
  IF Permitted(change[q], a)
  THEN /\ user' = [user EXCEPT ![q] = Applied(change[q], a)]
       /\ active' = [active EXCEPT ![q] = {}]
       /\ Continue(q, "base") /\ UNCHANGED <<base, since>>
  ELSE Rejected(q)

ReadRoles(q) ==
  LET a == WithRoles(user[q], whom[q]) IN
  /\ todo[q] = "roles"
  /\ IF TakesAdmin(change[q], a)
     THEN /\ user' = [user EXCEPT ![q] = a]
          /\ Continue(q, "count") /\ UNCHANGED <<active, base, since>>
     ELSE Decide(q, a)

\* The count of the other active administrators reads the active accounts, and
\* then their roles.
CountActive(q) ==
  /\ todo[q] = "count"
  /\ active' = [active EXCEPT ![q] =
                  {e \in Emails : account[e] # NoAccount /\ account[e].status = "Active"}]
  /\ Continue(q, "admins") /\ UNCHANGED <<user, base, since>>

\* The slip of counting the account itself.
AllAdmins(q) == {e \in active[q] : IsAdmin(account[e])}

OtherAdmins(q) == {e \in active[q] \ {whom[q]} : IsAdmin(account[e])}

CountAdmins(q) ==
  /\ todo[q] = "admins"
  /\ IF OtherAdmins(q) = {} THEN Rejected(q) ELSE Decide(q, user[q])

ReadBase(q) ==
  /\ todo[q] = "base"
  /\ base' = [base EXCEPT ![q] = account[whom[q]]]
  /\ Continue(q, "base-roles") /\ UNCHANGED <<user, active, since>>

ReadBaseRoles(q) ==
  /\ todo[q] = "base-roles"
  /\ base' = [base EXCEPT ![q] = WithRoles(base[q], whom[q])]
  /\ Continue(q, "write") /\ UNCHANGED <<user, active, since>>

\* The difference between two sets of a row's associations, applied to a third.
Differ(current, old, new) == (current \ (old \ new)) \cup (new \ old)

Updated(current, old, new) ==
  [type       |-> current.type,
   status     |-> IF old.status = new.status THEN current.status ELSE new.status,
   roles      |-> Differ(current.roles, old.roles, new.roles),
   facilities |-> Differ(current.facilities, old.facilities, new.facilities)]

\* An association that is there already cannot be inserted; one that is gone can
\* be deleted or not, depending on the driver.
Collides(current, old, new) ==
  \/ (new.roles \ old.roles) \cap current.roles # {}
  \/ (new.facilities \ old.facilities) \cap current.facilities # {}

Gone(current, old, new) == (old.roles \ new.roles) \ current.roles # {}

Update(q) ==
  LET e == whom[q]  current == account[whom[q]] IN
  /\ todo[q] = "write"
  /\ \/ /\ ~Collides(current, base[q], user[q])
        /\ Put(q, e, Updated(current, base[q], user[q]))
        /\ lapsed' = (lapsed \/ (since[q] # {} /\ ActiveAdmins # {} /\ ActiveAdmins' = {}))
     \/ /\ Collides(current, base[q], user[q]) \/ Gone(current, base[q], user[q])
        /\ Rejected(q)

\* The connection is lost before the commit.
Drop(q) == todo[q] # "idle" /\ Rejected(q)

Serve(q) ==
  \/ InsertAccount(q) \/ ReadRow(q) \/ ReadRoles(q) \/ CountActive(q) \/ CountAdmins(q)
  \/ ReadBase(q) \/ ReadBaseRoles(q) \/ Update(q) \/ Drop(q)

-----------------------------------------------------------------------------
(* The application.                                                        *)

FirstAdmin ==
  [type |-> "Human", status |-> "Active", roles |-> {"PlatformAdministrator"},
   facilities |-> {}]

AdminExists == \E e \in Emails : account[e] # NoAccount /\ IsAdmin(account[e])

\* Where no account has the role, active or not, the start creates the
\* administrator of the settings; where the address is taken, it fails.
StartUp ==
  /\ ~up
  /\ \/ AdminExists /\ UNCHANGED account
     \/ /\ ~AdminExists /\ account[Bootstrap] = NoAccount
        /\ account' = [account EXCEPT ![Bootstrap] = FirstAdmin]
  /\ up' = TRUE
  /\ UNCHANGED <<todo, asked, known, lapsed>>

\* The process dies, and the requests it serves with it.
Die ==
  /\ up /\ up' = FALSE
  /\ todo' = [q \in Handlers |-> "idle"]
  /\ whom' = [q \in Handlers |-> Bootstrap]
  /\ change' = [q \in Handlers |-> NoAccount]
  /\ user' = [q \in Handlers |-> NoAccount]
  /\ active' = [q \in Handlers |-> {}]
  /\ base' = [q \in Handlers |-> NoAccount]
  /\ since' = [q \in Handlers |-> {}]
  /\ UNCHANGED <<account, lapsed>>

AccountsNext ==
  \/ \E q \in Handlers :
       \/ \E c \in Changes, e \in Emails : Admit(q, c, e)
       \/ Serve(q)
  \/ StartUp
  \/ Die

AccountsSpec == AccountsInit /\ [][AccountsNext]_acctVars

-----------------------------------------------------------------------------
(* Properties.                                                             *)

\* What a request knows of its account is true unless others have changed the
\* account since; what it knows of the others, unless they have changed any.
KnowsAccount(q) ==
  LET a == account[whom[q]]  same == whom[q] \notin since[q] IN
  /\ todo[q] \notin {"idle", "insert", "row"} =>
       /\ a # NoAccount /\ user[q] # NoAccount /\ change[q] # NoAccount
  /\ todo[q] \in {"insert", "row"} => change[q] # NoAccount
  /\ todo[q] \in {"roles", "count", "admins"} /\ same => user[q] = a
  /\ todo[q] = "admins" =>
       /\ \A e \in active[q] : account[e] # NoAccount
       /\ since[q] = {} => \A e \in active[q] : account[e].status = "Active"
  /\ todo[q] \in {"base", "base-roles", "write"} /\ same =>
       user[q] = Applied(change[q], a) /\ Permitted(change[q], a)
  /\ todo[q] \in {"base", "base-roles", "write"} /\ since[q] = {} /\ TakesAdmin(change[q], a) =>
       ActiveAdmins \ {whom[q]} # {}
  /\ todo[q] \in {"base-roles", "write"} => base[q] # NoAccount
  /\ todo[q] \in {"base-roles", "write"} /\ same => base[q] = a

KnowsAccounts == \A q \in Handlers : KnowsAccount(q)

\* The last active administrator is never deactivated and never loses the role,
\* and the application can be started again, except after two requests have raced:
\* one that changed an account between the reads and the write of the other.
AnAdministratorRemains ==
  lapsed \/ ((up => ActiveAdmins # {}) /\ (AdminExists \/ account[Bootstrap] = NoAccount))

\* The inductive invariant.
AccountsInv == AccountsTypes /\ KnowsAccounts /\ AnAdministratorRemains

\* Whatever reads and writes of others lie between its own, a request does to its
\* account exactly what it was asked for and leaves it valid, and a login changes
\* nothing, unless another request has changed that very account since.
ChangesAsAsked ==
  [][\A q \in Handlers :
       todo[q] = "write" /\ todo'[q] = "idle" /\ whom[q] \notin since[q] /\ account' # account =>
         LET e == whom[q] IN
         /\ account' = [account EXCEPT ![e] = Applied(change[q], account[e])]
         /\ Valid(account'[e])
         /\ change[q].kind # "login"]_acctVars
=============================================================================

---------------------------- MODULE AccountsProofs ----------------------------
(***************************************************************************)
(* Any number of requests, accounts and facilities.  The invariant of the  *)
(* runs is inductive once it also says that requests are served by a       *)
(* running application, and that the role of an administrator implies an   *)
(* active one: an application that starts must not find administrators who *)
(* are all inactive.                                                       *)
(***************************************************************************)
EXTENDS Accounts, TLAPS

\* Requests are served while the application runs.
Served == \A q \in Handlers : todo[q] # "idle" => up

\* Where an account has the role, active or not, there is an active administrator:
\* what a start relies on when it creates none.
Administered == lapsed \/ (AdminExists => ActiveAdmins # {})

\* The inductive invariant.
IInv == AccountsInv /\ Served /\ Administered

-----------------------------------------------------------------------------
(* Rules on one account.                                                   *)

\* A change keeps the type of account it is about.
LEMMA AppliedType ==
  ASSUME NEW c \in Change, NEW a \in Account
  PROVE  Applied(c, a) \in Account /\ Applied(c, a).type = a.type
  BY DEF Applied, Account, Change, KeptFacilities

\* So does the difference that is written.
LEMMA UpdatedType ==
  ASSUME NEW a \in Account, NEW old \in Account, NEW new \in Account
  PROVE  Updated(a, old, new) \in Account
<1>1. Differ(a.roles, old.roles, new.roles) \in SUBSET HumanRole
  BY DEF Differ, Account
<1>2. Differ(a.facilities, old.facilities, new.facilities) \in SUBSET Facilities
  BY DEF Differ, Account
<1> QED
  BY <1>1, <1>2 DEF Updated, Account

\* Where nobody else has changed it, the account becomes what was decided.
LEMMA UpdatedAsDecided ==
  ASSUME NEW a \in Account, NEW b \in Account, b.type = a.type
  PROVE  Updated(a, a, b) = b
<1>1. Differ(a.roles, a.roles, b.roles) = b.roles
  BY DEF Differ
<1>2. Differ(a.facilities, a.facilities, b.facilities) = b.facilities
  BY DEF Differ
<1> QED
  BY <1>1, <1>2 DEF Updated, Account

\* And so does a row that was read before, with the roles of now.
LEMMA WithRolesType ==
  ASSUME NEW a \in Account, NEW e \in Emails, account[e] \in Account
  PROVE  /\ WithRoles(a, e) \in Account
         /\ a = account[e] => WithRoles(a, e) = a
  BY DEF WithRoles, Account

\* What is permitted leaves the account valid, and a login leaves it alone.
LEMMA PermittedIsValid ==
  ASSUME NEW c \in Change, NEW a \in Account, Permitted(c, a)
  PROVE  Valid(Applied(c, a)) /\ (c.kind = "login" => Applied(c, a) = a)
  BY DEF Permitted, Applied, Change

\* Only a request that has to count can make an active administrator something
\* else, or take the role from an account that is active.
LEMMA KeepsAdmin ==
  ASSUME NEW c \in Change, NEW a \in Account, ~TakesAdmin(c, a), IsAdmin(a), a.status = "Active"
  PROVE  IsAdmin(Applied(c, a)) /\ Applied(c, a).status = "Active"
  BY DEF TakesAdmin, IsAdmin, Applied, Account, AccountStatus, Change

-----------------------------------------------------------------------------
(* Types.                                                                  *)

\* Types need to know that what a step of a request uses has been read.
LEMMA TypesStep ==
  ASSUME AccountsTypes, KnowsAccounts, [AccountsNext]_acctVars
  PROVE  AccountsTypes'
<1> USE AccountsAssumption DEF AccountsTypes
<1>1. ASSUME NEW q \in Handlers, Rejected(q)
      PROVE  AccountsTypes'
  BY <1>1 DEF Rejected, Done, Todo
<1>2. ASSUME NEW q \in Handlers, NEW e \in Emails, NEW a \in Account, Put(q, e, a),
             lapsed' \in BOOLEAN
      PROVE  AccountsTypes'
  <2>1. since' \in [Handlers -> SUBSET Emails]
    BY <1>2 DEF Put
  <2> QED
    BY <1>2, <2>1 DEF Put, Done, Todo
<1>3. ASSUME NEW q \in Handlers, NEW a \in Account, change[q] # NoAccount, Decide(q, a)
      PROVE  AccountsTypes'
  <2>1. CASE Permitted(change[q], a)
    <3>1. Applied(change[q], a) \in Account
      BY <1>3, AppliedType
    <3> QED
      BY <1>3, <2>1, <3>1 DEF Decide, Continue, asked, Todo
  <2> QED
    BY <1>1, <1>3, <2>1 DEF Decide
<1>4. ASSUME NEW q \in Handlers, NEW c \in Changes, NEW e \in Emails, Admit(q, c, e)
      PROVE  AccountsTypes'
  BY <1>4 DEF Admit, known, Todo
<1>5. ASSUME NEW q \in Handlers, Serve(q)
      PROVE  AccountsTypes'
  <2>0. KnowsAccount(q)
    BY DEF KnowsAccounts
  <2>1. CASE InsertAccount(q)
    <3>1. CASE change[q].status # "same" /\ Put(q, whom[q], NewAccount(change[q])) /\ UNCHANGED lapsed
      <4>1. NewAccount(change[q]) \in Account
        BY <2>0, <2>1, <3>1 DEF KnowsAccount, InsertAccount, NewAccount, Account, Change
      <4> QED
        BY <1>2, <3>1, <4>1
    <3> QED
      BY <1>1, <2>1, <3>1 DEF InsertAccount
  <2>2. CASE ReadRow(q)
    BY <1>1, <2>2 DEF ReadRow, Continue, asked, Todo
  <2>3. CASE ReadRoles(q)
    <3>1. /\ account[whom[q]] \in Account /\ user[q] \in Account /\ change[q] # NoAccount
      BY <2>0, <2>3 DEF KnowsAccount, ReadRoles
    <3>2. WithRoles(user[q], whom[q]) \in Account
      BY <3>1, WithRolesType
    <3>3. CASE TakesAdmin(change[q], WithRoles(user[q], whom[q]))
      BY <2>3, <3>2, <3>3 DEF ReadRoles, Continue, asked, Todo
    <3> QED
      BY <1>3, <2>3, <3>1, <3>2, <3>3 DEF ReadRoles
  <2>4. CASE CountActive(q)
    BY <2>4 DEF CountActive, Continue, asked, Todo
  <2>5. CASE CountAdmins(q)
    <3>1. user[q] \in Account /\ change[q] # NoAccount
      BY <2>0, <2>5 DEF KnowsAccount, CountAdmins
    <3> QED
      BY <1>1, <1>3, <2>5, <3>1 DEF CountAdmins
  <2>6. CASE ReadBase(q)
    BY <2>6 DEF ReadBase, Continue, asked, Todo
  <2>7. CASE ReadBaseRoles(q)
    <3>1. account[whom[q]] \in Account /\ base[q] \in Account
      BY <2>0, <2>7 DEF KnowsAccount, ReadBaseRoles
    <3>2. WithRoles(base[q], whom[q]) \in Account
      BY <3>1, WithRolesType
    <3> QED
      BY <2>7, <3>2 DEF ReadBaseRoles, Continue, asked, Todo
  <2>8. CASE Update(q)
    <3>1. account[whom[q]] \in Account /\ base[q] \in Account /\ user[q] \in Account
      BY <2>0, <2>8 DEF KnowsAccount, Update
    <3>2. Updated(account[whom[q]], base[q], user[q]) \in Account
      BY <3>1, UpdatedType
    <3>3. CASE /\ Put(q, whom[q], Updated(account[whom[q]], base[q], user[q]))
               /\ lapsed' = (lapsed \/ (since[q] # {} /\ ActiveAdmins # {} /\ ActiveAdmins' = {}))
      <4>1. lapsed' \in BOOLEAN
        BY <3>3
      <4> QED
        BY <1>2, <3>2, <3>3, <4>1
    <3> QED
      BY <1>1, <2>8, <3>3 DEF Update
  <2>9. CASE Drop(q)
    BY <1>1, <2>9 DEF Drop
  <2> QED
    BY <1>5, <2>1, <2>2, <2>3, <2>4, <2>5, <2>6, <2>7, <2>8, <2>9 DEF Serve
<1>6. CASE StartUp
  <2>1. FirstAdmin \in Account
    BY DEF FirstAdmin, Account, AccountStatus, HumanRole
  <2> QED
    BY <1>6, <2>1 DEF StartUp, asked, known
<1>7. CASE Die
  BY <1>7 DEF Die, Todo
<1>8. CASE UNCHANGED acctVars
  BY <1>8 DEF acctVars, asked, known
<1> QED
  BY <1>4, <1>5, <1>6, <1>7, <1>8 DEF AccountsNext

-----------------------------------------------------------------------------
(* What requests know.                                                     *)

\* A step of another request leaves what q knows true: an account it changes is
\* in since afterwards.
LEMMA OthersStep ==
  ASSUME AccountsTypes, NEW q \in Handlers, KnowsAccount(q), todo[q] # "idle",
         NEW e \in Emails, NEW a, account' = [account EXCEPT ![e] = a],
         account[e] # NoAccount => a # NoAccount,
         UNCHANGED <<todo[q], whom[q], change[q], user[q], active[q], base[q]>>,
         since'[q] = IF account[e] # a THEN since[q] \cup {e} ELSE since[q]
  PROVE  KnowsAccount(q)'
<1>1. CASE account[e] = a
  <2>1. account' = account /\ since'[q] = since[q]
    BY <1>1 DEF AccountsTypes
  <2>2. ActiveAdmins' = ActiveAdmins
    BY <2>1 DEF ActiveAdmins
  <2> QED
    BY <2>1, <2>2 DEF KnowsAccount
<1>2. CASE account[e] # a
  <2>1. since'[q] = since[q] \cup {e} /\ since'[q] # {}
    BY <1>2
  <2>2. \A d \in Emails : account[d] # NoAccount => account'[d] # NoAccount
    BY AccountsAssumption DEF AccountsTypes
  <2>3. \A d \in Emails : d # e => account'[d] = account[d]
    BY DEF AccountsTypes
  <2>4. whom[q] \in Emails /\ active[q] \subseteq Emails
    BY DEF AccountsTypes
  <2>5. whom[q] \notin since'[q] => whom[q] \notin since[q] /\ account'[whom[q]] = account[whom[q]]
    BY <2>1, <2>3, <2>4
  <2> QED
    BY <2>1, <2>2, <2>4, <2>5 DEF KnowsAccount
<1> QED
  BY <1>1, <1>2

\* What a request decides on follows from what it has read.
LEMMA DecideStep ==
  ASSUME AccountsTypes, NEW q \in Handlers, KnowsAccount(q), NEW a \in Account, Decide(q, a),
         account[whom[q]] # NoAccount, change[q] # NoAccount,
         whom[q] \notin since[q] => a = account[whom[q]],
         since[q] = {} /\ TakesAdmin(change[q], a) => ActiveAdmins \ {whom[q]} # {}
  PROVE  KnowsAccount(q)'
<1>1. CASE Rejected(q)
  BY <1>1 DEF Rejected, Done, KnowsAccount, AccountsTypes
<1>2. CASE /\ Permitted(change[q], a)
           /\ user' = [user EXCEPT ![q] = Applied(change[q], a)]
           /\ active' = [active EXCEPT ![q] = {}]
           /\ Continue(q, "base") /\ UNCHANGED <<base, since>>
  <2>1. Applied(change[q], a) # NoAccount
    BY AppliedType, AccountsAssumption DEF AccountsTypes
  <2>2. /\ todo'[q] = "base" /\ user'[q] = Applied(change[q], a)
        /\ UNCHANGED <<account, whom, change, since>>
    BY <1>2 DEF Continue, asked, AccountsTypes
  <2>3. ActiveAdmins' = ActiveAdmins
    BY <2>2 DEF ActiveAdmins
  <2> QED
    BY <1>2, <2>1, <2>2, <2>3 DEF KnowsAccount
<1> QED
  BY <1>1, <1>2 DEF Decide

\* The steps of a request itself.
LEMMA OwnStep ==
  ASSUME AccountsTypes, NEW q \in Handlers, KnowsAccount(q), Serve(q)
  PROVE  KnowsAccount(q)'
<1>1. CASE Rejected(q)
  BY <1>1 DEF Rejected, Done, KnowsAccount, AccountsTypes
<1>2. CASE \E e \in Emails : \E a : Put(q, e, a)
  BY <1>2 DEF Put, Done, KnowsAccount, AccountsTypes
<1>3. CASE InsertAccount(q)
  BY <1>1, <1>2, <1>3 DEF InsertAccount, AccountsTypes
<1>4. CASE ReadRow(q)
  BY <1>1, <1>4 DEF ReadRow, Continue, asked, KnowsAccount, AccountsTypes
<1>5. CASE ReadRoles(q)
  <2> DEFINE a == WithRoles(user[q], whom[q])
  <2>1. /\ account[whom[q]] \in Account /\ user[q] \in Account /\ change[q] # NoAccount
        /\ account[whom[q]] # NoAccount
        /\ whom[q] \notin since[q] => user[q] = account[whom[q]]
    BY <1>5 DEF KnowsAccount, ReadRoles, AccountsTypes
  <2>2. a \in Account /\ (whom[q] \notin since[q] => a = account[whom[q]])
    BY <2>1, WithRolesType DEF AccountsTypes
  <2>3. CASE TakesAdmin(change[q], a)
    <3>1. /\ todo'[q] = "count" /\ user'[q] = a /\ UNCHANGED <<account, whom, change, since>>
      BY <1>5, <2>3 DEF ReadRoles, Continue, asked, AccountsTypes
    <3> QED
      BY <2>1, <2>2, <3>1, AccountsAssumption DEF KnowsAccount
  <2>4. CASE ~TakesAdmin(change[q], a)
    <3>1. Decide(q, a)
      BY <1>5, <2>4 DEF ReadRoles
    <3> QED
      BY <2>1, <2>2, <2>4, <3>1, DecideStep
  <2> QED
    BY <2>3, <2>4
<1>6. CASE CountActive(q)
  BY <1>6 DEF CountActive, Continue, asked, KnowsAccount, AccountsTypes
<1>7. CASE CountAdmins(q)
  <2>1. /\ user[q] \in Account /\ change[q] # NoAccount /\ account[whom[q]] # NoAccount
        /\ whom[q] \notin since[q] => user[q] = account[whom[q]]
    BY <1>7 DEF KnowsAccount, CountAdmins, AccountsTypes
  <2>2. CASE OtherAdmins(q) # {} /\ Decide(q, user[q])
    <3>1. since[q] = {} => OtherAdmins(q) \subseteq ActiveAdmins \ {whom[q]}
      BY <1>7 DEF KnowsAccount, CountAdmins, OtherAdmins, ActiveAdmins, AccountsTypes
    <3> QED
      BY <2>1, <2>2, <3>1, DecideStep
  <2> QED
    BY <1>1, <1>7, <2>2 DEF CountAdmins
<1>8. CASE ReadBase(q)
  <2>1. /\ todo[q] = "base" /\ todo'[q] = "base-roles" /\ base'[q] = account[whom[q]]
        /\ UNCHANGED <<account, whom, change, user, active, since>>
    BY <1>8 DEF ReadBase, Continue, asked, AccountsTypes
  <2>2. ActiveAdmins' = ActiveAdmins
    BY <2>1 DEF ActiveAdmins
  <2> QED
    BY <2>1, <2>2 DEF KnowsAccount
<1>9. CASE ReadBaseRoles(q)
  <2>1. /\ todo[q] = "base-roles" /\ todo'[q] = "write" /\ base'[q] = WithRoles(base[q], whom[q])
        /\ UNCHANGED <<account, whom, change, user, active, since>>
    BY <1>9 DEF ReadBaseRoles, Continue, asked, AccountsTypes
  <2>2. ActiveAdmins' = ActiveAdmins
    BY <2>1 DEF ActiveAdmins
  <2>3. base[q] \in Account /\ account[whom[q]] \in Account /\ whom[q] \in Emails
    BY <2>1 DEF KnowsAccount, AccountsTypes
  <2>4. base'[q] # NoAccount /\ (base[q] = account[whom[q]] => base'[q] = account[whom[q]])
    BY <2>1, <2>3, WithRolesType, AccountsAssumption
  <2> QED
    BY <2>1, <2>2, <2>4 DEF KnowsAccount
<1>10. CASE Update(q)
  BY <1>1, <1>2, <1>10 DEF Update, AccountsTypes
<1>11. CASE Drop(q)
  BY <1>1, <1>11 DEF Drop
<1> QED
  BY <1>3, <1>4, <1>5, <1>6, <1>7, <1>8, <1>9, <1>10, <1>11 DEF Serve

\* A request touches at most one account, and of the other requests at most what
\* they have to know about that.
LEMMA ServeEffect ==
  ASSUME AccountsTypes, NEW p \in Handlers, Serve(p), NEW q \in Handlers, q # p, todo[q] # "idle"
  PROVE  /\ UNCHANGED <<up, todo[q], whom[q], change[q], user[q], active[q], base[q]>>
         /\ \E e \in Emails :
              /\ account' = [account EXCEPT ![e] = account'[e]]
              /\ since'[q] = IF account[e] # account'[e] THEN since[q] \cup {e} ELSE since[q]
<1> DEFINE Effect ==
      /\ UNCHANGED <<up, todo[q], whom[q], change[q], user[q], active[q], base[q]>>
      /\ \E e \in Emails :
           /\ account' = [account EXCEPT ![e] = account'[e]]
           /\ since'[q] = IF account[e] # account'[e] THEN since[q] \cup {e} ELSE since[q]
<1> USE DEF AccountsTypes
<1>1. ASSUME UNCHANGED account, since'[q] = since[q],
             UNCHANGED <<up, todo[q], whom[q], change[q], user[q], active[q], base[q]>>
      PROVE  Effect
  <2>1. /\ whom[p] \in Emails /\ account'[whom[p]] = account[whom[p]]
        /\ account' = [account EXCEPT ![whom[p]] = account'[whom[p]]]
    BY <1>1
  <2> QED
    BY <1>1, <2>1
<1>2. ASSUME Rejected(p)
      PROVE  Effect
  <2>1. /\ UNCHANGED account /\ since'[q] = since[q]
        /\ UNCHANGED <<up, todo[q], whom[q], change[q], user[q], active[q], base[q]>>
    BY <1>2 DEF Rejected, Done
  <2> QED
    BY <1>1, <2>1
<1>3. ASSUME NEW a, Put(p, whom[p], a)
      PROVE  Effect
  <2>1. /\ whom[p] \in Emails /\ account' = [account EXCEPT ![whom[p]] = account'[whom[p]]]
        /\ since'[q] = IF account[whom[p]] # account'[whom[p]] THEN since[q] \cup {whom[p]} ELSE since[q]
        /\ UNCHANGED <<up, todo[q], whom[q], change[q], user[q], active[q], base[q]>>
    BY <1>3 DEF Put, Done
  <2> QED
    BY <2>1
<1>4. ASSUME NEW a, Decide(p, a)
      PROVE  Effect
  <2>1. CASE Rejected(p)
    BY <1>2, <2>1
  <2>2. CASE ~Rejected(p)
    <3>1. /\ UNCHANGED account /\ since'[q] = since[q]
          /\ UNCHANGED <<up, todo[q], whom[q], change[q], user[q], active[q], base[q]>>
      BY <1>4, <2>2 DEF Decide, Continue, asked
    <3> QED
      BY <1>1, <3>1
  <2> QED
    BY <2>1, <2>2
<1>5. CASE InsertAccount(p)
  BY <1>2, <1>3, <1>5 DEF InsertAccount
<1>6. CASE ReadRow(p)
  <2>1. CASE ~Rejected(p)
    <3>1. /\ UNCHANGED account /\ since'[q] = since[q]
          /\ UNCHANGED <<up, todo[q], whom[q], change[q], user[q], active[q], base[q]>>
      BY <1>6, <2>1 DEF ReadRow, Continue, asked
    <3> QED
      BY <1>1, <3>1
  <2> QED
    BY <1>2, <2>1
<1>7. CASE ReadRoles(p)
  <2>1. CASE ~Decide(p, WithRoles(user[p], whom[p]))
    <3>1. /\ UNCHANGED account /\ since'[q] = since[q]
          /\ UNCHANGED <<up, todo[q], whom[q], change[q], user[q], active[q], base[q]>>
      BY <1>7, <2>1 DEF ReadRoles, Continue, asked
    <3> QED
      BY <1>1, <3>1
  <2> QED
    BY <1>4, <2>1
<1>8. CASE CountAdmins(p)
  BY <1>2, <1>4, <1>8 DEF CountAdmins
<1>9. CASE CountActive(p) \/ ReadBase(p) \/ ReadBaseRoles(p)
  <2>1. /\ UNCHANGED account /\ since'[q] = since[q]
        /\ UNCHANGED <<up, todo[q], whom[q], change[q], user[q], active[q], base[q]>>
    BY <1>9 DEF CountActive, ReadBase, ReadBaseRoles, Continue, asked
  <2> QED
    BY <1>1, <2>1
<1>10. CASE Update(p)
  BY <1>2, <1>3, <1>10 DEF Update
<1>11. CASE Drop(p)
  BY <1>2, <1>11 DEF Drop
<1> QED
  BY <1>5, <1>6, <1>7, <1>8, <1>9, <1>10, <1>11 DEF Serve

\* Accounts are never deleted.
LEMMA AccountsStay ==
  ASSUME AccountsTypes, NEW p \in Handlers, KnowsAccount(p), Serve(p),
         NEW e \in Emails, account[e] # NoAccount
  PROVE  account'[e] # NoAccount
<1>1. CASE UNCHANGED account
  BY <1>1
<1>2. CASE Update(p) /\ account' # account
  <2>1. account[whom[p]] \in Account /\ base[p] \in Account /\ user[p] \in Account
    BY <1>2 DEF Update, KnowsAccount, AccountsTypes
  <2>2. Updated(account[whom[p]], base[p], user[p]) # NoAccount
    BY <2>1, UpdatedType, AccountsAssumption
  <2>3. account' = [account EXCEPT ![whom[p]] = Updated(account[whom[p]], base[p], user[p])]
    BY <1>2 DEF Update, Put, Rejected
  <2> QED
    BY <2>2, <2>3 DEF AccountsTypes
<1>3. CASE InsertAccount(p) /\ account' # account
  BY <1>3 DEF InsertAccount, Put, Rejected, AccountsTypes
<1> QED
  BY <1>1, <1>2, <1>3 DEF Serve, ReadRow, ReadRoles, CountActive, CountAdmins, Decide, ReadBase,
     ReadBaseRoles, Drop, Rejected, Continue

\* A step of one request is none of another's.
LEMMA IdleStays ==
  ASSUME AccountsTypes, NEW p \in Handlers, Serve(p), NEW q \in Handlers, q # p
  PROVE  todo'[q] = todo[q]
  BY DEF AccountsTypes, Serve, InsertAccount, ReadRow, ReadRoles, CountActive, CountAdmins, Decide,
     ReadBase, ReadBaseRoles, Update, Drop, Put, Done, Rejected, Continue

\* What a request knows stays true, or `since' says that it need not.
LEMMA KnowsStep ==
  ASSUME AccountsTypes, KnowsAccounts, Served, [AccountsNext]_acctVars
  PROVE  KnowsAccounts'
<1> SUFFICES ASSUME NEW q \in Handlers
             PROVE  KnowsAccount(q)'
  BY DEF KnowsAccounts
<1>1. KnowsAccount(q)
  BY DEF KnowsAccounts
<1>2. ASSUME NEW p \in Handlers, NEW c \in Changes, NEW e \in Emails, Admit(p, c, e)
      PROVE  KnowsAccount(q)'
  <2>1. ActiveAdmins' = ActiveAdmins
    BY <1>2 DEF Admit, ActiveAdmins
  <2>2. c # NoAccount
    BY AccountsAssumption DEF Account, Change, AccountStatus
  <2> QED
    BY <1>1, <1>2, <2>1, <2>2 DEF Admit, known, KnowsAccount, AccountsTypes
<1>3. ASSUME NEW p \in Handlers, Serve(p)
      PROVE  KnowsAccount(q)'
  <2>1. CASE q = p
    BY <1>1, <1>3, <2>1, OwnStep
  <2>2. CASE q # p /\ todo[q] # "idle"
    <3>1. PICK e \in Emails :
            /\ account' = [account EXCEPT ![e] = account'[e]]
            /\ since'[q] = IF account[e] # account'[e] THEN since[q] \cup {e} ELSE since[q]
      BY <1>3, <2>2, ServeEffect
    <3>2. account[e] # NoAccount => account'[e] # NoAccount
      BY <1>3, AccountsStay DEF KnowsAccounts
    <3>3. UNCHANGED <<todo[q], whom[q], change[q], user[q], active[q], base[q]>>
      BY <1>3, <2>2, ServeEffect
    <3>4. PICK a : a = account'[e]
      OBVIOUS
    <3>5. /\ account' = [account EXCEPT ![e] = a] /\ (account[e] # NoAccount => a # NoAccount)
          /\ since'[q] = IF account[e] # a THEN since[q] \cup {e} ELSE since[q]
      BY <3>1, <3>2, <3>4
    <3> QED
      BY <1>1, <2>2, <3>3, <3>5, OthersStep
  <2>3. CASE q # p /\ todo[q] = "idle"
    BY <1>3, <2>3, IdleStays DEF KnowsAccount
  <2> QED
    BY <2>1, <2>2, <2>3
<1>4. CASE StartUp
  <2>1. todo[q] = "idle" /\ todo'[q] = "idle"
    BY <1>4 DEF StartUp, Served
  <2> QED
    BY <2>1 DEF KnowsAccount
<1>5. CASE Die
  BY <1>5 DEF Die, KnowsAccount
<1>6. CASE UNCHANGED acctVars
  <2>1. ActiveAdmins' = ActiveAdmins
    BY <1>6 DEF acctVars, ActiveAdmins
  <2> QED
    BY <1>1, <1>6, <2>1 DEF acctVars, asked, known, KnowsAccount
<1> QED
  BY <1>2, <1>3, <1>4, <1>5, <1>6 DEF AccountsNext

-----------------------------------------------------------------------------
(* The last administrator.                                                 *)

\* Whoever has counted leaves an active administrator, unless somebody else has
\* changed an account since.
LEMMA UpdateKeepsAdmin ==
  ASSUME AccountsTypes, NEW q \in Handlers, KnowsAccount(q), Update(q), account' # account,
         since[q] = {}, ActiveAdmins # {}
  PROVE  ActiveAdmins' # {}
<1> DEFINE a == account[whom[q]]
           b == Applied(change[q], a)
<1>1. /\ whom[q] \in Emails /\ a \in Account /\ change[q] \in Change
      /\ user[q] = b /\ base[q] = a
      /\ TakesAdmin(change[q], a) => ActiveAdmins \ {whom[q]} # {}
  BY DEF Update, KnowsAccount, AccountsTypes
<1>2. b \in Account /\ Updated(a, a, b) = b
  BY <1>1, AppliedType, UpdatedAsDecided
<1>3. account' = [account EXCEPT ![whom[q]] = b]
  BY <1>1, <1>2 DEF Update, Put, Rejected
<1>4. b # NoAccount
  BY <1>2, AccountsAssumption
<1>5. ActiveAdmins \ {whom[q]} \subseteq ActiveAdmins'
  BY <1>3 DEF ActiveAdmins, AccountsTypes
<1>6. CASE TakesAdmin(change[q], a)
  BY <1>1, <1>5, <1>6
<1>7. CASE ~TakesAdmin(change[q], a)
  <2>1. whom[q] \in ActiveAdmins => IsAdmin(b) /\ b.status = "Active"
    BY <1>1, <1>7, KeepsAdmin DEF ActiveAdmins
  <2>2. whom[q] \in ActiveAdmins => whom[q] \in ActiveAdmins'
    BY <1>1, <1>3, <1>4, <2>1 DEF ActiveAdmins, AccountsTypes
  <2> QED
    BY <1>5, <2>2
<1> QED
  BY <1>6, <1>7

\* The last administrator goes only where two requests have raced.
LEMMA AdminsStep ==
  ASSUME AccountsTypes, KnowsAccounts, Served, Administered, AnAdministratorRemains,
         [AccountsNext]_acctVars
  PROVE  Administered' /\ AnAdministratorRemains'
<1> DEFINE Kept == Administered' /\ AnAdministratorRemains'
<1>1. ASSUME UNCHANGED account, lapsed' = lapsed, up' \in {up, FALSE}
      PROVE  Kept
  <2>1. ActiveAdmins' = ActiveAdmins /\ AdminExists' = AdminExists
    BY <1>1 DEF ActiveAdmins, AdminExists
  <2>2. up' => up
    BY <1>1
  <2> QED
    BY <1>1, <2>1, <2>2 DEF Administered, AnAdministratorRemains
<1>2. ASSUME ActiveAdmins' # {}
      PROVE  Kept
  <2>1. AdminExists'
    BY <1>2 DEF ActiveAdmins, AdminExists
  <2> QED
    BY <1>2, <2>1 DEF Administered, AnAdministratorRemains
<1>3. ASSUME lapsed'
      PROVE  Kept
  BY <1>3 DEF Administered, AnAdministratorRemains
<1>4. ASSUME NEW q \in Handlers, Serve(q)
      PROVE  Kept
  <2>1. KnowsAccount(q) /\ up
    BY <1>4 DEF KnowsAccounts, Served, Serve, InsertAccount, ReadRow, ReadRoles, CountActive,
       CountAdmins, ReadBase, ReadBaseRoles, Update, Drop
  <2>2. CASE InsertAccount(q) /\ account' # account
    <3>1. ActiveAdmins \subseteq ActiveAdmins' /\ lapsed' = lapsed
      BY <2>2 DEF InsertAccount, Put, Rejected, ActiveAdmins, AccountsTypes
    <3> QED
      BY <1>2, <1>3, <2>1, <3>1 DEF AnAdministratorRemains
  <2>3. CASE Update(q) /\ account' # account
    <3>1. lapsed' = (lapsed \/ (since[q] # {} /\ ActiveAdmins # {} /\ ActiveAdmins' = {}))
      BY <2>3 DEF Update, Rejected
    <3>2. CASE lapsed
      BY <1>3, <3>1, <3>2
    <3>3. CASE ~lapsed
      <4>1. ActiveAdmins # {}
        BY <2>1, <3>3 DEF AnAdministratorRemains
      <4> QED
        BY <1>2, <1>3, <2>1, <2>3, <3>1, <4>1, UpdateKeepsAdmin
    <3> QED
      BY <3>2, <3>3
  <2>4. CASE UNCHANGED account
    <3>1. up' = up /\ (lapsed' \/ lapsed' = lapsed)
      BY <1>4 DEF Serve, InsertAccount, ReadRow, ReadRoles, CountActive, CountAdmins, Decide,
         ReadBase, ReadBaseRoles, Update, Drop, Put, Done, Rejected, Continue, AccountsTypes
    <3> QED
      BY <1>1, <1>3, <2>4, <3>1
  <2> QED
    BY <1>4, <2>2, <2>3, <2>4 DEF Serve, ReadRow, ReadRoles, CountActive, CountAdmins, Decide,
       ReadBase, ReadBaseRoles, Drop, Rejected, Continue
<1>5. ASSUME NEW q \in Handlers, NEW c \in Changes, NEW e \in Emails, Admit(q, c, e)
      PROVE  Kept
  BY <1>1, <1>5 DEF Admit
<1>6. CASE StartUp
  <2>1. CASE AdminExists /\ UNCHANGED account
    <3>1. ActiveAdmins' = ActiveAdmins
      BY <2>1 DEF ActiveAdmins
    <3> QED
      BY <1>2, <1>3, <1>6, <2>1, <3>1 DEF StartUp, Administered
  <2>2. CASE account' = [account EXCEPT ![Bootstrap] = FirstAdmin]
    <3>1. FirstAdmin # NoAccount
      BY AccountsAssumption DEF FirstAdmin, Account, AccountStatus, HumanRole
    <3>2. Bootstrap \in ActiveAdmins'
      BY <2>2, <3>1, AccountsAssumption DEF ActiveAdmins, IsAdmin, FirstAdmin, AccountsTypes
    <3> QED
      BY <1>2, <3>2
  <2> QED
    BY <1>6, <2>1, <2>2 DEF StartUp
<1>7. CASE Die
  BY <1>1, <1>7 DEF Die
<1>8. CASE UNCHANGED acctVars
  BY <1>1, <1>8 DEF acctVars
<1> QED
  BY <1>4, <1>5, <1>6, <1>7, <1>8 DEF AccountsNext

-----------------------------------------------------------------------------
(* Theorems.                                                               *)

\* A process that dies takes its requests with it.
LEMMA ServedStep ==
  ASSUME AccountsTypes, Served, [AccountsNext]_acctVars
  PROVE  Served'
<1>1. ASSUME NEW p \in Handlers, Serve(p)
      PROVE  Served'
  <2>1. up /\ up' = up
    BY <1>1 DEF Served, Serve, InsertAccount, ReadRow, ReadRoles, CountActive, CountAdmins, Decide,
       ReadBase, ReadBaseRoles, Update, Drop, Put, Done, Rejected, Continue
  <2> QED
    BY <2>1 DEF Served
<1>2. CASE \E p \in Handlers, c \in Changes, e \in Emails : Admit(p, c, e)
  BY <1>2 DEF Admit, Served
<1>3. CASE StartUp \/ Die
  BY <1>3 DEF StartUp, Die, Served
<1>4. CASE UNCHANGED acctVars
  BY <1>4 DEF acctVars, Served
<1> QED
  BY <1>1, <1>2, <1>3, <1>4 DEF AccountsNext

\* No account, no administrator: the first start creates one.
LEMMA IInvInitially == AccountsInit => IInv
<1> SUFFICES ASSUME AccountsInit
             PROVE  IInv
  OBVIOUS
<1>1. AccountsTypes
  BY AccountsAssumption DEF AccountsInit, AccountsTypes, Todo
<1>2. KnowsAccounts /\ Served
  BY DEF AccountsInit, KnowsAccounts, KnowsAccount, Served
<1>3. ~AdminExists /\ AnAdministratorRemains
  BY AccountsAssumption DEF AccountsInit, AdminExists, AnAdministratorRemains
<1> QED
  BY <1>1, <1>2, <1>3 DEF IInv, AccountsInv, Administered

\* Types, what requests know, and an administrator unless two requests have raced,
\* with any number of accounts and requests, crashes and restarts included.
THEOREM AccountsAlways == AccountsSpec => []AccountsInv
<1>1. IInv /\ [AccountsNext]_acctVars => IInv'
  BY TypesStep, KnowsStep, AdminsStep, ServedStep DEF IInv, AccountsInv
<1>2. IInv => AccountsInv
  BY DEF IInv
<1> QED
  BY <1>1, <1>2, IInvInitially, PTL DEF AccountsSpec

\* A request does to its account what it was asked for and leaves it valid, and a
\* login changes nothing, unless another request has changed that account since.
THEOREM ChangesAsAskedAlways == AccountsSpec => ChangesAsAsked
<1>1. ASSUME AccountsInv, AccountsNext, NEW q \in Handlers,
             todo[q] = "write", todo'[q] = "idle", whom[q] \notin since[q], account' # account
      PROVE  LET e == whom[q] IN
             /\ account' = [account EXCEPT ![e] = Applied(change[q], account[e])]
             /\ Valid(account'[e])
             /\ change[q].kind # "login"
  <2> DEFINE a == account[whom[q]]
             b == Applied(change[q], a)
  <2>0. AccountsTypes /\ KnowsAccount(q)
    BY <1>1 DEF AccountsInv, KnowsAccounts
  <2>1. Serve(q)
    <3>1. ASSUME NEW p \in Handlers, Serve(p)
          PROVE  p = q
      BY <1>1, <2>0, <3>1, IdleStays
    <3> QED
      BY <1>1, <3>1 DEF AccountsNext, Admit, StartUp, Die
  <2>2. Update(q)
    BY <1>1, <2>1 DEF Serve, InsertAccount, ReadRow, ReadRoles, CountActive, CountAdmins, ReadBase,
       ReadBaseRoles, Drop, Rejected
  <2>3. /\ whom[q] \in Emails /\ a \in Account /\ change[q] \in Change
        /\ user[q] = b /\ base[q] = a /\ Permitted(change[q], a)
    BY <1>1, <2>0 DEF KnowsAccount, AccountsTypes
  <2>4. b \in Account /\ Updated(a, a, b) = b
    BY <2>3, AppliedType, UpdatedAsDecided
  <2>5. account' = [account EXCEPT ![whom[q]] = b]
    BY <1>1, <2>2, <2>3, <2>4 DEF Update, Put, Rejected
  <2>6. account'[whom[q]] = b
    BY <2>0, <2>3, <2>5 DEF AccountsTypes
  <2>7. b # a
    BY <1>1, <2>0, <2>3, <2>5 DEF AccountsTypes
  <2> QED
    BY <2>3, <2>5, <2>6, <2>7, PermittedIsValid
<1>2. AccountsInv /\ [AccountsNext]_acctVars =>
        [\A q \in Handlers :
           todo[q] = "write" /\ todo'[q] = "idle" /\ whom[q] \notin since[q] /\ account' # account =>
             LET e == whom[q] IN
             /\ account' = [account EXCEPT ![e] = Applied(change[q], account[e])]
             /\ Valid(account'[e])
             /\ change[q].kind # "login"]_acctVars
  BY <1>1
<1> QED
  BY <1>2, AccountsAlways, PTL DEF AccountsSpec, ChangesAsAsked
===============================================================================

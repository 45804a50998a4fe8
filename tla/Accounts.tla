------------------------------ MODULE Accounts ------------------------------
(***************************************************************************)
(* User accounts, kept in two stores that no transaction spans: entries    *)
(* and groups in LDAP (libs/auth.py) and rows of Django's table of users.  *)
(* Web requests read and write them one after the other (forms.py,         *)
(* admin.py, actions.py, views.py), several of them at the same time.      *)
(*                                                                         *)
(* LDAP, Django's admin and django-auth-ldap are modelled from how this    *)
(* code uses them.  Every call to LDAP may fail, every request may end     *)
(* anywhere.  A password, and the key of a row, is the request that made   *)
(* it; a row that is there before has the name it then has as its key.     *)
(***************************************************************************)
EXTENDS Naturals

CONSTANTS
  Names,     \* of users
  Requests,  \* each is one operation on one name
  Groups,    \* DEFAULT_USER_GROUPS
  OldUid     \* the uidNumber of an entry that is there before

(* The code makes and changes entries as CN=<name>, and deletes them as    *)
(* UID=<name>.                                                             *)
DN == {"CN", "UID"} \X Names

ASSUME AccountsAssumption ==
  /\ OldUid \in [DN -> Nat]
  /\ \A d, e \in DN : OldUid[d] = OldUid[e] => d = e
  /\ {"old", "unusable"} \cap Requests = {}
  /\ Names \cap Requests = {}
  /\ Names # {} /\ Groups # {}

VARIABLES
  entry,     \* the account of each DN, if any: a set of at most one
  member,    \* memberUid of the groups
  row,       \* the row of each user, if any: a set of at most one
  at,        \* where each request is
  op,        \* its operation
  name,      \* and the user that is for, under the name it will be saved
  uid,       \* what _get_next_uid returned
  obj,       \* its copy of the row
  raced,     \* history: an entry was added since its _get_next_uid
  wasStaff,  \* history: keys of rows that have been staff
  upset      \* history: names given to another user, or whose requests
             \* overlapped or went wrong

ldap    == <<entry, member>>
request == <<op, name>>
history == <<raced, wasStaff, upset>>
vars    == <<ldap, row, at, request, uid, obj, history>>

Operation == {"register", "reset", "admin", "edit", "delete", "login"}
Made      == Requests \cup {"old"}
Account   == [uid : Nat, pw : Made, by : Made]
Key       == Requests \cup Names
Row       == [pk : Key, staff : BOOLEAN, pw : Made \cup {"unusable"}]

TypeOK ==
  /\ entry \in [DN -> SUBSET Account]
  /\ member \in [Groups -> SUBSET Names]
  /\ row \in [Names -> SUBSET Row]
  /\ at \in [Requests -> {"idle", "uid", "entry", "groups", "insert", "row",
                          "ldap", "save", "remove", "over"}]
  /\ op \in [Requests -> Operation]
  /\ name \in [Requests -> Names]
  /\ uid \in [Requests -> Nat]
  /\ obj \in [Requests -> Row]
  /\ raced \in [Requests -> BOOLEAN]
  /\ wasStaff \subseteq Key
  /\ upset \subseteq Names

OldAccount(d) == [uid |-> OldUid[d], pw |-> "old", by |-> "old"]
OldRow(n)     == [pk |-> n, staff |-> FALSE, pw |-> "unusable"]
OldStaff(n)   == [pk |-> n, staff |-> TRUE, pw |-> "old"]

(* Staff may be in Django only; anybody else has an entry as well, made by *)
(* this code or by another.                                                *)
Init ==
  /\ \E old \in SUBSET DN :
       entry = [d \in DN |-> IF d \in old THEN {OldAccount(d)} ELSE {}]
  /\ \A n \in Names : {} \in {entry[<<"CN", n>>], entry[<<"UID", n>>]}
  /\ \E d \in DN : entry[d] # {}
  /\ member = [g \in Groups |->
                 {n \in Names : entry[<<"CN", n>>] \cup entry[<<"UID", n>>] # {}}]
  /\ \E plain \in SUBSET {n \in Names :
                            entry[<<"CN", n>>] \cup entry[<<"UID", n>>] # {}} :
       /\ wasStaff \in SUBSET (Names \ plain)
       /\ row = [n \in Names |-> IF n \in plain THEN {OldRow(n)}
                                ELSE IF n \in wasStaff THEN {OldStaff(n)} ELSE {}]
  /\ at = [r \in Requests |-> "idle"]
  /\ op = [r \in Requests |-> "login"]
  /\ name = [r \in Requests |-> CHOOSE n \in Names : TRUE]
  /\ uid = [r \in Requests |-> 0]
  /\ obj = [r \in Requests |-> OldRow(name[r])]
  /\ raced = [r \in Requests |-> FALSE]
  /\ upset = {}

Busy(n) == \E r \in Requests : name[r] = n /\ at[r] \notin {"idle", "over"}

Start(r, n, operation, to) ==
  /\ at[r] = "idle"
  /\ at' = [at EXCEPT ![r] = to]
  /\ op' = [op EXCEPT ![r] = operation]
  /\ name' = [name EXCEPT ![r] = n]

Meets(n) == upset' = IF Busy(n) THEN upset \cup {n} ELSE upset

Goto(r, from, to) == at[r] = from /\ at' = [at EXCEPT ![r] = to]

Upset(r) == upset' = upset \cup {name[r]}

SetEntry(d, accounts) == entry' = [entry EXCEPT ![d] = accounts]
SetRow(n, rows)       == row' = [row EXCEPT ![n] = rows]

(* An exception that ends the request, or the end of its process.          *)
Fail(r) ==
  /\ at[r] \notin {"idle", "over"}
  /\ at' = [at EXCEPT ![r] = "over"]
  /\ Upset(r)
  /\ UNCHANGED <<ldap, row, request, uid, obj, raced, wasStaff>>

------------------------------------------------------------------------------
(* UserCreationForm: first the entry, then the groups, then the row.       *)

CheckName(r, n) ==
  /\ row[n] = {}
  /\ Start(r, n, "register", "uid")
  /\ Meets(n)
  /\ UNCHANGED <<ldap, row, uid, obj, raced, wasStaff>>

Uids == {a.uid : a \in UNION {entry[d] : d \in DN}}

(* Mutant of NextUid: the other end of the sorted list is popped.          *)
AfterFirst(r) ==
  \E last \in Uids :
    /\ \A u \in Uids : u >= last
    /\ Goto(r, "uid", "entry")
    /\ uid' = [uid EXCEPT ![r] = last + 1]
    /\ UNCHANGED <<ldap, row, request, obj, history>>

(* Sorted, the last one is popped.                                         *)
NextUid(r) ==
  \E last \in Uids :
    /\ \A u \in Uids : u <= last
    /\ Goto(r, "uid", "entry")
    /\ uid' = [uid EXCEPT ![r] = last + 1]
    /\ UNCHANGED <<ldap, row, request, obj, history>>

AddEntry(r) ==
  /\ entry[<<"CN", name[r]>>] = {}
  /\ Goto(r, "entry", "groups")
  /\ SetEntry(<<"CN", name[r]>>, {[uid |-> uid[r], pw |-> r, by |-> r]})
  /\ raced' = [q \in Requests |-> raced[q] \/ (at[q] = "entry" /\ q # r)]
  /\ UNCHANGED <<member, row, request, uid, obj, wasStaff, upset>>

(* Mutant of AddToGroup: one group is enough.                              *)
AddToOneGroup(r, g) ==
  /\ name[r] \notin member[g]
  /\ Goto(r, "groups", "insert")
  /\ member' = [member EXCEPT ![g] = @ \cup {name[r]}]
  /\ UNCHANGED <<entry, row, request, uid, obj, history>>

(* One modification for each group, an error when it has the name already. *)
AddToGroup(r, g) ==
  /\ name[r] \notin member[g]
  /\ Goto(r, "groups",
          IF \A h \in Groups \ {g} : name[r] \in member[h]
          THEN "insert" ELSE "groups")
  /\ member' = [member EXCEPT ![g] = @ \cup {name[r]}]
  /\ UNCHANGED <<entry, row, request, uid, obj, history>>

NewRow(r) == [pk |-> r, staff |-> FALSE, pw |-> "unusable"]

Insert(r) ==
  /\ row[name[r]] = {}
  /\ Goto(r, "insert", "over")
  /\ SetRow(name[r], {NewRow(r)})
  /\ UNCHANGED <<ldap, request, uid, obj, history>>

------------------------------------------------------------------------------
(* Requests that work on a copy of the row.                                *)

(* Mutant of Changed: the new password is set for whoever it is.           *)
ChangedForAll(r, operation, w) ==
  IF operation \in {"reset", "admin"} THEN [w EXCEPT !.pw = r]
  ELSE w

(* Mutant of Changed: a reset is left to LDAP.                             *)
ChangedByAdmin(r, operation, w) ==
  CASE operation = "admin" -> [w EXCEPT !.pw = IF w.staff THEN r ELSE "unusable"]
    [] OTHER -> w

(* What the forms make of the copy: a reset sets a password that was       *)
(* usable; the admin's form sets that of staff and takes it from others.   *)
Changed(r, operation, w) ==
  CASE operation = "reset" ->
         [w EXCEPT !.pw = IF @ = "unusable" THEN @ ELSE r]
    [] operation = "admin" -> [w EXCEPT !.pw = IF w.staff THEN r ELSE "unusable"]
    [] operation = "delete" -> w

Read(r, n, operation) ==
  \E w \in row[n] :
    /\ Start(r, n, operation, "ldap")
    /\ Meets(n)
    /\ obj' = [obj EXCEPT ![r] = Changed(r, operation, w)]
    /\ UNCHANGED <<ldap, row, uid, raced, wasStaff>>

(* The admin's page of a user: its form has the name as well, which it     *)
(* checks to be nobody else's, and does nothing about LDAP.                *)
Edit(r, n, m) ==
  \E w \in row[n], staff \in BOOLEAN :
    /\ row[m] \subseteq {w}
    /\ Start(r, m, "edit", "save")
    /\ IF m = n THEN Meets(n) ELSE upset' = upset \cup {m}
    /\ obj' = [obj EXCEPT ![r] = [w EXCEPT !.staff = staff]]
    /\ UNCHANGED <<ldap, row, uid, raced, wasStaff>>

(* change_password                                                         *)
ChangeEntry(r) ==
  \E a \in entry[<<"CN", name[r]>>] :
    /\ op[r] \in {"reset", "admin"}
    /\ Goto(r, "ldap", "save")
    /\ SetEntry(<<"CN", name[r]>>, {[a EXCEPT !.pw = r]})
    /\ UNCHANGED <<member, row, request, uid, obj, history>>

(* There is no such entry, or LDAP fails: an error unless it is staff, who *)
(* can exist in Django only.                                               *)
ChangeFails(r) ==
  /\ op[r] \in {"reset", "admin"}
  /\ Goto(r, "ldap", IF obj[r].staff THEN "save" ELSE "over")
  /\ Upset(r)
  /\ UNCHANGED <<ldap, row, request, uid, obj, raced, wasStaff>>

(* The rows but that of w, whatever its name is now.                       *)
Without(w) == [n \in Names |-> {v \in row[n] : v.pk # w.pk}]

(* The whole row, with its name; one that was deleted meanwhile is         *)
(* inserted again.                                                         *)
SaveUser(r) ==
  /\ \A w \in row[name[r]] : w.pk = obj[r].pk
  /\ Goto(r, "save", "over")
  /\ row' = [Without(obj[r]) EXCEPT ![name[r]] = {obj[r]}]
  /\ wasStaff' = IF obj[r].staff THEN wasStaff \cup {obj[r].pk} ELSE wasStaff
  /\ UNCHANGED <<ldap, request, uid, obj, raced, upset>>

(* UserAdmin.delete_model: first the entry, which is sought as UID=...     *)
DeleteEntry(r) ==
  /\ op[r] = "delete"
  /\ entry[<<"UID", name[r]>>] # {}
  /\ Goto(r, "ldap", "remove")
  /\ SetEntry(<<"UID", name[r]>>, {})
  /\ UNCHANGED <<member, row, request, uid, obj, history>>

(* ... an error is a message to the admin, no more.                        *)
DeleteFails(r) ==
  /\ op[r] = "delete"
  /\ Goto(r, "ldap", "remove")
  /\ Upset(r)
  /\ UNCHANGED <<ldap, row, request, uid, obj, raced, wasStaff>>

RemoveRow(r) ==
  /\ Goto(r, "remove", "over")
  /\ row' = Without(obj[r])
  /\ UNCHANGED <<ldap, request, uid, obj, history>>

(* A login finds one entry of that uid and binds with its password ...     *)
Bind(r, n) ==
  /\ {} \in {entry[<<"CN", n>>], entry[<<"UID", n>>]}
  /\ entry[<<"CN", n>>] # entry[<<"UID", n>>]
  /\ Start(r, n, "login", "row")
  /\ Meets(n)
  /\ UNCHANGED <<ldap, row, uid, obj, raced, wasStaff>>

(* ... gets the row or makes one, and then saves what LDAP says.           *)
GetOrCreate(r) ==
  \E w \in (IF row[name[r]] = {} THEN {NewRow(r)} ELSE row[name[r]]) :
    /\ Goto(r, "row", "save")
    /\ obj' = [obj EXCEPT ![r] = w]
    /\ SetRow(name[r], {w})
    /\ UNCHANGED <<ldap, request, uid, history>>

------------------------------------------------------------------------------
Register(r) ==
  \/ NextUid(r) \/ AddEntry(r) \/ (\E g \in Groups : AddToGroup(r, g)) \/ Insert(r)

Change(r) ==
  \/ ChangeEntry(r) \/ ChangeFails(r) \/ SaveUser(r) \/ GetOrCreate(r)
  \/ DeleteEntry(r) \/ DeleteFails(r) \/ RemoveRow(r)

Next ==
  \E r \in Requests :
    \/ \E n \in Names :
         \/ CheckName(r, n) \/ Bind(r, n)
         \/ \E operation \in {"reset", "admin", "delete"} : Read(r, n, operation)
         \/ \E m \in Names : Edit(r, n, m)
    \/ Register(r) \/ Change(r) \/ Fail(r)

Spec == Init /\ [][Next]_vars

------------------------------------------------------------------------------
(* No two accounts have one uidNumber, unless one was being registered     *)
(* while the number of the other was already taken from the search.        *)
UidsUnique ==
  \A d, e \in DN : \A a \in entry[d], b \in entry[e] :
    d # e /\ a.uid = b.uid =>
      \E q \in {a.by, b.by} \cap Requests : raced[q]

(* A row that a registration made has its entry and all groups in LDAP,    *)
(* under the name that was registered: whatever failed, when a stale copy  *)
(* brought it back, and when an admin has renamed it, which leaves them    *)
(* under the first name.  It has another name only if an admin gave it.    *)
AccountComplete ==
  \A n \in Names : \A w \in row[n] :
    w.pk \in Requests /\ op[w.pk] = "register" =>
      /\ entry[<<"CN", name[w.pk]>>] # {}
      /\ \A g \in Groups : name[w.pk] \in member[g]
      /\ \/ n = name[w.pk]
         \/ \E q \in Requests : op[q] = "edit" /\ name[q] = n /\ obj[q].pk = w.pk

(* Only who is or was staff has a password in Django, next to that in      *)
(* LDAP, by whatever names the user has gone.                              *)
OnlyStaffPassword ==
  \A n \in Names : \A w \in row[n] : w.pw # "unusable" => w.pk \in wasStaff

(* It is the same in both, when nothing is under way, no requests for that *)
(* name overlapped or failed, and it was not given to another user.        *)
PasswordsAgree ==
  \A n \in Names : \A w \in row[n] : \A a \in entry[<<"CN", n>>] :
    w.pw # "unusable" /\ ~Busy(n) /\ n \notin upset => w.pw = a.pw
==============================================================================

---------------------------- MODULE AccountsProofs ----------------------------
(***************************************************************************)
(* Theorems about Accounts for any users, groups, requests and earlier     *)
(* accounts.                                                               *)
(***************************************************************************)
EXTENDS Accounts, TLAPS

LEMMA DNs == \A n \in Names : <<"CN", n>> \in DN /\ <<"UID", n>> \in DN
  BY DEF DN

(* What is there before.                                                   *)
LEMMA OldEntries ==
  ASSUME Init
  PROVE  /\ entry \in [DN -> SUBSET Account]
         /\ \A d \in DN : \A a \in entry[d] : a = OldAccount(d)
<1>1. PICK old \in SUBSET DN :
        entry = [d \in DN |-> IF d \in old THEN {OldAccount(d)} ELSE {}]
  BY Zenon DEF Init
<1>2. \A d \in DN : OldAccount(d) \in Account
  BY AccountsAssumption DEF OldAccount, Account, Made
<1> QED
  BY <1>1, <1>2

LEMMA OldRows ==
  ASSUME Init
  PROVE  /\ wasStaff \subseteq Names /\ row \in [Names -> SUBSET Row]
         /\ \A n \in Names : row[n] \subseteq
              {OldRow(n)} \cup (IF n \in wasStaff THEN {OldStaff(n)} ELSE {})
<1>1. PICK plain :
        /\ wasStaff \in SUBSET (Names \ plain)
        /\ row = [n \in Names |-> IF n \in plain THEN {OldRow(n)}
                                 ELSE IF n \in wasStaff THEN {OldStaff(n)} ELSE {}]
  BY Zenon DEF Init
<1>2. \A n \in Names : OldRow(n) \in Row /\ OldStaff(n) \in Row
  BY DEF OldRow, OldStaff, Row, Key, Made
<1> QED
  BY <1>1, <1>2

LEMMA InitType == Init => TypeOK
<1> SUFFICES ASSUME Init PROVE TypeOK
  OBVIOUS
<1>1. name \in [Requests -> Names]
  BY AccountsAssumption DEF Init
<1>2. member \in [Groups -> SUBSET Names]
  BY DEF Init
<1>3. obj \in [Requests -> Row]
  BY <1>1 DEF Init, OldRow, Row, Key, Made
<1> QED
  BY <1>1, <1>2, <1>3, OldEntries, OldRows DEF Init, TypeOK, Operation, Key

(* A copy that a form has changed is a row.                                *)
LEMMA ChangedType ==
  ASSUME NEW r \in Requests, NEW w \in Row,
         NEW operation \in {"reset", "admin", "delete"}
  PROVE  Changed(r, operation, w) \in Row
<1>1. CASE operation = "reset"
  BY <1>1 DEF Changed, Row, Made
<1>2. CASE operation = "admin"
  BY <1>2 DEF Changed, Row, Made
<1>3. CASE operation = "delete"
  BY <1>3 DEF Changed, Row, Made
<1> QED
  BY <1>1, <1>2, <1>3

LEMMA NewRowType == \A r \in Requests : NewRow(r) \in Row
  BY DEF NewRow, Row, Key, Made

(* What an edit makes of the copy.                                         *)
LEMMA EditedRow ==
  ASSUME NEW w \in Row, NEW staff \in BOOLEAN
  PROVE  /\ [w EXCEPT !.staff = staff] \in Row
         /\ [w EXCEPT !.staff = staff].pk = w.pk
         /\ [w EXCEPT !.staff = staff].pw = w.pw
  BY DEF Row

(* A row that is saved takes the place of itself only, under any name.     *)
LEMMA SavedRows ==
  ASSUME TypeOK, NEW r \in Requests, SaveUser(r)
  PROVE  /\ row'[name[r]] = {obj[r]}
         /\ \A n \in Names \ {name[r]} :
              row'[n] = {v \in row[n] : v.pk # obj[r].pk}
  BY DEF SaveUser, Without, TypeOK

LEMMA TypeStep == TypeOK /\ [Next]_vars => TypeOK'
<1> SUFFICES ASSUME TypeOK, [Next]_vars PROVE TypeOK'
  OBVIOUS
<1> USE DNs DEF TypeOK
<1>1. ASSUME NEW r \in Requests, NEW n \in Names, CheckName(r, n) PROVE TypeOK'
  BY <1>1 DEF CheckName, Start, Meets, Operation, ldap
<1>2. ASSUME NEW r \in Requests, NEW n \in Names, Bind(r, n) PROVE TypeOK'
  BY <1>2 DEF Bind, Start, Meets, Operation, ldap
<1>3. ASSUME NEW r \in Requests, NEW n \in Names,
             NEW o \in {"reset", "admin", "delete"}, Read(r, n, o)
      PROVE  TypeOK'
  <2>1. PICK w \in row[n] :
          /\ Start(r, n, o, "ldap") /\ Meets(n)
          /\ obj' = [obj EXCEPT ![r] = Changed(r, o, w)]
          /\ UNCHANGED <<ldap, row, uid, raced, wasStaff>>
    BY <1>3 DEF Read
  <2>2. Changed(r, o, w) \in Row
    BY ChangedType
  <2>3. obj' \in [Requests -> Row]
    BY <2>1, <2>2
  <2>4. op' \in [Requests -> Operation]
    BY <2>1 DEF Start, Operation
  <2> QED
    BY <2>1, <2>3, <2>4 DEF Start, Meets, ldap
<1>4. ASSUME NEW r \in Requests, NextUid(r) PROVE TypeOK'
  <2>1. PICK last \in Uids :
          /\ at' = [at EXCEPT ![r] = "entry"]
          /\ uid' = [uid EXCEPT ![r] = last + 1]
          /\ UNCHANGED <<ldap, row, request, obj, history>>
    BY <1>4 DEF NextUid, Goto
  <2>2. last \in Nat
    BY DEF Uids, Account
  <2> QED
    BY <2>1, <2>2 DEF ldap, request, history
<1>5. ASSUME NEW r \in Requests, AddEntry(r) PROVE TypeOK'
  <2>1. [uid |-> uid[r], pw |-> r, by |-> r] \in Account
    BY DEF Account, Made
  <2>2. entry' \in [DN -> SUBSET Account]
    BY <1>5, <2>1 DEF AddEntry, SetEntry
  <2>3. raced' \in [Requests -> BOOLEAN]
    BY <1>5 DEF AddEntry
  <2> QED
    BY <1>5, <2>2, <2>3 DEF AddEntry, Goto, request
<1>6. ASSUME NEW r \in Requests, NEW g \in Groups, AddToGroup(r, g) PROVE TypeOK'
  <2>1. member' \in [Groups -> SUBSET Names]
    BY <1>6 DEF AddToGroup
  <2> QED
    BY <1>6, <2>1 DEF AddToGroup, Goto, request, history
<1>7. ASSUME NEW r \in Requests, Insert(r) PROVE TypeOK'
  <2>1. row' \in [Names -> SUBSET Row]
    BY <1>7, NewRowType DEF Insert, SetRow
  <2> QED
    BY <1>7, <2>1 DEF Insert, Goto, ldap, request, history
<1>8. ASSUME NEW r \in Requests, ChangeEntry(r) PROVE TypeOK'
  <2>1. PICK a \in entry[<<"CN", name[r]>>] :
          entry' = [entry EXCEPT ![<<"CN", name[r]>>] = {[a EXCEPT !.pw = r]}]
    BY <1>8 DEF ChangeEntry, SetEntry
  <2>a. entry[<<"CN", name[r]>>] \subseteq Account
    OBVIOUS
  <2>2. [a EXCEPT !.pw = r] \in Account
    BY <2>a DEF Account, Made
  <2>3. entry' \in [DN -> SUBSET Account]
    BY <2>1, <2>2
  <2> QED
    BY <1>8, <2>3 DEF ChangeEntry, Goto, request, history
<1>9. ASSUME NEW r \in Requests, ChangeFails(r) \/ DeleteFails(r) \/ Fail(r)
      PROVE  TypeOK'
  <2>1. name[r] \in Names /\ upset' = upset \cup {name[r]}
    BY <1>9 DEF ChangeFails, DeleteFails, Fail, Upset
  <2>2. at' \in [Requests -> {"idle", "uid", "entry", "groups", "insert", "row",
                              "ldap", "save", "remove", "over"}]
    BY <1>9 DEF ChangeFails, DeleteFails, Fail, Goto
  <2> QED
    BY <1>9, <2>1, <2>2 DEF ChangeFails, DeleteFails, Fail, ldap, request
<1>10. ASSUME NEW r \in Requests, SaveUser(r) PROVE TypeOK'
  <2>1. row' \in [Names -> SUBSET Row]
    BY <1>10 DEF SaveUser, Without
  <2>2. wasStaff' \subseteq Key
    BY <1>10 DEF SaveUser, Row
  <2> QED
    BY <1>10, <2>1, <2>2 DEF SaveUser, Goto, ldap, request
<1>11. ASSUME NEW r \in Requests, DeleteEntry(r) PROVE TypeOK'
  <2>1. entry' \in [DN -> SUBSET Account]
    BY <1>11 DEF DeleteEntry, SetEntry
  <2> QED
    BY <1>11, <2>1 DEF DeleteEntry, Goto, request, history
<1>12. ASSUME NEW r \in Requests, RemoveRow(r) PROVE TypeOK'
  <2>1. row' \in [Names -> SUBSET Row]
    BY <1>12 DEF RemoveRow, Without
  <2> QED
    BY <1>12, <2>1 DEF RemoveRow, Goto, ldap, request, history
<1>13. ASSUME NEW r \in Requests, GetOrCreate(r) PROVE TypeOK'
  <2>1. PICK w \in (IF row[name[r]] = {} THEN {NewRow(r)} ELSE row[name[r]]) :
          /\ obj' = [obj EXCEPT ![r] = w]
          /\ row' = [row EXCEPT ![name[r]] = {w}]
    BY <1>13 DEF GetOrCreate, SetRow
  <2>2. w \in Row
    BY NewRowType
  <2>3. obj' \in [Requests -> Row] /\ row' \in [Names -> SUBSET Row]
    BY <2>1, <2>2
  <2> QED
    BY <1>13, <2>3 DEF GetOrCreate, Goto, ldap, request, history
<1>14. ASSUME NEW r \in Requests, NEW n \in Names, NEW m \in Names, Edit(r, n, m)
       PROVE  TypeOK'
  <2>1. PICK w \in row[n], staff \in BOOLEAN :
          /\ Start(r, m, "edit", "save")
          /\ IF m = n THEN Meets(n) ELSE upset' = upset \cup {m}
          /\ obj' = [obj EXCEPT ![r] = [w EXCEPT !.staff = staff]]
          /\ UNCHANGED <<ldap, row, uid, raced, wasStaff>>
    BY <1>14 DEF Edit
  <2>2. obj' \in [Requests -> Row]
    <3>1. w \in Row
      OBVIOUS
    <3> QED
      BY <2>1, <3>1, EditedRow
  <2>3. op' \in [Requests -> Operation] /\ upset' \subseteq Names
    BY <2>1 DEF Start, Meets, Operation
  <2> QED
    BY <2>1, <2>2, <2>3 DEF Start, ldap
<1>15. CASE UNCHANGED vars
  BY <1>15 DEF vars, ldap, request, history
<1> QED
  BY <1>1, <1>2, <1>3, <1>4, <1>5, <1>6, <1>7, <1>8, <1>9, <1>10, <1>11, <1>12,
     <1>13, <1>14, <1>15 DEF Next, Register, Change

(* Both stores keep their shape.                                           *)
THEOREM AccountsTypeCorrect == Spec => []TypeOK
<1> QED
  BY InitType, TypeStep, PTL DEF Spec

------------------------------------------------------------------------------
(* A number that was taken from the search is above all that are in use,   *)
(* as long as no entry was added since.                                    *)
SearchInv ==
  \A r \in Requests : at[r] = "entry" /\ ~raced[r] =>
    \A d \in DN : \A a \in entry[d] : a.uid < uid[r]

UidInv == UidsUnique /\ SearchInv

(* Nothing but AddEntry gives numbers or makes a race to be forgotten.     *)
LEMMA UidsKept ==
  ASSUME TypeOK, UidInv,
         \A d \in DN : \A x \in entry'[d] :
           \E a \in entry[d] : x.uid = a.uid /\ x.by = a.by,
         UNCHANGED raced,
         \A r \in Requests :
           at'[r] = "entry" =>
             \/ at[r] = "entry" /\ uid'[r] = uid[r]
             \/ \A d \in DN : \A a \in entry[d] : a.uid < uid'[r]
  PROVE  UidInv'
<1>1. UidsUnique'
  <2> SUFFICES ASSUME NEW d \in DN, NEW e \in DN, NEW x \in entry'[d],
                      NEW y \in entry'[e], d # e, x.uid = y.uid
               PROVE  \E q \in {x.by, y.by} \cap Requests : raced'[q]
    BY DEF UidsUnique
  <2>1. PICK a \in entry[d] : x.uid = a.uid /\ x.by = a.by
    OBVIOUS
  <2>2. PICK b \in entry[e] : y.uid = b.uid /\ y.by = b.by
    OBVIOUS
  <2>3. a.uid = b.uid
    BY <2>1, <2>2
  <2>4. PICK q \in {a.by, b.by} \cap Requests : raced[q]
    BY <2>3 DEF UidInv, UidsUnique
  <2>5. q \in {x.by, y.by} \cap Requests /\ raced'[q]
    BY <2>1, <2>2, <2>4
  <2> QED
    BY <2>5
<1>2. SearchInv'
  <2> SUFFICES ASSUME NEW r \in Requests, at'[r] = "entry", ~raced'[r],
                      NEW d \in DN, NEW x \in entry'[d]
               PROVE  x.uid < uid'[r]
    BY DEF SearchInv
  <2>1. PICK a \in entry[d] : x.uid = a.uid
    OBVIOUS
  <2> QED
    BY <2>1 DEF UidInv, SearchInv
<1> QED
  BY <1>1, <1>2 DEF UidInv

(* For any requests at the same time, two accounts have one uidNumber only *)
(* if an entry was added between the search and the registration of one.   *)
THEOREM UidsDistinct == Spec => []UidsUnique
<1>1. Init => UidInv
  <2> SUFFICES ASSUME Init PROVE UidInv
    OBVIOUS
  <2>1. \A d \in DN : \A a \in entry[d] : a.uid = OldUid[d]
    BY OldEntries DEF OldAccount
  <2>2. UidsUnique
    BY <2>1, AccountsAssumption DEF UidsUnique
  <2>3. SearchInv
    BY DEF Init, SearchInv
  <2> QED
    BY <2>2, <2>3 DEF UidInv
<1>2. TypeOK /\ UidInv /\ [Next]_vars => UidInv'
  <2> SUFFICES ASSUME TypeOK, UidInv, [Next]_vars PROVE UidInv'
    OBVIOUS
  <2> USE DEF TypeOK
  <2>1. ASSUME NEW r \in Requests, NEW n \in Names, CheckName(r, n) \/ Bind(r, n)
        PROVE  UidInv'
    BY <2>1, UidsKept DEF CheckName, Bind, Start, ldap
  <2>2. ASSUME NEW r \in Requests, NEW n \in Names,
               \/ \E o \in {"reset", "admin", "delete"} : Read(r, n, o)
               \/ \E m \in Names : Edit(r, n, m)
        PROVE  UidInv'
    BY <2>2, UidsKept DEF Read, Edit, Start, ldap
  <2>3. ASSUME NEW r \in Requests, NextUid(r) PROVE UidInv'
    <3>1. PICK last \in Uids :
            /\ \A u \in Uids : u <= last
            /\ at' = [at EXCEPT ![r] = "entry"]
            /\ uid' = [uid EXCEPT ![r] = last + 1]
            /\ UNCHANGED <<ldap, row, request, obj, history>>
      BY <2>3 DEF NextUid, Goto
    <3>2. last \in Nat
      BY DEF Uids, Account
    <3>3. ASSUME NEW d \in DN, NEW a \in entry[d] PROVE a.uid < uid'[r]
      <4>1. a.uid \in Uids /\ a.uid \in Nat
        BY DEF Uids, Account
      <4> QED
        BY <3>1, <3>2, <4>1
    <3>4. \A q \in Requests \ {r} : at'[q] = at[q] /\ uid'[q] = uid[q]
      BY <3>1
    <3>5. UNCHANGED <<entry, raced>>
      BY <3>1 DEF ldap, history
    <3> QED
      BY <3>3, <3>4, <3>5, UidsKept
  <2>4. ASSUME NEW r \in Requests, AddEntry(r) PROVE UidInv'
    <3> DEFINE dn == <<"CN", name[r]>>
    <3>1. /\ dn \in DN
          /\ at[r] = "entry"
          /\ entry'[dn] = {[uid |-> uid[r], pw |-> r, by |-> r]}
          /\ \A d \in DN \ {dn} : entry'[d] = entry[d]
          /\ \A q \in Requests :
               raced'[q] <=> raced[q] \/ (at[q] = "entry" /\ q # r)
          /\ at' = [at EXCEPT ![r] = "groups"]
          /\ UNCHANGED uid
      BY <2>4, DNs DEF AddEntry, SetEntry, Goto
    <3>2. ASSUME NEW e \in DN, e # dn, NEW b \in entry[e], b.uid = uid[r]
          PROVE  raced'[r]
      <4>1. b.uid \in Nat /\ uid[r] \in Nat
        BY DEF Account
      <4>2. ~(b.uid < uid[r])
        BY <3>2, <4>1
      <4> QED
        BY <3>1, <4>2 DEF UidInv, SearchInv
    <3>3. UidsUnique'
      <4> SUFFICES ASSUME NEW d \in DN, NEW e \in DN, NEW x \in entry'[d],
                          NEW y \in entry'[e], d # e, x.uid = y.uid
                   PROVE  \E q \in {x.by, y.by} \cap Requests : raced'[q]
        BY DEF UidsUnique
      <4>1. CASE d = dn
        <5>1. x.by = r /\ x.uid = uid[r] /\ y \in entry[e]
          BY <3>1, <4>1
        <5> QED
          BY <3>2, <4>1, <5>1
      <4>2. CASE e = dn
        <5>1. y.by = r /\ y.uid = uid[r] /\ x \in entry[d]
          BY <3>1, <4>2
        <5> QED
          BY <3>2, <4>2, <5>1
      <4>3. CASE d # dn /\ e # dn
        BY <3>1, <4>3 DEF UidInv, UidsUnique
      <4> QED
        BY <4>1, <4>2, <4>3
    <3>4. SearchInv'
      <4>1. \A q \in Requests : at'[q] = "entry" => raced'[q]
        BY <3>1
      <4> QED
        BY <4>1 DEF SearchInv
    <3> QED
      BY <3>3, <3>4 DEF UidInv
  <2>5. ASSUME NEW r \in Requests, NEW g \in Groups, AddToGroup(r, g)
        PROVE  UidInv'
    BY <2>5, UidsKept DEF AddToGroup, Goto, history
  <2>6. ASSUME NEW r \in Requests,
               Insert(r) \/ SaveUser(r) \/ RemoveRow(r) \/ GetOrCreate(r)
        PROVE  UidInv'
    BY <2>6, UidsKept DEF Insert, SaveUser, RemoveRow, GetOrCreate, Goto, ldap,
       history
  <2>7. ASSUME NEW r \in Requests, ChangeEntry(r) PROVE UidInv'
    <3> DEFINE dn == <<"CN", name[r]>>
    <3>1. PICK a \in entry[dn] :
            /\ at' = [at EXCEPT ![r] = "save"]
            /\ entry' = [entry EXCEPT ![dn] = {[a EXCEPT !.pw = r]}]
            /\ UNCHANGED <<uid, raced>>
      BY <2>7 DEF ChangeEntry, SetEntry, Goto, history
    <3>2. [a EXCEPT !.pw = r].uid = a.uid /\ [a EXCEPT !.pw = r].by = a.by
      BY DNs DEF Account
    <3>3. \A d \in DN : \A x \in entry'[d] :
            \E y \in entry[d] : x.uid = y.uid /\ x.by = y.by
      BY <3>1, <3>2
    <3> QED
      BY <3>1, <3>3, UidsKept
  <2>8. ASSUME NEW r \in Requests, DeleteEntry(r) PROVE UidInv'
    <3>1. \A d \in DN : entry'[d] \subseteq entry[d]
      BY <2>8 DEF DeleteEntry, SetEntry
    <3> QED
      BY <2>8, <3>1, UidsKept DEF DeleteEntry, Goto, history
  <2>9. ASSUME NEW r \in Requests, ChangeFails(r) \/ DeleteFails(r) \/ Fail(r)
        PROVE  UidInv'
    <3>1. \A q \in Requests : at'[q] = "entry" => at[q] = "entry"
      BY <2>9 DEF ChangeFails, DeleteFails, Fail, Goto
    <3> QED
      BY <2>9, <3>1, UidsKept DEF ChangeFails, DeleteFails, Fail, ldap
  <2>10. CASE UNCHANGED vars
    BY <2>10, UidsKept DEF vars, ldap, history
  <2> QED
    BY <2>1, <2>2, <2>3, <2>4, <2>5, <2>6, <2>7, <2>8, <2>9, <2>10
       DEF Next, Register, Change
<1> QED
  BY <1>1, <1>2, AccountsTypeCorrect, PTL DEF Spec, UidInv

------------------------------------------------------------------------------
(* Only staff has a password, in the table and in the copies that will     *)
(* still be saved, whatever name they will be saved under.                 *)
StaffInv ==
  /\ \A n \in Names : \A w \in row[n] :
       w.staff \/ w.pw # "unusable" => w.pk \in wasStaff
  /\ \A r \in Requests :
       at[r] \in {"ldap", "save"} =>
         (obj[r].pw # "unusable" => obj[r].pk \in wasStaff)

(* A user who never was staff has no password in Django, whatever copies   *)
(* of the row are saved over each other, and under whatever names.         *)
THEOREM PasswordsOfStaff == Spec => []OnlyStaffPassword
<1>1. Init => StaffInv
  BY OldRows DEF Init, StaffInv, OldRow, OldStaff
<1>2. TypeOK /\ StaffInv /\ [Next]_vars => StaffInv'
  <2> SUFFICES ASSUME TypeOK, StaffInv, [Next]_vars PROVE StaffInv'
    OBVIOUS
  <2> USE DEF TypeOK
  <2>1. ASSUME NEW r \in Requests, NEW n \in Names, CheckName(r, n) \/ Bind(r, n)
        PROVE  StaffInv'
    BY <2>1 DEF CheckName, Bind, Start, StaffInv
  <2>c. ASSUME NEW r \in Requests, NEW n \in Names, NEW w \in row[n],
               obj'[r].pk = w.pk,
               obj'[r].pw # "unusable" => w.staff \/ w.pw # "unusable",
               \A q \in Requests \ {r} : at'[q] = at[q] /\ obj'[q] = obj[q],
               UNCHANGED <<row, wasStaff>>
        PROVE  StaffInv'
    <3>1. obj'[r].pw # "unusable" => obj'[r].pk \in wasStaff'
      BY <2>c DEF StaffInv
    <3> QED
      BY <2>c, <3>1 DEF StaffInv
  <2>2. ASSUME NEW r \in Requests, NEW n \in Names,
               NEW o \in {"reset", "admin", "delete"}, Read(r, n, o)
        PROVE  StaffInv'
    <3>1. PICK w \in row[n] :
            /\ obj' = [obj EXCEPT ![r] = Changed(r, o, w)]
            /\ \A q \in Requests \ {r} : at'[q] = at[q]
            /\ UNCHANGED <<row, wasStaff>>
      BY <2>2 DEF Read, Start
    <3>2. w \in Row
      OBVIOUS
    <3>3. /\ Changed(r, o, w).pk = w.pk
          /\ Changed(r, o, w).pw # "unusable" => w.staff \/ w.pw # "unusable"
      BY <3>2 DEF Changed, Row
    <3>4. /\ obj'[r] = Changed(r, o, w)
          /\ \A q \in Requests \ {r} : obj'[q] = obj[q]
      BY <3>1
    <3> QED
      BY <3>1, <3>3, <3>4, <2>c
  <2>e. ASSUME NEW r \in Requests, NEW n \in Names, NEW m \in Names, Edit(r, n, m)
        PROVE  StaffInv'
    <3>1. PICK w \in row[n], staff \in BOOLEAN :
            /\ obj' = [obj EXCEPT ![r] = [w EXCEPT !.staff = staff]]
            /\ \A q \in Requests \ {r} : at'[q] = at[q]
            /\ UNCHANGED <<row, wasStaff>>
      BY <2>e DEF Edit, Start
    <3>2. w \in Row
      OBVIOUS
    <3>3. /\ obj'[r].pk = w.pk /\ obj'[r].pw = w.pw
          /\ \A q \in Requests \ {r} : obj'[q] = obj[q]
      BY <3>1, <3>2, EditedRow
    <3> QED
      BY <3>1, <3>3, <2>c
  <2>3. ASSUME NEW r \in Requests, Register(r) PROVE StaffInv'
    <3>1. CASE NextUid(r) \/ AddEntry(r) \/ \E g \in Groups : AddToGroup(r, g)
      BY <3>1 DEF NextUid, AddEntry, AddToGroup, Goto, StaffInv, request, history
    <3>2. CASE Insert(r)
      <4>1. \A n \in Names : row'[n] = row[n] \/ row'[n] = {NewRow(r)}
        BY <3>2 DEF Insert, SetRow
      <4> QED
        BY <3>2, <4>1 DEF Insert, Goto, StaffInv, NewRow, request, history
    <3> QED
      BY <2>3, <3>1, <3>2 DEF Register
  <2>4. ASSUME NEW r \in Requests,
               \/ ChangeEntry(r) \/ DeleteEntry(r)
               \/ ChangeFails(r) \/ DeleteFails(r) \/ Fail(r)
        PROVE  StaffInv'
    BY <2>4 DEF ChangeEntry, DeleteEntry, ChangeFails, DeleteFails, Fail, Goto,
       StaffInv, request, history
  <2>5. ASSUME NEW r \in Requests, SaveUser(r) PROVE StaffInv'
    <3>1. /\ at[r] = "save"
          /\ row'[name[r]] = {obj[r]}
          /\ \A n \in Names \ {name[r]} : row'[n] \subseteq row[n]
          /\ wasStaff \subseteq wasStaff'
          /\ obj[r].staff => obj[r].pk \in wasStaff'
      <4>1. \A n \in Names \ {name[r]} : row'[n] \subseteq row[n]
        BY <2>5, SavedRows
      <4> QED
        BY <2>5, <4>1, SavedRows DEF SaveUser, Goto
    <3>2. \A n \in Names : \A w \in row'[n] :
            w.staff \/ w.pw # "unusable" => w.pk \in wasStaff'
      BY <3>1 DEF StaffInv
    <3> QED
      BY <2>5, <3>1, <3>2 DEF SaveUser, Goto, StaffInv, request
  <2>6. ASSUME NEW r \in Requests, RemoveRow(r) PROVE StaffInv'
    <3>1. \A n \in Names : row'[n] \subseteq row[n]
      BY <2>6 DEF RemoveRow, Without
    <3> QED
      BY <2>6, <3>1 DEF RemoveRow, Goto, StaffInv, request, history
  <2>7. ASSUME NEW r \in Requests, GetOrCreate(r) PROVE StaffInv'
    <3>1. PICK w \in (IF row[name[r]] = {} THEN {NewRow(r)} ELSE row[name[r]]) :
            /\ obj' = [obj EXCEPT ![r] = w]
            /\ row' = [row EXCEPT ![name[r]] = {w}]
      BY <2>7 DEF GetOrCreate, SetRow
    <3>2. w.staff \/ w.pw # "unusable" => w.pk \in wasStaff
      BY <3>1 DEF StaffInv, NewRow
    <3>3. \A n \in Names : row'[n] = row[n] \/ (row'[n] = {w} /\ n = name[r])
      BY <3>1
    <3>4. UNCHANGED <<request, wasStaff>> /\ \A q \in Requests \ {r} : at'[q] = at[q]
      BY <2>7 DEF GetOrCreate, Goto, history
    <3> QED
      BY <3>1, <3>2, <3>3, <3>4 DEF StaffInv, request
  <2>8. CASE UNCHANGED vars
    BY <2>8 DEF vars, request, history, StaffInv
  <2> QED
    BY <2>1, <2>2, <2>e, <2>3, <2>4, <2>5, <2>6, <2>7, <2>8 DEF Next, Change
<1>3. StaffInv => OnlyStaffPassword
  BY DEF StaffInv, OnlyStaffPassword
<1> QED
  BY <1>1, <1>2, <1>3, AccountsTypeCorrect, PTL DEF Spec

------------------------------------------------------------------------------
Complete(n) ==
  /\ entry[<<"CN", n>>] # {}
  /\ \A g \in Groups : n \in member[g]

Registered(pk) == pk \in Requests /\ op[pk] = "register"
Begun(pk)      == pk \in Requests => at[pk] # "idle"

(* A name that was registered, or that an admin gave.                      *)
Named(pk, n) ==
  \/ n = name[pk]
  \/ \E q \in Requests : op[q] = "edit" /\ name[q] = n /\ obj[q].pk = pk

(* What is known of a row, in the table or in a copy that will be saved.   *)
Sound(pk, n) ==
  Begun(pk) /\ (Registered(pk) => Complete(name[pk]) /\ Named(pk, n))

(* What a request has reached.                                             *)
RequestInv(r) ==
  /\ at[r] \in {"groups", "insert"} => entry[<<"CN", name[r]>>] # {}
  /\ at[r] = "insert" => Complete(name[r])
  /\ at[r] \in {"idle", "row"} => op[r] = "login"
  /\ at[r] \in {"ldap", "save"} => Sound(obj[r].pk, name[r])

RowInv(n) == \A w \in row[n] : Sound(w.pk, n)

RequestsInv == \A r \in Requests : RequestInv(r)
CompleteInv == RequestsInv /\ \A n \in Names : RowInv(n)

(* Entries under CN stay and groups only grow.                             *)
LEMMA StillComplete ==
  ASSUME TypeOK, [Next]_vars
  PROVE  /\ \A n \in Names :
              entry[<<"CN", n>>] # {} => entry'[<<"CN", n>>] # {}
         /\ \A n \in Names : Complete(n) => Complete(n)'
<1> USE DNs DEF TypeOK
<1>1. \A n \in Names : entry[<<"CN", n>>] # {} => entry'[<<"CN", n>>] # {}
  <2>1. CASE \E r \in Requests : AddEntry(r) \/ ChangeEntry(r)
    BY <2>1 DEF AddEntry, ChangeEntry, SetEntry
  <2>2. CASE \E r \in Requests : DeleteEntry(r)
    <3>1. PICK r \in Requests : entry' = [entry EXCEPT ![<<"UID", name[r]>>] = {}]
      BY <2>2 DEF DeleteEntry, SetEntry
    <3>2. \A n \in Names : <<"CN", n>> # <<"UID", name[r]>>
      OBVIOUS
    <3> QED
      BY <3>1, <3>2
  <2>3. CASE UNCHANGED entry
    BY <2>3
  <2> QED
    BY <2>1, <2>2, <2>3 DEF Next, Register, Change, CheckName, Bind, Read, Edit, NextUid,
       AddToGroup, Insert, ChangeFails, SaveUser, GetOrCreate, DeleteFails,
       RemoveRow, Fail, vars, ldap
<1>2. \A g \in Groups : member[g] \subseteq member'[g]
  <2>1. CASE \E r \in Requests, g \in Groups : AddToGroup(r, g)
    BY <2>1 DEF AddToGroup
  <2>2. CASE UNCHANGED member
    BY <2>2
  <2> QED
    BY <2>1, <2>2 DEF Next, Register, Change, CheckName, Bind, Read, Edit, NextUid,
       AddEntry, Insert, ChangeEntry, ChangeFails, SaveUser, GetOrCreate,
       DeleteEntry, DeleteFails, RemoveRow, Fail, vars, ldap
<1>3. \A n \in Names : Complete(n) => Complete(n)'
  BY <1>1, <1>2 DEF Complete
<1> QED
  BY <1>1, <1>3

(* Only who begins chooses an operation and a name, and only a login gets  *)
(* a copy later than that.                                                 *)
Same(q) ==
  at[q] # "idle" =>
    /\ at'[q] # "idle" /\ op'[q] = op[q] /\ name'[q] = name[q]
    /\ at[q] # "row" => obj'[q] = obj[q]

LEMMA StillTheSame ==
  ASSUME TypeOK, [Next]_vars
  PROVE  \A q \in Requests : Same(q)
<1> USE DEF TypeOK
<1>1. ASSUME NEW r \in Requests, at[r] \in {"idle", "row"}, at'[r] # "idle",
             at[r] = "row" => UNCHANGED request,
             \A q \in Requests \ {r} :
               /\ at'[q] = at[q] /\ op'[q] = op[q] /\ name'[q] = name[q]
               /\ obj'[q] = obj[q]
      PROVE  \A q \in Requests : Same(q)
  BY <1>1 DEF Same, request
<1>2. ASSUME NEW r \in Requests, NEW from, NEW to, Goto(r, from, to), to # "idle",
             UNCHANGED <<request, obj>>
      PROVE  \A q \in Requests : Same(q)
  BY <1>2 DEF Goto, Same, request
<1>3. ASSUME NEW r \in Requests, NEW n \in Names, CheckName(r, n) \/ Bind(r, n)
      PROVE  \A q \in Requests : Same(q)
  BY <1>1, <1>3 DEF CheckName, Bind, Start
<1>4. ASSUME NEW r \in Requests, NEW n \in Names,
             \/ \E o \in {"reset", "admin", "delete"} : Read(r, n, o)
             \/ \E m \in Names : Edit(r, n, m)
      PROVE  \A q \in Requests : Same(q)
  BY <1>1, <1>4 DEF Read, Edit, Start
<1>5. ASSUME NEW r \in Requests, Register(r)
      PROVE  \A q \in Requests : Same(q)
  BY <1>2, <1>5 DEF Register, NextUid, AddEntry, AddToGroup, Insert, history
<1>6. ASSUME NEW r \in Requests, GetOrCreate(r)
      PROVE  \A q \in Requests : Same(q)
  BY <1>1, <1>6 DEF GetOrCreate, Goto, request
<1>7. ASSUME NEW r \in Requests, Change(r), ~GetOrCreate(r)
      PROVE  \A q \in Requests : Same(q)
  BY <1>2, <1>7 DEF Change, ChangeEntry, ChangeFails, SaveUser, DeleteEntry,
     DeleteFails, RemoveRow
<1>8. ASSUME NEW r \in Requests, Fail(r)
      PROVE  \A q \in Requests : Same(q)
  BY <1>8 DEF Fail, Same, request
<1>9. CASE UNCHANGED vars
  BY <1>9 DEF vars, Same, request
<1> QED
  BY <1>3, <1>4, <1>5, <1>6, <1>7, <1>8, <1>9 DEF Next

(* What is known of a row stays true.                                      *)
LEMMA SoundKept ==
  ASSUME TypeOK, [Next]_vars, RequestsInv, NEW n \in Names, NEW pk \in Key,
         Sound(pk, n)
  PROVE  Sound(pk, n)'
<1>1. Begun(pk)' /\ (Registered(pk)' => Registered(pk) /\ name'[pk] = name[pk])
  BY StillTheSame DEF Begun, Registered, Sound, Same
<1>2. ASSUME Registered(pk)' PROVE Complete(name[pk])' /\ Named(pk, n)'
  <2>1. Registered(pk) /\ Complete(name[pk]) /\ Named(pk, n)
    BY <1>1, <1>2 DEF Sound
  <2>2. name[pk] \in Names
    BY <2>1 DEF Registered, TypeOK
  <2>3. Complete(name[pk])'
    <3>1. PICK m \in Names : m = name[pk]
      BY <2>2
    <3>2. Complete(m)'
      BY <2>1, <3>1, StillComplete
    <3> QED
      BY <1>1, <1>2, <3>1, <3>2 DEF Complete
  <2>4. Named(pk, n)'
    <3>1. CASE n = name[pk]
      BY <1>1, <1>2, <3>1 DEF Named
    <3>2. ASSUME NEW q \in Requests, op[q] = "edit", name[q] = n, obj[q].pk = pk
          PROVE  Named(pk, n)'
      <4>1. at[q] \notin {"idle", "row"}
        BY <3>2 DEF RequestsInv, RequestInv
      <4>2. op'[q] = "edit" /\ name'[q] = n /\ obj'[q].pk = pk
        BY <3>2, <4>1, StillTheSame DEF Same
      <4> QED
        BY <4>2 DEF Named
    <3> QED
      BY <2>1, <3>1, <3>2 DEF Named
  <2> QED
    BY <2>3, <2>4
<1> QED
  BY <1>1, <1>2 DEF Sound

(* What a step leaves alone keeps the invariant.                           *)
LEMMA RowKept ==
  ASSUME TypeOK, [Next]_vars, RequestsInv, NEW n \in Names, RowInv(n),
         row'[n] \subseteq row[n]
  PROVE  RowInv(n)'
<1> SUFFICES ASSUME NEW w \in row'[n] PROVE Sound(w.pk, n)'
  BY DEF RowInv
<1>1. w \in row[n] /\ w.pk \in Key
  BY DEF TypeOK, Row
<1>2. PICK pk \in Key : pk = w.pk
  BY <1>1
<1>3. Sound(pk, n)'
  BY <1>1, <1>2, SoundKept DEF RowInv
<1> QED
  BY <1>2, <1>3

LEMMA RequestKept ==
  ASSUME TypeOK, [Next]_vars, RequestsInv, NEW r \in Requests,
         \/ at'[r] = at[r] \/ (at[r] = "ldap" /\ at'[r] = "save")
         \/ at'[r] \in {"uid", "entry", "remove", "over"},
         op'[r] = op[r], name'[r] = name[r], obj'[r] = obj[r]
  PROVE  RequestInv(r)'
<1> USE DEF TypeOK
<1>1. RequestInv(r) /\ name[r] \in Names /\ obj[r].pk \in Key
  BY DEF Row, RequestsInv
<1>2. at'[r] \in {"groups", "insert"} => entry'[<<"CN", name'[r]>>] # {}
  BY <1>1, StillComplete DEF RequestInv
<1>3. at'[r] = "insert" => Complete(name[r])'
  <2>1. PICK n \in Names : n = name[r]
    BY <1>1
  <2>2. at'[r] = "insert" => Complete(n)'
    BY <1>1, <2>1, StillComplete DEF RequestInv
  <2> QED
    BY <2>1, <2>2 DEF Complete
<1>4. at'[r] \in {"ldap", "save"} => Sound(obj[r].pk, name[r])'
  <2>1. PICK n \in Names, pk \in Key : n = name[r] /\ pk = obj[r].pk
    BY <1>1
  <2>2. at'[r] \in {"ldap", "save"} => Sound(pk, n)'
    BY <1>1, <2>1, SoundKept DEF RequestInv
  <2> QED
    BY <2>1, <2>2
<1>5. at'[r] \in {"idle", "row"} => op'[r] = "login"
  BY <1>1 DEF RequestInv
<1> QED
  BY <1>2, <1>3, <1>4, <1>5 DEF RequestInv

(* Whoever is in the table because of a registration has an entry and all  *)
(* groups under the name that was registered, wherever requests fail and   *)
(* whatever copies are saved back, and another name only from an admin.    *)
THEOREM RegistrationsComplete == Spec => []AccountComplete
<1>1. Init => CompleteInv
  <2> SUFFICES ASSUME Init PROVE CompleteInv
    OBVIOUS
  <2>1. \A n \in Names : \A w \in row[n] : w.pk = n
    BY OldRows DEF OldRow, OldStaff
  <2>2. \A n \in Names : RowInv(n)
    BY <2>1, AccountsAssumption DEF RowInv, Sound, Begun, Registered
  <2>3. RequestsInv
    BY DEF Init, RequestsInv, RequestInv
  <2> QED
    BY <2>2, <2>3 DEF CompleteInv
<1>2. TypeOK /\ CompleteInv /\ [Next]_vars => CompleteInv'
  <2> SUFFICES ASSUME TypeOK, CompleteInv, [Next]_vars PROVE CompleteInv'
    OBVIOUS
  <2>i. RequestsInv /\ \A n \in Names : RowInv(n)
    BY DEF CompleteInv
  <2> USE DEF TypeOK
  <2>r. ASSUME NEW r \in Requests, RequestInv(r)',
               \A q \in Requests \ {r} :
                 at'[q] = at[q] /\ op'[q] = op[q] /\ name'[q] = name[q]
                   /\ obj'[q] = obj[q]
        PROVE  RequestsInv'
    <3>1. \A q \in Requests \ {r} : RequestInv(q)'
      BY <2>r, <2>i, RequestKept
    <3> QED
      BY <2>r, <3>1 DEF RequestsInv
  <2>w. ASSUME \A n \in Names : row'[n] \subseteq row[n], RequestsInv'
        PROVE  CompleteInv'
    BY <2>w, <2>i, RowKept DEF CompleteInv
  (* A row that is read or made takes one place in the table.              *)
  <2>p. ASSUME NEW m \in Names, NEW k \in Key, Sound(k, m)', RequestsInv',
               \A v \in row'[m] : v.pk = k,
               \A n \in Names \ {m} : row'[n] \subseteq row[n]
        PROVE  CompleteInv'
    <3>1. RowInv(m)'
      BY <2>p DEF RowInv
    <3>2. \A n \in Names \ {m} : RowInv(n)'
      BY <2>p, <2>i, RowKept
    <3> QED
      BY <2>p, <3>1, <3>2 DEF CompleteInv
  <2>1. ASSUME NEW r \in Requests, NEW n \in Names, CheckName(r, n) \/ Bind(r, n)
        PROVE  CompleteInv'
    <3>1. RequestInv(r)'
      BY <2>1 DEF CheckName, Bind, Start, RequestInv
    <3>2. /\ \A q \in Requests \ {r} :
               at'[q] = at[q] /\ op'[q] = op[q] /\ name'[q] = name[q]
                 /\ obj'[q] = obj[q]
          /\ UNCHANGED row
      BY <2>1 DEF CheckName, Bind, Start
    <3> QED
      BY <3>1, <3>2, <2>r, <2>w
  (* A copy is as sound as the row that it was read from.                  *)
  <2>c. ASSUME NEW r \in Requests, NEW n \in Names, NEW w \in row[n],
               NEW m \in Names, at'[r] \in {"ldap", "save"}, name'[r] = m,
               obj'[r].pk = w.pk, m = n \/ op'[r] = "edit",
               \A q \in Requests \ {r} :
                 at'[q] = at[q] /\ op'[q] = op[q] /\ name'[q] = name[q]
                   /\ obj'[q] = obj[q],
               UNCHANGED row
        PROVE  CompleteInv'
    <3>1. PICK k \in Key : k = w.pk
      BY DEF Row
    <3>2. Sound(k, n)'
      BY <3>1, <2>i, SoundKept DEF RowInv
    <3>3. Named(k, m)' \/ m = n
      BY <2>c, <3>1 DEF Named
    <3>4. Sound(k, m)'
      BY <3>2, <3>3 DEF Sound
    <3>5. Sound(obj[r].pk, name[r])'
      BY <2>c, <3>1, <3>4
    <3>6. RequestInv(r)'
      BY <2>c, <3>5 DEF RequestInv
    <3> QED
      BY <2>c, <3>6, <2>r, <2>w
  <2>2. ASSUME NEW r \in Requests, NEW n \in Names,
               NEW o \in {"reset", "admin", "delete"}, Read(r, n, o)
        PROVE  CompleteInv'
    <3>1. PICK w \in row[n] :
            /\ Start(r, n, o, "ldap")
            /\ obj' = [obj EXCEPT ![r] = Changed(r, o, w)]
            /\ UNCHANGED row
      BY <2>2 DEF Read
    <3>2. w \in Row
      OBVIOUS
    <3>3. Changed(r, o, w).pk = w.pk
      BY <3>2 DEF Changed, Row
    <3>4. /\ obj'[r].pk = w.pk /\ name'[r] = n /\ at'[r] = "ldap"
          /\ \A q \in Requests \ {r} :
               at'[q] = at[q] /\ op'[q] = op[q] /\ name'[q] = name[q]
                 /\ obj'[q] = obj[q]
      BY <3>1, <3>3 DEF Start
    <3> QED
      BY <3>1, <3>4, <2>c
  <2>e. ASSUME NEW r \in Requests, NEW n \in Names, NEW m \in Names, Edit(r, n, m)
        PROVE  CompleteInv'
    <3>1. PICK w \in row[n], staff \in BOOLEAN :
            /\ Start(r, m, "edit", "save")
            /\ obj' = [obj EXCEPT ![r] = [w EXCEPT !.staff = staff]]
            /\ UNCHANGED row
      BY <2>e DEF Edit
    <3>2. w \in Row
      OBVIOUS
    <3>3. obj'[r].pk = w.pk
      BY <3>1, <3>2, EditedRow
    <3>4. /\ name'[r] = m /\ at'[r] = "save" /\ op'[r] = "edit"
          /\ \A q \in Requests \ {r} :
               at'[q] = at[q] /\ op'[q] = op[q] /\ name'[q] = name[q]
                 /\ obj'[q] = obj[q]
      BY <3>1 DEF Start, Operation
    <3> QED
      BY <3>1, <3>3, <3>4, <2>c
  <2>3. ASSUME NEW r \in Requests, NextUid(r) PROVE CompleteInv'
    <3>1. RequestInv(r)'
      BY <2>3 DEF NextUid, Goto, RequestInv
    <3> QED
      BY <2>3, <3>1, <2>r, <2>w DEF NextUid, Goto, request
  <2>4. ASSUME NEW r \in Requests, AddEntry(r) PROVE CompleteInv'
    <3>1. RequestInv(r)'
      BY <2>4, DNs DEF AddEntry, SetEntry, Goto, request, RequestInv
    <3> QED
      BY <2>4, <3>1, <2>r, <2>w DEF AddEntry, Goto, request
  <2>5. ASSUME NEW r \in Requests, NEW g \in Groups, AddToGroup(r, g)
        PROVE  CompleteInv'
    <3>1. /\ at[r] = "groups"
          /\ at'[r] \in {"groups", "insert"}
          /\ at'[r] = "insert" => \A h \in Groups \ {g} : name[r] \in member[h]
          /\ member' = [member EXCEPT ![g] = @ \cup {name[r]}]
          /\ UNCHANGED <<entry, name>>
      BY <2>5 DEF AddToGroup, Goto, request
    <3>2. entry'[<<"CN", name'[r]>>] # {}
      BY <3>1, <2>i DEF RequestsInv, RequestInv
    <3>3. at'[r] = "insert" => \A h \in Groups : name'[r] \in member'[h]
      BY <3>1
    <3>4. RequestInv(r)'
      BY <3>1, <3>2, <3>3 DEF RequestInv, Complete
    <3> QED
      BY <2>5, <3>4, <2>r, <2>w DEF AddToGroup, Goto, request, history
  <2>6. ASSUME NEW r \in Requests, Insert(r) PROVE CompleteInv'
    <3>1. /\ at[r] = "insert" /\ at'[r] = "over" /\ name'[r] = name[r]
          /\ row'[name[r]] = {NewRow(r)}
          /\ \A n \in Names \ {name[r]} : row'[n] = row[n]
          /\ \A q \in Requests \ {r} :
               at'[q] = at[q] /\ op'[q] = op[q] /\ name'[q] = name[q]
                 /\ obj'[q] = obj[q]
      BY <2>6 DEF Insert, SetRow, Goto, request, history
    <3>2. RequestsInv'
      <4>1. RequestInv(r)'
        BY <3>1 DEF RequestInv
      <4> QED
        BY <3>1, <4>1, <2>r
    <3>3. PICK m \in Names : m = name[r]
      OBVIOUS
    <3>4. Complete(m)'
      BY <3>1, <3>3, <2>i, StillComplete DEF RequestsInv, RequestInv
    <3>5. Sound(r, m)'
      <4>1. Complete(name[r])'
        BY <3>1, <3>3, <3>4 DEF Complete
      <4>2. Begun(r)' /\ Named(r, m)'
        BY <3>1, <3>3 DEF Begun, Named
      <4> QED
        BY <4>1, <4>2 DEF Sound
    <3>6. r \in Key /\ \A v \in row'[m] : v.pk = r
      BY <3>1, <3>3 DEF Key, NewRow
    <3>7. \A n \in Names \ {m} : row'[n] \subseteq row[n]
      BY <3>1, <3>3
    <3> QED
      BY <3>2, <3>5, <3>6, <3>7, <2>p
  <2>7. ASSUME NEW r \in Requests,
               \/ ChangeEntry(r) \/ DeleteEntry(r) \/ ChangeFails(r)
               \/ DeleteFails(r) \/ Fail(r) \/ RemoveRow(r)
        PROVE  CompleteInv'
    <3>1. /\ \/ at[r] = "ldap" /\ at'[r] = "save"
             \/ at'[r] \in {"remove", "over"}
          /\ \A q \in Requests \ {r} : at'[q] = at[q]
          /\ UNCHANGED <<request, obj>>
      BY <2>7 DEF ChangeEntry, DeleteEntry, ChangeFails, DeleteFails, Fail,
         RemoveRow, Goto
    <3>2. \A n \in Names : row'[n] \subseteq row[n]
      BY <2>7 DEF ChangeEntry, DeleteEntry, ChangeFails, DeleteFails, Fail,
         RemoveRow, Without
    <3>3. RequestInv(r)'
      BY <3>1, <2>i, RequestKept DEF request
    <3> QED
      BY <3>1, <3>2, <3>3, <2>r, <2>w DEF request
  <2>8. ASSUME NEW r \in Requests, SaveUser(r) PROVE CompleteInv'
    <3>1. /\ at[r] = "save" /\ at'[r] = "over"
          /\ \A q \in Requests \ {r} : at'[q] = at[q]
          /\ UNCHANGED <<op, name, obj>>
      BY <2>8 DEF SaveUser, Goto, request
    <3>2. RequestsInv'
      <4>1. RequestInv(r)'
        BY <3>1, <2>i, RequestKept
      <4> QED
        BY <3>1, <4>1, <2>r
    <3>3. PICK m \in Names, k \in Key : m = name[r] /\ k = obj[r].pk
      BY DEF Row
    <3>4. Sound(k, m)'
      <4>1. Sound(k, m)
        BY <3>1, <3>3, <2>i DEF RequestsInv, RequestInv
      <4> QED
        BY <4>1, <2>i, SoundKept
    <3>5. /\ \A v \in row'[m] : v.pk = k
          /\ \A n \in Names \ {m} : row'[n] \subseteq row[n]
      BY <2>8, <3>3, SavedRows
    <3> QED
      BY <3>2, <3>4, <3>5, <2>p
  <2>9. ASSUME NEW r \in Requests, GetOrCreate(r) PROVE CompleteInv'
    <3>1. PICK w \in (IF row[name[r]] = {} THEN {NewRow(r)} ELSE row[name[r]]) :
            /\ obj' = [obj EXCEPT ![r] = w]
            /\ row' = [row EXCEPT ![name[r]] = {w}]
      BY <2>9 DEF GetOrCreate, SetRow
    <3>2. /\ at[r] = "row" /\ at'[r] = "save" /\ op[r] = "login"
          /\ \A q \in Requests \ {r} : at'[q] = at[q]
          /\ UNCHANGED <<op, name>>
      BY <2>9, <2>i DEF GetOrCreate, Goto, request, RequestsInv, RequestInv
    <3>3. PICK m \in Names, k \in Key : m = name[r] /\ k = w.pk
      BY <3>1, NewRowType DEF Row
    <3>4. Sound(k, m)'
      <4>1. Sound(k, m)
        <5>1. CASE row[m] = {}
          <6>1. k = r
            BY <3>1, <3>3, <5>1 DEF NewRow
          <6> QED
            BY <3>2, <6>1 DEF Sound, Begun, Registered
        <5>2. CASE row[m] # {}
          BY <3>1, <3>3, <5>2, <2>i DEF RowInv
        <5> QED
          BY <5>1, <5>2
      <4> QED
        BY <4>1, <2>i, SoundKept
    <3>5. obj'[r] = w /\ name'[r] = m /\ \A q \in Requests \ {r} : obj'[q] = obj[q]
      BY <3>1, <3>2, <3>3
    <3>6. RequestsInv'
      <4>1. Sound(obj[r].pk, name[r])'
        BY <3>3, <3>4, <3>5
      <4>2. RequestInv(r)'
        BY <3>2, <4>1 DEF RequestInv
      <4> QED
        BY <3>2, <3>5, <4>2, <2>r
    <3>7. /\ \A v \in row'[m] : v.pk = k
          /\ \A n \in Names \ {m} : row'[n] \subseteq row[n]
      BY <3>1, <3>3
    <3> QED
      BY <3>4, <3>6, <3>7, <2>p
  <2>10. CASE UNCHANGED vars
    <3>1. UNCHANGED <<at, op, name, obj, row>>
      BY <2>10 DEF vars, request
    <3>2. RequestsInv'
      BY <3>1, <2>i, RequestKept DEF RequestsInv
    <3> QED
      BY <3>1, <3>2, <2>w
  <2> QED
    BY <2>1, <2>2, <2>e, <2>3, <2>4, <2>5, <2>6, <2>7, <2>8, <2>9, <2>10
       DEF Next, Register, Change
<1>3. TypeOK /\ CompleteInv => AccountComplete
  BY DEF CompleteInv, RowInv, Sound, AccountComplete, Registered, Complete, Named
<1> QED
  BY <1>1, <1>2, <1>3, AccountsTypeCorrect, PTL DEF Spec

------------------------------------------------------------------------------
(* Who is at work on an account, and whether its copy of the row is about  *)
(* to take the place of the row.                                           *)
Works(r, n) == name[r] = n /\ at[r] \notin {"idle", "over"}

Changing(r) ==
  at[r] = "save" \/ (at[r] = "ldap" /\ op[r] \in {"reset", "admin"})

Agrees(n, w) ==
  w.pw # "unusable" => \A a \in entry[<<"CN", n>>] : w.pw = a.pw

RowAgrees(n) == \A w \in row[n] : Agrees(n, w)

(* A registration finds no row; a change of the password has it in its     *)
(* copy, and what will be saved agrees with the entry.                     *)
CopyAgrees(r, n) ==
  /\ at[r] \in {"uid", "entry", "groups", "insert"} => row[n] = {}
  /\ at[r] = "ldap" /\ op[r] \in {"reset", "admin"} =>
       obj[r].pw \in {r, "unusable"}
  /\ at[r] = "save" => Agrees(n, obj[r])

(* As long as requests for a user come one after the other.                *)
AgreeInv ==
  \A n \in Names \ upset :
    /\ \A q, s \in Requests : Works(q, n) /\ Works(s, n) => q = s
    /\ \A q \in Requests : Works(q, n) => CopyAgrees(q, n)
    /\ (\A q \in Requests : Works(q, n) => ~Changing(q)) => RowAgrees(n)

(* A step of one request for one name leaves the accounts of the others    *)
(* alone, or takes a row away that has another name now.                   *)
LEMMA AgreeStep ==
  ASSUME TypeOK, AgreeInv, NEW r \in Requests, NEW n \in Names,
         name'[r] = n, at[r] = "idle" \/ name[r] = n, upset \subseteq upset',
         \A q \in Requests \ {r} :
           at'[q] = at[q] /\ op'[q] = op[q] /\ name'[q] = name[q]
             /\ obj'[q] = obj[q],
         \A m \in Names \ {n} :
           row'[m] \subseteq row[m] /\ entry'[<<"CN", m>>] = entry[<<"CN", m>>],
         n \notin upset' =>
           /\ \A q \in Requests \ {r} : ~Works(q, n)
           /\ CopyAgrees(r, n)'
           /\ (Works(r, n)' /\ Changing(r)') \/ RowAgrees(n)'
  PROVE  AgreeInv'
<1> SUFFICES ASSUME NEW m \in Names \ upset'
             PROVE  /\ \A q, s \in Requests : Works(q, m)' /\ Works(s, m)' => q = s
                    /\ \A q \in Requests : Works(q, m)' => CopyAgrees(q, m)'
                    /\ (\A q \in Requests : Works(q, m)' => ~Changing(q)')
                         => RowAgrees(m)'
  BY DEF AgreeInv, Works, Changing, RowAgrees, CopyAgrees, Agrees
<1>1. \A q \in Requests \ {r} : /\ Works(q, m)' <=> Works(q, m)
                                /\ Changing(q)' <=> Changing(q)
  BY DEF Works, Changing
<1>2. CASE m = n
  <2>1. \A q \in Requests \ {r} : ~Works(q, m)'
    BY <1>1, <1>2
  <2> QED
    BY <1>2, <2>1 DEF Works, Changing, RowAgrees, CopyAgrees, Agrees
<1>3. CASE m # n
  <2>1. ~Works(r, m) /\ ~Works(r, m)'
    BY <1>3 DEF Works
  <2>2. /\ \A q, s \in Requests : Works(q, m) /\ Works(s, m) => q = s
        /\ \A q \in Requests : Works(q, m) => CopyAgrees(q, m)
        /\ (\A q \in Requests : Works(q, m) => ~Changing(q)) => RowAgrees(m)
    BY DEF AgreeInv
  <2>3. RowAgrees(m) => RowAgrees(m)'
    BY <1>3 DEF RowAgrees, Agrees
  <2>4. \A q \in Requests \ {r} : CopyAgrees(q, m) => CopyAgrees(q, m)'
    BY <1>3 DEF CopyAgrees, Agrees
  <2> QED
    BY <1>1, <2>1, <2>2, <2>3, <2>4
<1> QED
  BY <1>2, <1>3

LEMMA AgreeAlone ==
  ASSUME TypeOK, AgreeInv, NEW r \in Requests, at[r] \notin {"idle", "over"},
         name[r] \notin upset
  PROVE  /\ \A q \in Requests \ {r} : ~Works(q, name[r])
         /\ CopyAgrees(r, name[r])
         /\ Changing(r) \/ RowAgrees(name[r])
<1>1. Works(r, name[r]) /\ name[r] \in Names \ upset
  BY DEF Works, TypeOK
<1> QED
  BY <1>1 DEF AgreeInv

LEMMA AgreeFree ==
  ASSUME TypeOK, AgreeInv, NEW n \in Names, ~Busy(n), n \notin upset
  PROVE  (\A q \in Requests : ~Works(q, n)) /\ RowAgrees(n)
<1>1. \A q \in Requests : ~Works(q, n)
  BY DEF Busy, Works
<1> QED
  BY <1>1 DEF AgreeInv

(* Where requests come one after the other, and do not fail, and a name is *)
(* given to nobody else, a user has one password, if Django keeps one:     *)
(* whatever the requests are.                                              *)
THEOREM OnePassword == Spec => []PasswordsAgree
<1>1. Init => AgreeInv
  <2> SUFFICES ASSUME Init PROVE AgreeInv
    OBVIOUS
  <2>1. \A q \in Requests, n \in Names : ~Works(q, n)
    BY DEF Init, Works
  <2>2. ASSUME NEW n \in Names, NEW w \in row[n], w.pw # "unusable",
               NEW a \in entry[<<"CN", n>>]
        PROVE  w.pw = a.pw
    <3>1. w.pw = "old"
      BY <2>2, OldRows DEF OldRow, OldStaff
    <3>2. a.pw = "old"
      <4>1. \A d \in DN : \A x \in entry[d] : x.pw = "old"
        BY OldEntries DEF OldAccount
      <4> QED
        BY <2>2, <4>1, DNs
    <3> QED
      BY <3>1, <3>2
  <2> QED
    BY <2>1, <2>2 DEF AgreeInv, RowAgrees, Agrees
<1>2. TypeOK /\ AgreeInv /\ [Next]_vars => AgreeInv'
  <2> SUFFICES ASSUME TypeOK, AgreeInv, [Next]_vars PROVE AgreeInv'
    OBVIOUS
  <2> USE DEF TypeOK
  <2>1. ASSUME NEW r \in Requests, NEW n \in Names, CheckName(r, n)
        PROVE  AgreeInv'
    <3>1. /\ row[n] = {} /\ at[r] = "idle" /\ at' = [at EXCEPT ![r] = "uid"]
          /\ name' = [name EXCEPT ![r] = n]
          /\ \A q \in Requests \ {r} : op'[q] = op[q]
          /\ upset' = (IF Busy(n) THEN upset \cup {n} ELSE upset)
          /\ UNCHANGED <<row, entry, obj>>
      BY <2>1 DEF CheckName, Start, Meets, ldap
    <3>2. n \notin upset' => \A q \in Requests \ {r} : ~Works(q, n)
      BY <3>1, AgreeFree
    <3>3. CopyAgrees(r, n)' /\ RowAgrees(n)'
      BY <3>1 DEF CopyAgrees, RowAgrees
    <3> QED
      BY <3>1, <3>2, <3>3, AgreeStep
  <2>2. ASSUME NEW r \in Requests, NEW n \in Names, Bind(r, n)
        PROVE  AgreeInv'
    <3>1. /\ at[r] = "idle" /\ at' = [at EXCEPT ![r] = "row"]
          /\ name' = [name EXCEPT ![r] = n]
          /\ \A q \in Requests \ {r} : op'[q] = op[q]
          /\ upset' = (IF Busy(n) THEN upset \cup {n} ELSE upset)
          /\ UNCHANGED <<row, entry, obj>>
      BY <2>2 DEF Bind, Start, Meets, ldap
    <3>2. n \notin upset' =>
            (\A q \in Requests \ {r} : ~Works(q, n)) /\ RowAgrees(n)
      BY <3>1, AgreeFree
    <3>3. CopyAgrees(r, n)' /\ (RowAgrees(n) => RowAgrees(n)')
      BY <3>1 DEF CopyAgrees, RowAgrees, Agrees
    <3> QED
      BY <3>1, <3>2, <3>3, AgreeStep
  <2>3. ASSUME NEW r \in Requests, NEW n \in Names,
               NEW o \in {"reset", "admin", "delete"}, Read(r, n, o)
        PROVE  AgreeInv'
    <3>1. PICK w \in row[n] :
            /\ at[r] = "idle"
            /\ at' = [at EXCEPT ![r] = "ldap"]
            /\ op' = [op EXCEPT ![r] = o]
            /\ name' = [name EXCEPT ![r] = n]
            /\ obj' = [obj EXCEPT ![r] = Changed(r, o, w)]
            /\ upset' = (IF Busy(n) THEN upset \cup {n} ELSE upset)
            /\ UNCHANGED <<row, entry>>
      BY <2>3 DEF Read, Start, Meets, ldap
    <3>2. n \notin upset' =>
            (\A q \in Requests \ {r} : ~Works(q, n)) /\ RowAgrees(n)
      BY <3>1, AgreeFree
    <3>3. w \in Row
      OBVIOUS
    <3>4. o \in {"reset", "admin"} => Changed(r, o, w).pw \in {r, "unusable"}
      BY <3>3 DEF Changed, Row
    <3>5. RowAgrees(n) => RowAgrees(n)' /\ CopyAgrees(r, n)'
      BY <3>1, <3>4 DEF RowAgrees, Agrees, CopyAgrees
    <3> QED
      BY <3>1, <3>2, <3>5, AgreeStep
  <2>e. ASSUME NEW r \in Requests, NEW n \in Names, NEW m \in Names, Edit(r, n, m)
        PROVE  AgreeInv'
    <3>1. PICK w \in row[n], staff \in BOOLEAN :
            /\ at[r] = "idle" /\ at' = [at EXCEPT ![r] = "save"]
            /\ op' = [op EXCEPT ![r] = "edit"]
            /\ name' = [name EXCEPT ![r] = m]
            /\ obj' = [obj EXCEPT ![r] = [w EXCEPT !.staff = staff]]
            /\ IF m = n THEN upset' = (IF Busy(n) THEN upset \cup {n} ELSE upset)
               ELSE upset' = upset \cup {m}
            /\ UNCHANGED <<row, entry>>
      BY <2>e DEF Edit, Start, Meets, ldap
    <3>2. m \notin upset' =>
            /\ m = n /\ (\A q \in Requests \ {r} : ~Works(q, n)) /\ RowAgrees(n)
      BY <3>1, AgreeFree
    <3>3. w \in Row
      OBVIOUS
    <3>4. obj'[r].pw = w.pw
      BY <3>1, <3>3, EditedRow
    <3>5. RowAgrees(n) => RowAgrees(n)' /\ Agrees(n, obj[r])'
      BY <3>1, <3>4 DEF RowAgrees, Agrees
    <3>6. RowAgrees(n) => CopyAgrees(r, n)'
      BY <3>1, <3>5 DEF CopyAgrees
    <3>7. /\ name'[r] = m /\ upset \subseteq upset'
          /\ \A q \in Requests \ {r} :
               at'[q] = at[q] /\ op'[q] = op[q] /\ name'[q] = name[q]
                 /\ obj'[q] = obj[q]
      BY <3>1
    <3> QED
      BY <3>1, <3>2, <3>5, <3>6, <3>7, AgreeStep
  <2>4. ASSUME NEW r \in Requests,
               NextUid(r) \/ \E g \in Groups : AddToGroup(r, g)
        PROVE  AgreeInv'
    <3>1. /\ at[r] \in {"uid", "groups"}
          /\ at'[r] \in {"entry", "groups", "insert"}
          /\ \A q \in Requests \ {r} : at'[q] = at[q]
          /\ UNCHANGED <<row, entry, op, name, obj, upset>>
      BY <2>4 DEF NextUid, AddToGroup, Goto, ldap, request, history
    <3>2. name[r] \notin upset =>
            /\ \A q \in Requests \ {r} : ~Works(q, name[r])
            /\ row[name[r]] = {}
      BY <3>1, AgreeAlone DEF CopyAgrees
    <3>3. ASSUME NEW n \in Names, n = name[r], row[n] = {}
          PROVE  CopyAgrees(r, n)' /\ RowAgrees(n)'
      BY <3>1, <3>3 DEF CopyAgrees, RowAgrees
    <3> QED
      BY <3>1, <3>2, <3>3, AgreeStep
  <2>5. ASSUME NEW r \in Requests, AddEntry(r) PROVE AgreeInv'
    <3>1. /\ at[r] = "entry" /\ at' = [at EXCEPT ![r] = "groups"]
          /\ \A m \in Names \ {name[r]} :
               entry'[<<"CN", m>>] = entry[<<"CN", m>>]
          /\ UNCHANGED <<row, op, name, obj, upset>>
      BY <2>5 DEF AddEntry, SetEntry, Goto, request
    <3>2. name[r] \notin upset =>
            /\ \A q \in Requests \ {r} : ~Works(q, name[r])
            /\ row[name[r]] = {}
      BY <3>1, AgreeAlone DEF CopyAgrees
    <3>3. ASSUME NEW n \in Names, n = name[r], row[n] = {}
          PROVE  CopyAgrees(r, n)' /\ RowAgrees(n)'
      BY <3>1, <3>3 DEF CopyAgrees, RowAgrees
    <3> QED
      BY <3>1, <3>2, <3>3, AgreeStep
  <2>6. ASSUME NEW r \in Requests, Insert(r) PROVE AgreeInv'
    <3>1. /\ at[r] = "insert" /\ at' = [at EXCEPT ![r] = "over"]
          /\ row' = [row EXCEPT ![name[r]] = {NewRow(r)}]
          /\ UNCHANGED <<entry, op, name, obj, upset>>
      BY <2>6 DEF Insert, SetRow, Goto, ldap, request, history
    <3>2. name[r] \notin upset => \A q \in Requests \ {r} : ~Works(q, name[r])
      BY <3>1, AgreeAlone
    <3>3. ASSUME NEW n \in Names, n = name[r]
          PROVE  CopyAgrees(r, n)' /\ RowAgrees(n)'
      BY <3>1, <3>3 DEF CopyAgrees, RowAgrees, Agrees, NewRow
    <3> QED
      BY <3>1, <3>2, <3>3, AgreeStep
  <2>7. ASSUME NEW r \in Requests, ChangeEntry(r) PROVE AgreeInv'
    <3>1. PICK a \in entry[<<"CN", name[r]>>] :
            /\ op[r] \in {"reset", "admin"}
            /\ at[r] = "ldap" /\ at' = [at EXCEPT ![r] = "save"]
            /\ entry' = [entry EXCEPT ![<<"CN", name[r]>>] = {[a EXCEPT !.pw = r]}]
            /\ UNCHANGED <<row, op, name, obj, upset>>
      BY <2>7 DEF ChangeEntry, SetEntry, Goto, request, history
    <3>2. name[r] \notin upset =>
            /\ \A q \in Requests \ {r} : ~Works(q, name[r])
            /\ obj[r].pw \in {r, "unusable"}
      BY <3>1, AgreeAlone DEF CopyAgrees
    <3>3. ASSUME NEW n \in Names, n = name[r], obj[r].pw \in {r, "unusable"}
          PROVE  CopyAgrees(r, n)' /\ Works(r, n)' /\ Changing(r)'
      <4>a. entry[<<"CN", name[r]>>] \subseteq Account
        BY DNs
      <4>1. [a EXCEPT !.pw = r].pw = r
        BY <4>a DEF Account
      <4>2. \A x \in entry'[<<"CN", n>>] : x.pw = r
        BY <3>1, <3>3, <4>1, DNs
      <4> QED
        BY <3>1, <3>3, <4>2 DEF CopyAgrees, Agrees, Works, Changing
    <3>4. \A m \in Names \ {name[r]} : entry'[<<"CN", m>>] = entry[<<"CN", m>>]
      BY <3>1
    <3> QED
      BY <3>1, <3>2, <3>3, <3>4, AgreeStep
  <2>8. ASSUME NEW r \in Requests, ChangeFails(r) \/ DeleteFails(r) \/ Fail(r)
        PROVE  AgreeInv'
    <3>1. /\ at[r] # "idle" /\ \A q \in Requests \ {r} : at'[q] = at[q]
          /\ upset' = upset \cup {name[r]}
          /\ UNCHANGED <<row, entry, op, name, obj>>
      BY <2>8 DEF ChangeFails, DeleteFails, Fail, Goto, Upset, ldap, request
    <3> QED
      BY <3>1, AgreeStep
  <2>9. ASSUME NEW r \in Requests, SaveUser(r) PROVE AgreeInv'
    <3>1. /\ at[r] = "save" /\ at' = [at EXCEPT ![r] = "over"]
          /\ row'[name[r]] = {obj[r]}
          /\ \A m \in Names \ {name[r]} : row'[m] \subseteq row[m]
          /\ UNCHANGED <<entry, op, name, obj, upset>>
      <4>1. \A m \in Names \ {name[r]} : row'[m] \subseteq row[m]
        BY <2>9, SavedRows
      <4> QED
        BY <2>9, <4>1, SavedRows DEF SaveUser, Goto, ldap, request
    <3>2. name[r] \notin upset =>
            /\ \A q \in Requests \ {r} : ~Works(q, name[r])
            /\ Agrees(name[r], obj[r])
      BY <3>1, AgreeAlone DEF CopyAgrees
    <3>3. ASSUME NEW n \in Names, n = name[r], Agrees(name[r], obj[r])
          PROVE  CopyAgrees(r, n)' /\ RowAgrees(n)'
      BY <3>1, <3>3 DEF CopyAgrees, RowAgrees, Agrees
    <3> QED
      BY <3>1, <3>2, <3>3, AgreeStep
  <2>10. ASSUME NEW r \in Requests, DeleteEntry(r) \/ RemoveRow(r)
         PROVE  AgreeInv'
    <3>1. /\ at[r] \in {"ldap", "remove"} /\ ~Changing(r)
          /\ at'[r] \in {"remove", "over"}
          /\ \A q \in Requests \ {r} : at'[q] = at[q]
          /\ UNCHANGED <<op, name, obj, upset>>
      BY <2>10 DEF DeleteEntry, RemoveRow, Changing, Goto, request, history
    <3>2. /\ \A m \in Names : entry'[<<"CN", m>>] = entry[<<"CN", m>>]
          /\ \A m \in Names : row'[m] \subseteq row[m]
      <4>1. CASE DeleteEntry(r)
        <5>1. \A m \in Names : <<"CN", m>> # <<"UID", name[r]>>
          OBVIOUS
        <5> QED
          BY <4>1, <5>1 DEF DeleteEntry, SetEntry
      <4>2. CASE RemoveRow(r)
        BY <4>2 DEF RemoveRow, Without, ldap
      <4> QED
        BY <2>10, <4>1, <4>2
    <3>3. name[r] \notin upset =>
            /\ \A q \in Requests \ {r} : ~Works(q, name[r])
            /\ RowAgrees(name[r])
      BY <3>1, AgreeAlone
    <3>4. ASSUME NEW n \in Names, n = name[r], RowAgrees(name[r])
          PROVE  CopyAgrees(r, n)' /\ RowAgrees(n)'
      BY <3>1, <3>2, <3>4 DEF CopyAgrees, RowAgrees, Agrees
    <3> QED
      BY <3>1, <3>2, <3>3, <3>4, AgreeStep
  <2>11. ASSUME NEW r \in Requests, GetOrCreate(r) PROVE AgreeInv'
    <3>1. PICK w \in (IF row[name[r]] = {} THEN {NewRow(r)} ELSE row[name[r]]) :
            /\ at[r] = "row" /\ at' = [at EXCEPT ![r] = "save"]
            /\ obj' = [obj EXCEPT ![r] = w]
            /\ row' = [row EXCEPT ![name[r]] = {w}]
            /\ UNCHANGED <<entry, op, name, upset>>
      BY <2>11 DEF GetOrCreate, SetRow, Goto, ldap, request, history
    <3>2. name[r] \notin upset =>
            /\ \A q \in Requests \ {r} : ~Works(q, name[r])
            /\ RowAgrees(name[r])
      BY <3>1, AgreeAlone DEF Changing
    <3>3. RowAgrees(name[r]) => Agrees(name[r], w)
      BY <3>1 DEF RowAgrees, Agrees, NewRow
    <3>4. ASSUME NEW n \in Names, n = name[r], Agrees(name[r], w)
          PROVE  CopyAgrees(r, n)' /\ Works(r, n)' /\ Changing(r)'
      BY <3>1, <3>4 DEF CopyAgrees, Agrees, Works, Changing
    <3> QED
      BY <3>1, <3>2, <3>3, <3>4, AgreeStep
  <2>12. CASE UNCHANGED vars
    BY <2>12 DEF vars, ldap, request, history, AgreeInv, Works, Changing,
       CopyAgrees, RowAgrees, Agrees
  <2> QED
    BY <2>1, <2>2, <2>3, <2>e, <2>4, <2>5, <2>6, <2>7, <2>8, <2>9, <2>10, <2>11,
       <2>12 DEF Next, Register, Change
<1>3. TypeOK /\ AgreeInv => PasswordsAgree
  <2> SUFFICES ASSUME TypeOK, AgreeInv, NEW n \in Names, NEW w \in row[n],
                      NEW a \in entry[<<"CN", n>>], w.pw # "unusable", ~Busy(n),
                      n \notin upset
               PROVE  w.pw = a.pw
    BY DEF PasswordsAgree
  <2> QED
    BY AgreeFree DEF RowAgrees, Agrees
<1> QED
  BY <1>1, <1>2, <1>3, AccountsTypeCorrect, PTL DEF Spec
=============================================================================

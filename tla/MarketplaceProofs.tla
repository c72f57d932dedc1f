-------------------------- MODULE MarketplaceProofs --------------------------
(***************************************************************************)
(* Machine-checked proofs about Marketplace, for every set of banks,       *)
(* users, products and contents, and both values of CommitOnRefusal, and   *)
(* about Catalog's lists, for every caller there can be, whatever sets of  *)
(* roles and banks it gathers.                                             *)
(***************************************************************************)
EXTENDS Catalog, TLAPS

(* TypeOK's tables, without its claim about members.                       *)
Tables ==
    /\ bank \in [Banks -> BankRow]
    /\ user \in [Users -> UserRow]
    /\ member \in [Users -> SUBSET Banks]
    /\ product \in [Products -> ProductRow]
    /\ desk \in [Users -> Desk]
    /\ seen \in [Products -> Contents \cup {None}]

(* What a request has checked is of the kind its task says.                *)
LEMMA OnDesk ==
    ASSUME Tables, NEW u \in Users
    PROVE  /\ desk[u].task = "register" => desk[u].bank \in Banks
           /\ desk[u].task = "invite" =>
                  desk[u].bank \in Banks /\ desk[u].email \in Users /\ desk[u].was \in UserRow
           /\ desk[u].task = "open" => desk[u].product \in Products /\ desk[u].reviewer \in BOOLEAN
           /\ desk[u].task = "product" =>
                  /\ desk[u].product \in Products /\ desk[u].row \in ProductRow
                  /\ desk[u].reviewer \in BOOLEAN
<1>1. desk[u] \in Desk
  BY DEF Tables
<1>2. CASE desk[u] = Idle
  BY <1>2 DEF Idle
<1>3. CASE desk[u] \in [task : {"register"}, bank : Banks]
  BY <1>3
<1>4. CASE desk[u] \in [task : {"invite"}, bank : Banks, email : Users, was : UserRow]
  BY <1>4
<1>5. CASE desk[u] \in [task : {"open"}, product : Products, reviewer : BOOLEAN]
  BY <1>5
<1>6. CASE desk[u] \in [task : {"product"}, product : Products, reviewer : BOOLEAN, row : ProductRow]
  BY <1>6
<1> QED BY <1>1, <1>2, <1>3, <1>4, <1>5, <1>6 DEF Desk

(* A save leaves the saved row, and desks that held none of it.            *)
LEMMA Saved ==
    ASSUME Tables, NEW u \in Users, NEW p \in Products, NEW row \in ProductRow,
           NEW reviewer \in BOOLEAN, SaveProduct(u, p, row, reviewer)
    PROVE  /\ Tables'
           /\ product'[p] = row
           /\ \A q \in Products \ {p} : product'[q] = product[q] /\ seen'[q] = seen[q]
           /\ \A v \in Users :
                  \/ desk'[v] = Idle
                  \/ /\ desk'[v] = desk[v]
                     /\ desk[v].task = "product" => desk[v].product # p
           /\ seen'[p] = IF reviewer /\ row.status = "Active" THEN row.content ELSE seen[p]
           /\ UNCHANGED <<bank, user, member>>
<1> USE DEF Tables
<1>1. product' = [product EXCEPT ![p] = row] /\ UNCHANGED <<bank, user, member>>
  BY DEF SaveProduct
<1>2. desk' = [v \in Users |-> IF v = u \/ (desk[v].task = "product" /\ desk[v].product = p)
                               THEN Idle ELSE desk[v]]
  BY DEF SaveProduct
<1>3. /\ seen' \in [Products -> Contents \cup {None}]
      /\ \A q \in Products \ {p} : seen'[q] = seen[q]
      /\ seen'[p] = IF reviewer /\ row.status = "Active" THEN row.content ELSE seen[p]
  BY DEF SaveProduct, ProductRow
<1>4. desk' \in [Users -> Desk]
  BY <1>2 DEF Desk
<1> QED BY <1>1, <1>2, <1>3, <1>4

(* The requests that save a product, and what they save.                   *)
Saves ==
    \/ \E u \in Users, p \in Products, c \in Contents : CreateProduct(u, p, c)
    \/ \E u \in Users, c \in Contents : UpdateProduct(u, c)
    \/ \E u \in Users, status \in ProductStates : SetProductStatus(u, status)

(* The requests about banks and people.                                    *)
Others ==
    \E u \in Users :
        \/ \E b \in Banks :
               \/ RegisterBank(u, b) \/ SaveOrgContacts(u, b) \/ UploadKyc(u, b)
               \/ \E status \in BankStates : UpdateBankStatus(u, b, status)
               \/ \E email \in Users : InviteTeamMember(u, b, email)
        \/ InsertBank(u) \/ JoinTeam(u) \/ Drop(u)
        \/ \E v \in Users : UpdateUser(u, v)
        \/ LoadProduct(u) \/ \E p \in Products : OpenProduct(u, p)

LEMMA NextSplit == Next => Saves \/ Others
BY DEF Next, Saves, Others

(***************************************************************************)
(* Types.                                                                  *)
(***************************************************************************)
LEMMA ReviewerBoolean == \A u \in Users : Reviewer(u) \in BOOLEAN
BY DEF Reviewer, Operator, Admin

(* What an edit makes of a product as it was loaded.                       *)
Edited(old, c, reviewer) ==
    [old EXCEPT !.content = c,
                !.status  = IF reviewer THEN "Active"
                            ELSE IF old.status = "Rejected" THEN "Pending Approval" ELSE @]

LEMMA SavesTyped == Tables /\ Saves => Tables' /\ UNCHANGED <<bank, user, member>>
<1> SUFFICES ASSUME Tables, Saves PROVE Tables' /\ UNCHANGED <<bank, user, member>>
  OBVIOUS
<1>1. ASSUME NEW u \in Users, NEW p \in Products, NEW c \in Contents, CreateProduct(u, p, c)
      PROVE  Tables' /\ UNCHANGED <<bank, user, member>>
  <2>1. PICK b \in Banks :
            SaveProduct(u, p, [bank |-> b, content |-> c,
                               status |-> IF Reviewer(u) THEN "Active" ELSE "Pending Approval"],
                        Reviewer(u))
    BY <1>1 DEF CreateProduct
  <2>2. [bank |-> b, content |-> c,
         status |-> IF Reviewer(u) THEN "Active" ELSE "Pending Approval"] \in ProductRow
    BY DEF ProductRow, ProductStates
  <2> QED BY <2>1, <2>2, Saved, ReviewerBoolean
<1>2. ASSUME NEW u \in Users, NEW c \in Contents, UpdateProduct(u, c)
      PROVE  Tables' /\ UNCHANGED <<bank, user, member>>
  <2>1. desk[u].product \in Products /\ desk[u].row \in ProductRow /\ desk[u].reviewer \in BOOLEAN
    BY <1>2, OnDesk DEF UpdateProduct
  <2>2. PICK reviewer \in BOOLEAN : SaveProduct(u, desk[u].product, Edited(desk[u].row, c, reviewer), reviewer)
    BY <1>2, <2>1, ReviewerBoolean DEF UpdateProduct, Edited
  <2>3. Edited(desk[u].row, c, reviewer) \in ProductRow
    BY <2>1 DEF ProductRow, ProductStates, Edited
  <2> QED BY <2>1, <2>2, <2>3, Saved
<1>3. ASSUME NEW u \in Users, NEW status \in ProductStates, SetProductStatus(u, status)
      PROVE  Tables' /\ UNCHANGED <<bank, user, member>>
  <2>1. desk[u].product \in Products /\ desk[u].row \in ProductRow
    BY <1>3, OnDesk DEF SetProductStatus
  <2>2. [desk[u].row EXCEPT !.status = status] \in ProductRow
    BY <2>1 DEF ProductRow
  <2>3. SaveProduct(u, desk[u].product, [desk[u].row EXCEPT !.status = status], desk[u].reviewer)
    BY <1>3 DEF SetProductStatus
  <2>4. desk[u].reviewer \in BOOLEAN
    BY <1>3, OnDesk DEF SetProductStatus
  <2> QED BY <2>1, <2>2, <2>3, <2>4, Saved
<1> QED BY <1>1, <1>2, <1>3 DEF Saves

(* What an invitation that goes through writes.                            *)
Joined(u) ==
    LET e == desk[u].email IN
    /\ user' = [user EXCEPT ![e] =
                    [roles   |-> IF "agent" \in desk[u].was.roles THEN @.roles ELSE @.roles \cup {"agent"},
                     account |-> IF @.account = "none" THEN "enabled" ELSE @.account]]
    /\ member' = [member EXCEPT ![e] = @ \cup {desk[u].bank}]

LEMMA OthersTyped == Tables /\ Others => Tables' /\ UNCHANGED <<product, seen>>
<1> SUFFICES ASSUME Tables, Others PROVE Tables' /\ UNCHANGED <<product, seen>>
  OBVIOUS
<1> USE DEF Tables
<1>0. ASSUME NEW u \in Users, Close(u) PROVE desk' \in [Users -> Desk]
  BY <1>0 DEF Close, Desk
<1>1. ASSUME NEW u \in Users, NEW b \in Banks, RegisterBank(u, b) PROVE Tables' /\ UNCHANGED <<product, seen>>
  <2>1. [task |-> "register", bank |-> b] \in Desk
    BY DEF Desk
  <2> QED BY <1>1, <2>1 DEF RegisterBank
<1>2. ASSUME NEW u \in Users, NEW b \in Banks, SaveOrgContacts(u, b) \/ UploadKyc(u, b)
      PROVE  Tables' /\ UNCHANGED <<product, seen>>
  BY <1>2 DEF SaveOrgContacts, UploadKyc, BankRow
<1>3. ASSUME NEW u \in Users, NEW b \in Banks, NEW status \in BankStates, UpdateBankStatus(u, b, status)
      PROVE  Tables' /\ UNCHANGED <<product, seen>>
  <2>1. bank' \in [Banks -> BankRow]
    BY <1>3 DEF UpdateBankStatus, BankRow
  <2>2. user' \in [Users -> UserRow]
    BY <1>3 DEF UpdateBankStatus, SetUsersEnabled, UserRow
  <2> QED BY <1>3, <2>1, <2>2 DEF UpdateBankStatus
<1>4. ASSUME NEW u \in Users, NEW b \in Banks, NEW email \in Users, InviteTeamMember(u, b, email)
      PROVE  Tables' /\ UNCHANGED <<product, seen>>
  <2>1. [task |-> "invite", bank |-> b, email |-> email, was |-> user[email]] \in Desk
    BY DEF Desk
  <2> QED BY <1>4, <2>1 DEF InviteTeamMember
<1>5. ASSUME NEW u \in Users, InsertBank(u) PROVE Tables' /\ UNCHANGED <<product, seen>>
  <2>1. PICK b \in Banks : desk[u].bank = b
    BY <1>5, OnDesk DEF InsertBank
  <2>2. \/ UNCHANGED <<bank, member>>
        \/ /\ bank' = [bank EXCEPT ![b].status = "In Review"]
           /\ member' = [member EXCEPT ![u] = @ \cup {b}]
    BY <1>5, <2>1 DEF InsertBank
  <2>3. [bank[b] EXCEPT !.status = "In Review"] \in BankRow
    BY DEF BankRow, BankStates
  <2>4. bank' \in [Banks -> BankRow]
    BY <2>2, <2>3
  <2>5. member[u] \cup {b} \in SUBSET Banks
    OBVIOUS
  <2>6. member' \in [Users -> SUBSET Banks]
    BY <2>2, <2>5
  <2> QED BY <1>0, <1>5, <2>4, <2>6 DEF InsertBank
<1>6. ASSUME NEW u \in Users, JoinTeam(u) PROVE Tables' /\ UNCHANGED <<product, seen>>
  <2>1. desk[u].bank \in Banks /\ desk[u].email \in Users
    BY <1>6, OnDesk DEF JoinTeam
  <2>2. \/ UNCHANGED <<user, member>>
        \/ Joined(u)
    BY <1>6 DEF JoinTeam, Joined
  <2>3. user' \in [Users -> UserRow]
    <3>1. ASSUME Joined(u) PROVE user' \in [Users -> UserRow]
      <4>1. user[desk[u].email] \in UserRow
        BY <2>1
      <4>2. [roles   |-> IF "agent" \in desk[u].was.roles THEN user[desk[u].email].roles
                         ELSE user[desk[u].email].roles \cup {"agent"},
             account |-> IF user[desk[u].email].account = "none" THEN "enabled"
                         ELSE user[desk[u].email].account] \in UserRow
        BY <4>1 DEF UserRow, Roles
      <4> QED BY <2>1, <3>1, <4>2 DEF Joined
    <3> QED BY <2>2, <3>1
  <2>4. member' \in [Users -> SUBSET Banks]
    BY <2>1, <2>2 DEF Joined
  <2> QED BY <1>0, <1>6, <2>3, <2>4 DEF JoinTeam
<1>7. ASSUME NEW u \in Users, Drop(u) PROVE Tables' /\ UNCHANGED <<product, seen>>
  BY <1>0, <1>7 DEF Drop
<1>8. ASSUME NEW u \in Users, NEW v \in Users, UpdateUser(u, v) PROVE Tables' /\ UNCHANGED <<product, seen>>
  <2>1. user' \in [Users -> UserRow]
    BY <1>8 DEF UpdateUser, UserRow, Roles
  <2> QED BY <1>8, <2>1 DEF UpdateUser
<1>9. ASSUME NEW u \in Users, NEW p \in Products, OpenProduct(u, p) PROVE Tables' /\ UNCHANGED <<product, seen>>
  <2>1. [task |-> "open", product |-> p, reviewer |-> Reviewer(u)] \in Desk
    BY ReviewerBoolean DEF Desk
  <2> QED BY <1>9, <2>1 DEF OpenProduct
<1>10. ASSUME NEW u \in Users, LoadProduct(u) PROVE Tables' /\ UNCHANGED <<product, seen>>
  <2>1. PICK p \in Products, reviewer \in BOOLEAN :
            desk' = [desk EXCEPT ![u] = [task |-> "product", product |-> p,
                                         reviewer |-> reviewer, row |-> product[p]]]
    BY <1>10, OnDesk DEF LoadProduct
  <2>2. [task |-> "product", product |-> p, reviewer |-> reviewer, row |-> product[p]] \in Desk
    BY DEF Desk
  <2> QED BY <1>10, <2>1, <2>2 DEF LoadProduct
<1> QED BY <1>1, <1>2, <1>3, <1>4, <1>5, <1>6, <1>7, <1>8, <1>9, <1>10 DEF Others

LEMMA InitTables == Init => Tables
<1> SUFFICES ASSUME Init PROVE Tables
  OBVIOUS
<1>1. bank \in [Banks -> BankRow] /\ product \in [Products -> ProductRow]
  BY DEF Init, BankRow, ProductRow
<1>2. user \in [Users -> UserRow] /\ member \in [Users -> SUBSET Banks]
  BY MarketAssumption DEF Init, UserRow
<1>3. desk \in [Users -> Desk] /\ seen \in [Products -> Contents \cup {None}]
  BY DEF Init, Desk
<1> QED BY <1>1, <1>2, <1>3 DEF Tables

LEMMA TablesStep == Tables /\ [Next]_vars => Tables'
<1>1. Tables /\ UNCHANGED vars => Tables'
  BY DEF Tables, vars
<1> QED BY <1>1, NextSplit, SavesTyped, OthersTyped

(***************************************************************************)
(* Products.                                                               *)
(***************************************************************************)
(* A request is about a product on record, and has loaded it as it is.     *)
DeskFresh ==
    \A u \in Users :
        /\ desk[u].task \in {"open", "product"} => product[desk[u].product].status # "none"
        /\ desk[u].task = "product" => desk[u].row = product[desk[u].product]

(* What every save of a product has in common: it leaves a product, only a *)
(* reviewer leaves it live, and its bank is admitted or was its bank.      *)
GoodSave ==
    \E u \in Users, p \in Products, row \in ProductRow, reviewer \in BOOLEAN :
        /\ SaveProduct(u, p, row, reviewer)
        /\ row.status # "none"
        /\ row.status = "Active" => reviewer
        /\ \/ row.bank \in Banks /\ bank[row.bank].status = "Active"
           \/ product[p].status # "none" /\ row.bank = product[p].bank

LEMMA SavesAreGood == Tables /\ DeskFresh /\ Saves => GoodSave
<1> SUFFICES ASSUME Tables, DeskFresh, Saves PROVE GoodSave
  OBVIOUS
<1>1. ASSUME NEW u \in Users, NEW p \in Products, NEW c \in Contents, CreateProduct(u, p, c)
      PROVE  GoodSave
  <2>1. PICK b \in Banks :
            /\ bank[b].status = "Active"
            /\ SaveProduct(u, p, [bank |-> b, content |-> c,
                                  status |-> IF Reviewer(u) THEN "Active" ELSE "Pending Approval"],
                           Reviewer(u))
    BY <1>1 DEF CreateProduct
  <2> DEFINE row == [bank |-> b, content |-> c,
                     status |-> IF Reviewer(u) THEN "Active" ELSE "Pending Approval"]
  <2>2. row \in ProductRow /\ row.bank = b
    BY DEF ProductRow, ProductStates
  <2>3. row.status # "none" /\ (row.status = "Active" => Reviewer(u))
    OBVIOUS
  <2> HIDE DEF row
  <2>4. SaveProduct(u, p, row, Reviewer(u))
    BY <2>1 DEF row
  <2> QED BY <2>1, <2>2, <2>3, <2>4, ReviewerBoolean DEF GoodSave
<1>2. ASSUME NEW u \in Users, NEW c \in Contents, UpdateProduct(u, c)
      PROVE  GoodSave
  <2>1. PICK p \in Products, old \in ProductRow :
            desk[u].task = "product" /\ desk[u].product = p /\ desk[u].row = old
    BY <1>2, OnDesk DEF UpdateProduct
  <2>2. old = product[p] /\ old.status # "none"
    BY <2>1 DEF DeskFresh
  <2>3. PICK reviewer \in BOOLEAN :
            /\ SaveProduct(u, p, Edited(old, c, reviewer), reviewer)
            /\ old.status = "Active" => reviewer
    BY <1>2, <2>1, OnDesk, ReviewerBoolean DEF UpdateProduct, Edited
  <2> DEFINE row == Edited(old, c, reviewer)
  <2>4. row \in ProductRow /\ row.bank = old.bank
    BY DEF ProductRow, ProductStates, Edited
  <2>5. row.status = IF reviewer THEN "Active"
                     ELSE IF old.status = "Rejected" THEN "Pending Approval" ELSE old.status
    BY DEF ProductRow, Edited
  <2>6. row.status # "none" /\ (row.status = "Active" => reviewer)
    BY <2>2, <2>3, <2>5
  <2> HIDE DEF row
  <2>7. SaveProduct(u, p, row, reviewer)
    BY <2>3 DEF row
  <2> QED BY <2>2, <2>4, <2>6, <2>7 DEF GoodSave
<1>3. ASSUME NEW u \in Users, NEW status \in ProductStates, SetProductStatus(u, status)
      PROVE  GoodSave
  <2>1. PICK p \in Products, old \in ProductRow, reviewer \in BOOLEAN :
            /\ desk[u].task = "product" /\ desk[u].product = p /\ desk[u].row = old
            /\ desk[u].reviewer = reviewer
    BY <1>3, OnDesk DEF SetProductStatus
  <2>2. old = product[p] /\ old.status # "none"
    BY <2>1 DEF DeskFresh
  <2> DEFINE row == [old EXCEPT !.status = status]
  <2>3. SaveProduct(u, p, row, reviewer) /\ (status # "Pending Approval" => reviewer)
    BY <1>3, <2>1 DEF SetProductStatus
  <2>4. row \in ProductRow /\ row.bank = old.bank /\ row.status = status
    BY DEF ProductRow
  <2>5. status # "none" /\ (status = "Active" => reviewer)
    BY <2>3 DEF ProductStates
  <2> HIDE DEF row
  <2> QED BY <2>2, <2>3, <2>4, <2>5 DEF GoodSave
<1> QED BY <1>1, <1>2, <1>3 DEF Saves

(* Other requests leave a desk alone, or clear it, or put on it the        *)
(* product as it is.                                                       *)
LEMMA OtherDesks ==
    ASSUME Tables, DeskFresh, Others, NEW v \in Users
    PROVE  \/ desk'[v] = desk[v]
           \/ desk'[v].task \notin {"open", "product"}
           \/ /\ product[desk'[v].product].status # "none"
              /\ desk'[v].task = "product" => desk'[v].row = product[desk'[v].product]
<1> DEFINE Fine == \/ desk'[v] = desk[v]
                   \/ desk'[v].task \notin {"open", "product"}
                   \/ /\ product[desk'[v].product].status # "none"
                      /\ desk'[v].task = "product" => desk'[v].row = product[desk'[v].product]
<1>0. ASSUME NEW u \in Users, NEW what, what.task \notin {"open", "product"}, desk' = [desk EXCEPT ![u] = what]
      PROVE  Fine
  BY <1>0 DEF Tables
<1>1. ASSUME UNCHANGED desk PROVE Fine
  BY <1>1
<1>2. ASSUME NEW u \in Users, Close(u) PROVE Fine
  BY <1>2, <1>0 DEF Close, Idle
<1>3. ASSUME NEW u \in Users, NEW b \in Banks, RegisterBank(u, b) PROVE Fine
  BY <1>3, <1>0 DEF RegisterBank
<1>4. ASSUME NEW u \in Users, NEW b \in Banks, NEW email \in Users, InviteTeamMember(u, b, email)
      PROVE  Fine
  BY <1>4, <1>0 DEF InviteTeamMember
<1>5. ASSUME NEW u \in Users, NEW p \in Products, OpenProduct(u, p) PROVE Fine
  BY <1>5 DEF OpenProduct, Tables
<1>8. ASSUME NEW u \in Users, LoadProduct(u) PROVE Fine
  BY <1>8, OnDesk DEF LoadProduct, DeskFresh, Tables
<1> HIDE DEF Fine
<1>6. ASSUME NEW u \in Users, InsertBank(u) \/ JoinTeam(u) \/ Drop(u) PROVE Fine
  BY <1>6, <1>2 DEF InsertBank, JoinTeam, Drop
<1>7. Fine
  <2>1. PICK u \in Users :
            \/ \E b \in Banks :
                   \/ RegisterBank(u, b) \/ SaveOrgContacts(u, b) \/ UploadKyc(u, b)
                   \/ \E status \in BankStates : UpdateBankStatus(u, b, status)
                   \/ \E email \in Users : InviteTeamMember(u, b, email)
            \/ InsertBank(u) \/ JoinTeam(u) \/ Drop(u)
            \/ \E w \in Users : UpdateUser(u, w)
            \/ LoadProduct(u) \/ \E p \in Products : OpenProduct(u, p)
    BY DEF Others
  <2>2. ASSUME NEW w \in Users, UpdateUser(u, w) PROVE Fine
    BY <2>2, <1>1 DEF UpdateUser
  <2>3. ASSUME NEW b \in Banks, SaveOrgContacts(u, b) \/ UploadKyc(u, b) PROVE Fine
    BY <2>3, <1>1 DEF SaveOrgContacts, UploadKyc
  <2>4. ASSUME NEW b \in Banks, NEW status \in BankStates, UpdateBankStatus(u, b, status) PROVE Fine
    BY <2>4, <1>1 DEF UpdateBankStatus
  <2> QED BY <2>1, <2>2, <2>3, <2>4, <1>3, <1>4, <1>5, <1>6, <1>8
<1> QED BY <1>7 DEF Fine

LEMMA DeskFreshStep == Tables /\ DeskFresh /\ [Next]_vars => DeskFresh'
<1> SUFFICES ASSUME Tables, DeskFresh, [Next]_vars PROVE DeskFresh'
  OBVIOUS
<1>1. CASE UNCHANGED vars
  BY <1>1 DEF vars, DeskFresh
<1>2. CASE Saves
  <2>1. PICK u \in Users, p \in Products, row \in ProductRow, reviewer \in BOOLEAN :
            SaveProduct(u, p, row, reviewer) /\ row.status # "none"
    BY <1>2, SavesAreGood DEF GoodSave
  <2>2. /\ \A q \in Products \ {p} : product'[q] = product[q]
        /\ product'[p] = row
        /\ \A v \in Users :
               \/ desk'[v] = Idle
               \/ /\ desk'[v] = desk[v]
                  /\ desk[v].task = "product" => desk[v].product # p
    BY <2>1, Saved
  <2>3. SUFFICES ASSUME NEW v \in Users, desk'[v].task \in {"open", "product"}
                 PROVE  /\ product'[desk'[v].product].status # "none"
                        /\ desk'[v].task = "product" => desk'[v].row = product'[desk'[v].product]
    BY DEF DeskFresh
  <2>4. desk'[v] = desk[v] /\ (desk[v].task = "product" => desk[v].product # p)
    BY <2>2, <2>3 DEF Idle
  <2>5. desk[v].product \in Products
    BY <2>3, <2>4, OnDesk
  <2> QED BY <2>1, <2>2, <2>3, <2>4, <2>5 DEF DeskFresh
<1>3. CASE Others
  <2>1. UNCHANGED product
    BY <1>3, OthersTyped
  <2> QED BY <1>3, <2>1, OtherDesks DEF DeskFresh
<1> QED BY <1>1, <1>2, <1>3, NextSplit

LEMMA InitDesks == Init => DeskFresh
BY DEF Init, DeskFresh, Idle

(***************************************************************************)
(* What is live was reviewed.                                              *)
(***************************************************************************)
LEMMA ReviewedStep ==
    Tables /\ DeskFresh /\ LiveContentReviewed /\ [Next]_vars => LiveContentReviewed'
<1> SUFFICES ASSUME Tables, DeskFresh, LiveContentReviewed, [Next]_vars PROVE LiveContentReviewed'
  OBVIOUS
<1>1. CASE UNCHANGED vars
  BY <1>1 DEF vars, LiveContentReviewed
<1>2. CASE Saves
  <2>1. PICK u \in Users, p \in Products, row \in ProductRow, reviewer \in BOOLEAN :
            SaveProduct(u, p, row, reviewer) /\ (row.status = "Active" => reviewer)
    BY <1>2, SavesAreGood DEF GoodSave
  <2>2. /\ product'[p] = row
        /\ \A q \in Products \ {p} : product'[q] = product[q] /\ seen'[q] = seen[q]
        /\ seen'[p] = IF reviewer /\ row.status = "Active" THEN row.content ELSE seen[p]
    BY <2>1, Saved
  <2> QED BY <2>1, <2>2 DEF LiveContentReviewed
<1>3. CASE Others
  BY <1>3, OthersTyped DEF LiveContentReviewed
<1> QED BY <1>1, <1>2, <1>3, NextSplit

(* A live product reads as a reviewer last put it live, whatever overlaps. *)
THEOREM LiveReviewed == Spec => []LiveContentReviewed
<1>1. Init => LiveContentReviewed
  BY DEF Init, LiveContentReviewed
<1> QED BY <1>1, InitTables, InitDesks, TablesStep, DeskFreshStep, ReviewedStep, PTL DEF Spec

(***************************************************************************)
(* Only admitted banks have products.                                      *)
(***************************************************************************)
Admitted(b) == b \in Banks /\ bank[b].status \in {"Active", "Suspended"}

AdmittedInv == \A p \in Products : product[p].status # "none" => Admitted(product[p].bank)

(* No request takes a bank back to review.                                 *)
LEMMA AdmissionStays ==
    ASSUME Tables, Others, NEW b, Admitted(b)
    PROVE  Admitted(b)'
<1>0. b \in Banks /\ bank[b].status \in {"Active", "Suspended"}
  BY DEF Admitted
<1> USE DEF Tables
<1>1. ASSUME UNCHANGED bank PROVE Admitted(b)'
  BY <1>0, <1>1 DEF Admitted
<1>2. ASSUME NEW u \in Users, InsertBank(u) PROVE Admitted(b)'
  <2>1. UNCHANGED bank \/ (/\ bank[desk[u].bank].status = "none"
                           /\ bank' = [bank EXCEPT ![desk[u].bank].status = "In Review"])
    BY <1>2 DEF InsertBank
  <2> QED BY <1>0, <2>1 DEF Admitted
<1>3. ASSUME NEW u \in Users, NEW k \in Banks, SaveOrgContacts(u, k) \/ UploadKyc(u, k)
      PROVE  Admitted(b)'
  <2>1. bank'[b].status = bank[b].status
    BY <1>0, <1>3 DEF SaveOrgContacts, UploadKyc, BankRow
  <2> QED BY <1>0, <2>1 DEF Admitted
<1>4. ASSUME NEW u \in Users, NEW k \in Banks, NEW status \in BankStates,
             UpdateBankStatus(u, k, status)
      PROVE  Admitted(b)'
  <2>1. status \in {"Active", "Suspended"}
    BY <1>4 DEF UpdateBankStatus, Moves, BankStates
  <2>2. bank' = [bank EXCEPT ![k].status = status]
    BY <1>4 DEF UpdateBankStatus
  <2>3. bank'[b].status \in {bank[b].status, status}
    BY <1>0, <2>2 DEF BankRow
  <2> QED BY <1>0, <2>1, <2>3 DEF Admitted
<1>5. ASSUME NEW u \in Users, JoinTeam(u) \/ Drop(u) PROVE Admitted(b)'
  BY <1>5, <1>1 DEF JoinTeam, Drop
<1>6. ASSUME NEW u \in Users, NEW v \in Users, UpdateUser(u, v) PROVE Admitted(b)'
  BY <1>6, <1>1 DEF UpdateUser
<1>7. ASSUME NEW u \in Users, LoadProduct(u) \/ \E p \in Products : OpenProduct(u, p) PROVE Admitted(b)'
  BY <1>7, <1>1 DEF OpenProduct, LoadProduct
<1>8. ASSUME NEW u \in Users, NEW k \in Banks, RegisterBank(u, k) PROVE Admitted(b)'
  BY <1>8, <1>1 DEF RegisterBank
<1>9. ASSUME NEW u \in Users, NEW k \in Banks, NEW email \in Users, InviteTeamMember(u, k, email)
      PROVE  Admitted(b)'
  BY <1>9, <1>1 DEF InviteTeamMember
<1> QED BY <1>2, <1>3, <1>4, <1>5, <1>6, <1>7, <1>8, <1>9 DEF Others

LEMMA AdmittedStep == Tables /\ DeskFresh /\ AdmittedInv /\ [Next]_vars => AdmittedInv'
<1> SUFFICES ASSUME Tables, DeskFresh, AdmittedInv, [Next]_vars PROVE AdmittedInv'
  OBVIOUS
<1>1. CASE UNCHANGED vars
  BY <1>1 DEF vars, AdmittedInv, Admitted
<1>2. CASE Saves
  <2>1. PICK u \in Users, p \in Products, row \in ProductRow, reviewer \in BOOLEAN :
            /\ SaveProduct(u, p, row, reviewer)
            /\ \/ row.bank \in Banks /\ bank[row.bank].status = "Active"
               \/ product[p].status # "none" /\ row.bank = product[p].bank
    BY <1>2, SavesAreGood DEF GoodSave
  <2>2. /\ product'[p] = row
        /\ \A q \in Products \ {p} : product'[q] = product[q]
        /\ UNCHANGED bank
    BY <2>1, Saved
  <2>3. Admitted(row.bank)
    BY <2>1 DEF AdmittedInv, Admitted
  <2> QED BY <2>2, <2>3 DEF AdmittedInv, Admitted
<1>3. CASE Others
  <2>1. UNCHANGED product
    BY <1>3, OthersTyped
  <2>2. SUFFICES ASSUME NEW p \in Products, product[p].status # "none"
                 PROVE  Admitted(product[p].bank)'
    BY <2>1 DEF AdmittedInv
  <2>3. Admitted(product[p].bank)
    BY <2>2 DEF AdmittedInv
  <2> QED BY <1>3, <2>3, <2>1, AdmissionStays DEF Admitted
<1> QED BY <1>1, <1>2, <1>3, NextSplit

(* A bank has products only once an operator has admitted it.              *)
THEOREM OnlyAdmittedSell == Spec => []OnlyAdmittedBanksSell
<1>1. Init => AdmittedInv
  BY DEF Init, AdmittedInv
<1>2. AdmittedInv => OnlyAdmittedBanksSell
  BY DEF AdmittedInv, Admitted, OnlyAdmittedBanksSell
<1> QED BY <1>1, <1>2, InitTables, InitDesks, TablesStep, DeskFreshStep, AdmittedStep, PTL DEF Spec

(***************************************************************************)
(* Members have accounts and roles.                                        *)
(***************************************************************************)
(* Who has a role has an account, and the reverse; who registers a bank    *)
(* has both, and roles read for an invitation were never all taken away.   *)
PeopleInv ==
    /\ \A u \in Users : user[u].account # "none" <=> user[u].roles # {}
    /\ \A u \in Users : member[u] # {} => user[u].account # "none"
    /\ \A u \in Users : desk[u].task = "register" => user[u].account # "none"
    /\ \A u \in Users :
           desk[u].task = "invite" /\ desk[u].was.roles # {} => user[desk[u].email].roles # {}

(* Nobody loses an account, new members have one, and so does whoever      *)
(* starts to register a bank.                                              *)
PeopleMove ==
    /\ \A v \in Users : user'[v].account # "none" <=> user'[v].roles # {}
    /\ \A v \in Users : user[v].account # "none" => user'[v].account # "none"
    /\ \A v \in Users : member'[v] = member[v] \/ user'[v].account # "none"
    /\ \A v \in Users :
           \/ desk'[v] = desk[v]
           \/ desk'[v].task \notin {"register", "invite"}
           \/ desk'[v].task = "register" /\ user[v].account # "none"
           \/ desk'[v].task = "invite" /\ desk'[v].email \in Users /\ desk'[v].was = user[desk'[v].email]

LEMMA PeopleKept == Tables /\ PeopleInv /\ PeopleMove => PeopleInv'
<1> SUFFICES ASSUME Tables, PeopleInv, PeopleMove PROVE PeopleInv'
  OBVIOUS
<1>1. \A v \in Users : user[v].roles # {} => user'[v].roles # {}
  BY DEF PeopleInv, PeopleMove
<1>2. ASSUME NEW v \in Users, desk'[v].task = "invite", desk'[v].was.roles # {}
      PROVE  user'[desk'[v].email].roles # {}
  <2>1. CASE desk'[v] = desk[v]
    <3>1. desk[v].email \in Users
      BY <1>2, <2>1, OnDesk
    <3> QED BY <1>1, <1>2, <2>1, <3>1 DEF PeopleInv
  <2>2. CASE desk'[v].email \in Users /\ desk'[v].was = user[desk'[v].email]
    BY <1>1, <1>2, <2>2
  <2> QED BY <1>2, <2>1, <2>2 DEF PeopleMove
<1>3. ASSUME NEW v \in Users, desk'[v].task = "register" PROVE user'[v].account # "none"
  BY <1>3 DEF PeopleInv, PeopleMove
<1>4. ASSUME NEW v \in Users, member'[v] # {} PROVE user'[v].account # "none"
  BY <1>4 DEF PeopleInv, PeopleMove
<1> QED BY <1>2, <1>3, <1>4 DEF PeopleInv, PeopleMove

LEMMA OthersMovePeople == Tables /\ PeopleInv /\ Others => PeopleMove
<1> SUFFICES ASSUME Tables, PeopleInv, Others PROVE PeopleMove
  OBVIOUS
<1> USE DEF Tables
<1>0. ASSUME NEW u \in Users, Close(u) PROVE \A v \in Users : desk'[v] = desk[v] \/ desk'[v].task = "idle"
  BY <1>0 DEF Close, Idle
<1>1. ASSUME NEW u \in Users, NEW b \in Banks, RegisterBank(u, b) PROVE PeopleMove
  BY <1>1 DEF RegisterBank, Free, PeopleInv, PeopleMove
<1>2. ASSUME NEW u \in Users, NEW b \in Banks, SaveOrgContacts(u, b) \/ UploadKyc(u, b) PROVE PeopleMove
  BY <1>2 DEF SaveOrgContacts, UploadKyc, PeopleInv, PeopleMove
<1>3. ASSUME NEW u \in Users, NEW b \in Banks, NEW status \in BankStates, UpdateBankStatus(u, b, status)
      PROVE  PeopleMove
  <2>1. UNCHANGED user \/ \E state \in {"enabled", "disabled"} : SetUsersEnabled(b, state)
    BY <1>3 DEF UpdateBankStatus
  <2>2. UNCHANGED <<member, desk>>
    BY <1>3 DEF UpdateBankStatus
  <2>3. ASSUME NEW state \in {"enabled", "disabled"}, SetUsersEnabled(b, state), NEW v \in Users
        PROVE  \/ user'[v] = user[v]
               \/ /\ member[v] # {} /\ user'[v].roles = user[v].roles
                  /\ user'[v].account # "none"
    BY <2>3 DEF SetUsersEnabled, UserRow
  <2> QED BY <2>1, <2>2, <2>3 DEF PeopleInv, PeopleMove
<1>4. ASSUME NEW u \in Users, NEW b \in Banks, NEW email \in Users, InviteTeamMember(u, b, email)
      PROVE  PeopleMove
  BY <1>4 DEF InviteTeamMember, PeopleInv, PeopleMove
<1>5. ASSUME NEW u \in Users, InsertBank(u) PROVE PeopleMove
  <2>1. user[u].account # "none" /\ UNCHANGED user
    BY <1>5 DEF InsertBank, PeopleInv
  <2>2. \A v \in Users : member'[v] = member[v] \/ v = u
    BY <1>5 DEF InsertBank
  <2>3. \A v \in Users : desk'[v] = desk[v] \/ desk'[v].task = "idle"
    BY <1>0, <1>5 DEF InsertBank
  <2> QED BY <2>1, <2>2, <2>3 DEF PeopleInv, PeopleMove
<1>6. ASSUME NEW u \in Users, JoinTeam(u) PROVE PeopleMove
  <2>1. PICK e \in Users, was \in UserRow :
            desk[u].task = "invite" /\ desk[u].email = e /\ desk[u].was = was
    BY <1>6, OnDesk DEF JoinTeam
  <2>2. \A v \in Users : desk'[v] = desk[v] \/ desk'[v].task = "idle"
    BY <1>0, <1>6 DEF JoinTeam
  <2>3. UNCHANGED <<user, member>> \/ Joined(u)
    BY <1>6 DEF JoinTeam, Joined
  <2>4. CASE UNCHANGED <<user, member>>
    BY <2>2, <2>4 DEF PeopleInv, PeopleMove
  <2>5. CASE Joined(u)
    <3>1. was.roles # {} => user[e].roles # {}
      BY <2>1 DEF PeopleInv
    <3>2. /\ user'[e].roles = IF "agent" \in was.roles THEN user[e].roles ELSE user[e].roles \cup {"agent"}
          /\ user'[e].account = IF user[e].account = "none" THEN "enabled" ELSE user[e].account
          /\ \A v \in Users \ {e} : user'[v] = user[v] /\ member'[v] = member[v]
      BY <2>1, <2>5 DEF Joined
    <3>3. user'[e].roles # {} /\ user'[e].account # "none"
      BY <3>1, <3>2
    <3> QED BY <2>2, <3>2, <3>3 DEF PeopleInv, PeopleMove
  <2> QED BY <2>3, <2>4, <2>5
<1>7. ASSUME NEW u \in Users, Drop(u) PROVE PeopleMove
  BY <1>0, <1>7 DEF Drop, PeopleInv, PeopleMove
<1>8. ASSUME NEW u \in Users, NEW v \in Users, UpdateUser(u, v) PROVE PeopleMove
  <2>1. user[v].account # "none" /\ user[v].roles # {} /\ UNCHANGED <<member, desk>>
    BY <1>8 DEF UpdateUser, CanManage, PeopleInv
  <2>2. PICK row \in UserRow : /\ row.account # "none" /\ row.roles # {}
                              /\ user' = [user EXCEPT ![v] = row]
    <3>1. CASE \E role \in {"admin", "agent"} : user' = [user EXCEPT ![v].roles = {role}]
      <4>1. PICK role \in {"admin", "agent"} : user' = [user EXCEPT ![v].roles = {role}]
        BY <3>1
      <4>2. [user[v] EXCEPT !.roles = {role}] \in UserRow
        BY DEF UserRow, Roles
      <4>3. /\ [user[v] EXCEPT !.roles = {role}].account # "none"
            /\ [user[v] EXCEPT !.roles = {role}].roles # {}
        BY <2>1 DEF UserRow
      <4> QED BY <4>1, <4>2, <4>3
    <3>2. CASE \E state \in {"enabled", "disabled"} : user' = [user EXCEPT ![v].account = state]
      <4>1. PICK state \in {"enabled", "disabled"} : user' = [user EXCEPT ![v].account = state]
        BY <3>2
      <4>2. [user[v] EXCEPT !.account = state] \in UserRow
        BY DEF UserRow
      <4>3. /\ [user[v] EXCEPT !.account = state].account # "none"
            /\ [user[v] EXCEPT !.account = state].roles # {}
        BY <2>1 DEF UserRow
      <4> QED BY <4>1, <4>2, <4>3
    <3> QED BY <1>8, <3>1, <3>2 DEF UpdateUser
  <2> QED BY <2>1, <2>2 DEF PeopleInv, PeopleMove
<1>9. ASSUME NEW u \in Users, LoadProduct(u) \/ \E p \in Products : OpenProduct(u, p) PROVE PeopleMove
  BY <1>9 DEF OpenProduct, LoadProduct, PeopleInv, PeopleMove
<1> QED BY <1>1, <1>2, <1>3, <1>4, <1>5, <1>6, <1>7, <1>8, <1>9 DEF Others

LEMMA PeopleStep == Tables /\ DeskFresh /\ PeopleInv /\ [Next]_vars => PeopleInv'
<1> SUFFICES ASSUME Tables, DeskFresh, PeopleInv, [Next]_vars PROVE PeopleInv'
  OBVIOUS
<1>1. CASE UNCHANGED vars
  BY <1>1 DEF vars, PeopleInv
<1>2. CASE Saves
  <2>1. PICK u \in Users, p \in Products, row \in ProductRow, reviewer \in BOOLEAN :
            SaveProduct(u, p, row, reviewer)
    BY <1>2, SavesAreGood DEF GoodSave
  <2>2. /\ \A v \in Users : desk'[v] = Idle \/ desk'[v] = desk[v]
        /\ UNCHANGED <<user, member>>
    BY <2>1, Saved
  <2>3. PeopleMove
    BY <2>2 DEF PeopleInv, PeopleMove, Idle
  <2> QED BY <2>3, PeopleKept
<1>3. CASE Others
  BY <1>3, OthersMovePeople, PeopleKept
<1> QED BY <1>1, <1>2, <1>3, NextSplit

(* The tables stay well typed, and members have accounts and roles.        *)
THEOREM MarketTyped == Spec => []TypeOK
<1>1. Init => PeopleInv
  <2> SUFFICES ASSUME Init PROVE PeopleInv
    OBVIOUS
  <2>1. \A u \in Users : desk[u].task = "idle" /\ member[u] = {}
    BY DEF Init, Idle
  <2>2. \A u \in Users : user[u].roles = Staff[u]
                         /\ user[u].account = (IF Staff[u] = {} THEN "none" ELSE "enabled")
    BY DEF Init
  <2> QED BY <2>1, <2>2 DEF PeopleInv
<1>2. Tables /\ PeopleInv => TypeOK
  BY DEF Tables, PeopleInv, TypeOK
<1> QED BY <1>1, <1>2, InitTables, InitDesks, TablesStep, DeskFreshStep, PeopleStep, PTL DEF Spec

(***************************************************************************)
(* Catalog: the scope of a list of products and the check of a single one  *)
(* agree.                                                                  *)
(***************************************************************************)

(* The condition of loan_product_scope_query selects the products for      *)
(* which bank_scope_doc says yes, although the one asks for the operator,  *)
(* the browsing roles and the bank, and the other for who is bound to no   *)
(* bank, for farmers and for the rest.                                     *)
LEMMA ScopeIsCheck ==
    ASSUME NEW c, NEW b \in UserBanks(c)
    PROVE  LoanProductScopeQuery(c, b) = MayOpen(c, b)
<1> DEFINE operator == "operator" \in c.roles
           agent    == "field agent" \in c.roles
           farmer   == "farmer" \in c.roles
<1>1. /\ IsPlatformAdmin(c) <=> operator
      /\ IsBankUnbound(c) <=> operator \/ agent
      /\ IsFarmer(c) <=> farmer
      /\ c.roles \cap Browsing # {} <=> farmer \/ agent
  BY DEF IsPlatformAdmin, IsBankUnbound, IsFarmer, Browsing
<1>2. Live \subseteq Offered
  BY DEF Live, Offered
<1>3. OwnedBy(b) \subseteq Offered
  BY DEF OwnedBy
<1> HIDE DEF operator, agent, farmer
<1>4. CASE operator
  <2>1. LoanProductScopeQuery(c, b) = Offered
    BY <1>1, <1>4 DEF LoanProductScopeQuery
  <2>2. MayOpen(c, b) = Offered
    BY <1>1, <1>4 DEF MayOpen
  <2> QED BY <2>1, <2>2
<1>5. CASE ~operator /\ (farmer \/ agent)
  <2>1. LoanProductScopeQuery(c, b) = Live
    BY <1>1, <1>5 DEF LoanProductScopeQuery
  <2>2. MayOpen(c, b) = Live
    BY <1>1, <1>2, <1>5 DEF MayOpen
  <2> QED BY <2>1, <2>2
<1>6. CASE ~operator /\ ~farmer /\ ~agent
  <2>1. LoanProductScopeQuery(c, b) = OwnedBy(b)
    BY <1>1, <1>6 DEF LoanProductScopeQuery, BankScopeQuery
  <2>2. MayOpen(c, b) = OwnedBy(b)
    BY <1>1, <1>3, <1>6 DEF MayOpen
  <2> QED BY <2>1, <2>2
<1> QED BY <1>4, <1>5, <1>6

(* Nothing outside what is offered is in scope, and who may not choose the *)
(* status of a list has only live products in scope.                       *)
LEMMA ScopeBounds ==
    ASSUME NEW c, NEW b \in UserBanks(c)
    PROVE  /\ LoanProductScopeQuery(c, b) \subseteq Offered
           /\ ~IsBankUser(c, b) => LoanProductScopeQuery(c, b) \subseteq Live
<1>1. MayOpen(c, b) \subseteq Offered
  BY DEF MayOpen
<1>2. ASSUME ~IsBankUser(c, b) PROVE MayOpen(c, b) \subseteq Live
  <2>1. b = None /\ ~IsPlatformAdmin(c)
    BY <1>2 DEF IsBankUser
  <2>2. OwnedBy(b) = {}
    BY <2>1 DEF OwnedBy
  <2> QED BY <2>1, <2>2 DEF MayOpen
<1> QED BY <1>1, <1>2, ScopeIsCheck

(* A list that asks for nothing is the scope; one that asks for live       *)
(* products is the live part of the scope.                                 *)
LEMMA ListsAreScopes ==
    ASSUME NEW c, NEW b \in UserBanks(c), NEW names \in SUBSET Products
    PROVE  /\ ListProducts(c, b, names) = LoanProductScopeQuery(c, b) \cap names
           /\ ListCatalog(c, b, None, names) = LoanProductScopeQuery(c, b) \cap names
           /\ ListCatalog(c, b, "Active", names) = LoanProductScopeQuery(c, b) \cap Live \cap names
<1>1. "Active" # None
  BY CatalogAssumption DEF ProductStates
<1>2. \A p \in Products : p \in Live <=> product[p].status = "Active"
  BY DEF Live
<1>3. ListCatalog(c, b, "Active", names) =
          {p \in LoanProductScopeQuery(c, b) \cap names : product[p].status = "Active"}
  BY <1>1 DEF ListCatalog
<1>4. ListCatalog(c, b, None, names) = LoanProductScopeQuery(c, b) \cap names
  <2>1. CASE IsBankUser(c, b)
    BY <2>1 DEF ListCatalog
  <2>2. CASE ~IsBankUser(c, b)
    <3>1. ListCatalog(c, b, None, names) =
              {p \in LoanProductScopeQuery(c, b) \cap names : product[p].status = "Active"}
      BY <1>1, <2>2 DEF ListCatalog
    <3> QED BY <1>2, <2>2, <3>1, ScopeBounds
  <2> QED BY <2>1, <2>2
<1> QED BY <1>2, <1>3, <1>4 DEF ListProducts

(* Whatever is on record, what is listed is what may be opened.            *)
LEMMA ListsAgree == LiveContentReviewed => ListedIsOpened
<1> SUFFICES ASSUME LiveContentReviewed, NEW c \in Callers, NEW b \in UserBanks(c)
             PROVE  /\ ListProducts(c, b, Products) = MayOpen(c, b)
                    /\ ListCatalog(c, b, None, Products) = MayOpen(c, b)
                    /\ \A saved \in SUBSET Products :
                           SavedProducts(c, b, saved) = ListCatalog(c, b, "Active", saved)
                    /\ MayBookmark(c, b) \subseteq MayOpen(c, b)
                    /\ \A x \in Facets(c, b) :
                           \E p \in ListCatalog(c, b, "Active", Products) : product[p].content = x
                    /\ \A p \in MayOpen(c, b) :
                           ~IsPlatformAdmin(c) /\ product[p].bank \notin c.banks
                               => product[p].content = seen[p]
  BY DEF ListedIsOpened
<1>1. LoanProductScopeQuery(c, b) = MayOpen(c, b)
  BY ScopeIsCheck
<1>2. MayOpen(c, b) \subseteq Products
  BY DEF MayOpen, Offered
<1>3. ListProducts(c, b, Products) = MayOpen(c, b) /\ ListCatalog(c, b, None, Products) = MayOpen(c, b)
  <2>1. LoanProductScopeQuery(c, b) \cap Products = MayOpen(c, b)
    BY <1>1, <1>2
  <2>2. \A names \in SUBSET Products :
            /\ ListProducts(c, b, names) = LoanProductScopeQuery(c, b) \cap names
            /\ ListCatalog(c, b, None, names) = LoanProductScopeQuery(c, b) \cap names
    BY ListsAreScopes
  <2>3. /\ ListProducts(c, b, Products) = LoanProductScopeQuery(c, b) \cap Products
        /\ ListCatalog(c, b, None, Products) = LoanProductScopeQuery(c, b) \cap Products
    BY <2>2
  <2> QED BY <2>1, <2>3
<1>4. ASSUME NEW saved \in SUBSET Products
      PROVE  SavedProducts(c, b, saved) = ListCatalog(c, b, "Active", saved)
  BY ListsAreScopes DEF SavedProducts
<1>5. MayBookmark(c, b) \subseteq MayOpen(c, b)
  BY <1>1 DEF MayBookmark
<1>6. ASSUME NEW x \in Facets(c, b)
      PROVE  \E p \in ListCatalog(c, b, "Active", Products) : product[p].content = x
  <2>1. PICK p \in LoanProductScopeQuery(c, b) \cap Live : product[p].content = x
    BY <1>6 DEF Facets
  <2>2. p \in ListCatalog(c, b, "Active", Products)
    BY <1>1, <1>2, ListsAreScopes
  <2> QED BY <2>1, <2>2
<1>7. ASSUME NEW p \in MayOpen(c, b), ~IsPlatformAdmin(c), product[p].bank \notin c.banks
      PROVE  product[p].content = seen[p]
  <2>1. p \notin OwnedBy(b)
    BY <1>7 DEF OwnedBy, UserBanks
  <2>2. p \in Live
    BY <1>7, <2>1 DEF MayOpen
  <2> QED BY <2>2 DEF Live, LiveContentReviewed
<1> QED BY <1>3, <1>4, <1>5, <1>6, <1>7

(* For any marketplace and every caller: each list of products shows       *)
(* exactly what the caller may open, and of other banks' products only     *)
(* what a reviewer last put live.                                          *)
THEOREM ListedOpened == Spec => []ListedIsOpened
BY LiveReviewed, ListsAgree, PTL
=============================================================================

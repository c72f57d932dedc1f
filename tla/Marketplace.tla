---------------------------- MODULE Marketplace ----------------------------
(***************************************************************************)
(* Banks join the marketplace, gather their people and publish products.   *)
(* A platform operator admits, suspends and reinstates a bank; its Bank    *)
(* Admins invite Bank Agents and review what these draft.                  *)
(*                                                                         *)
(* register_bank, invite_team_member and the writes to a product check     *)
(* first and write later, so requests of different users overlap; the      *)
(* others are one step.  Users hold no role outside the three below.       *)
(***************************************************************************)
EXTENDS Naturals, FiniteSets

CONSTANTS Banks, Users, Products, Contents,
          Staff,           \* the roles each user has when the platform opens
          None,
          CommitOnRefusal  \* as in LeadLoan

Roles == {"operator", "admin", "agent"}

ASSUME MarketAssumption ==
    /\ Staff \in [Users -> SUBSET Roles]
    /\ None \notin Banks \cup Contents
    /\ CommitOnRefusal \in BOOLEAN

VARIABLES bank,     \* A2C Participating Bank
          user,     \* User: roles, and whether it may sign in
          member,   \* User Permission: the banks of each user
          product,  \* A2C Loan Product
          desk,     \* what each user has checked and not yet written
          seen      \* what each product read when a reviewer last saved it live

vars == <<bank, user, member, product, desk, seen>>

BankStates    == {"In Review", "Active", "Suspended"}
ProductStates == {"Pending Approval", "Active", "Rejected", "Archived"}

BankRow    == [status : BankStates \cup {"none"}, kyc : BOOLEAN, contacts : BOOLEAN]
UserRow    == [roles : SUBSET Roles, account : {"none", "enabled", "disabled"}]
ProductRow == [bank : Banks \cup {None}, status : ProductStates \cup {"none"},
               content : Contents \cup {None}]

(* Nobody's desk, and one with a request under way on it.                  *)
Idle == [task |-> "idle"]
Desk == {Idle} \cup [task : {"register"}, bank : Banks]
               \cup [task : {"invite"}, bank : Banks, email : Users, was : UserRow]
               \cup [task : {"open"}, product : Products, reviewer : BOOLEAN]
               \cup [task : {"product"}, product : Products, reviewer : BOOLEAN, row : ProductRow]

(* Bank Admins sign up elsewhere; users without a role have no account.    *)
Init ==
    /\ bank = [b \in Banks |-> [status |-> "none", kyc |-> FALSE, contacts |-> FALSE]]
    /\ user = [u \in Users |-> [roles |-> Staff[u],
                                account |-> IF Staff[u] = {} THEN "none" ELSE "enabled"]]
    /\ member = [u \in Users |-> {}]
    /\ product = [p \in Products |-> [bank |-> None, status |-> "none", content |-> None]]
    /\ desk = [u \in Users |-> Idle]
    /\ seen = [p \in Products |-> None]

Operator(u) == "operator" \in user[u].roles
Admin(u)    == "admin" \in user[u].roles
Free(u)     == user[u].account = "enabled" /\ desk[u] = Idle

(* The bank a user's request is for: any of them when there are several.   *)
BankOf(u, b) == ~Operator(u) /\ b \in member[u]

Close(u) == desk' = [desk EXCEPT ![u] = Idle]

(***************************************************************************)
(* Onboarding.                                                             *)
(***************************************************************************)
(* A second registration of a bank only leaves a note for the operators.   *)
RegisterBank(u, b) ==
    /\ Free(u) /\ member[u] = {} /\ bank[b].status = "none"
    /\ desk' = [desk EXCEPT ![u] = [task |-> "register", bank |-> b]]
    /\ UNCHANGED <<bank, user, member, product, seen>>

(* The bank's registration number is unique: the second insert fails.      *)
InsertBank(u) ==
    /\ desk[u].task = "register"
    /\ LET b == desk[u].bank IN
       \/ /\ bank[b].status = "none"
          /\ bank' = [bank EXCEPT ![b].status = "In Review"]
          /\ member' = [member EXCEPT ![u] = @ \cup {b}]
       \/ bank[b].status # "none" /\ UNCHANGED <<bank, member>>
    /\ Close(u)
    /\ UNCHANGED <<user, product, seen>>

SaveOrgContacts(u, b) ==
    /\ Free(u) /\ b \in member[u]
    /\ Operator(u) \/ Admin(u)
    /\ bank' = [bank EXCEPT ![b].contacts = TRUE]
    /\ UNCHANGED <<user, member, product, desk, seen>>

UploadKyc(u, b) ==
    /\ Free(u) /\ b \in member[u] /\ Admin(u)
    /\ bank' = [bank EXCEPT ![b].kyc = TRUE]
    /\ UNCHANGED <<user, member, product, desk, seen>>

Moves == [s \in BankStates |-> IF s = "Active" THEN {"Suspended"}
                               ELSE {"Active", "Suspended"} \ {s}]

(* on_update: a bank's people are locked out and let in again with it.     *)
SetUsersEnabled(b, state) ==
    user' = [v \in Users |-> IF b \in member[v] THEN [user[v] EXCEPT !.account = state] ELSE user[v]]

Complete(b) == bank[b].kyc /\ bank[b].contacts

(* on_update runs after the row is written: an activation it refuses is    *)
(* committed when refused requests commit.                                 *)
UpdateBankStatus(u, b, status) ==
    /\ Free(u) /\ Operator(u)
    /\ bank[b].status \in BankStates
    /\ status \in Moves[bank[b].status]
    /\ \/ status = "Active" /\ Complete(b) /\ SetUsersEnabled(b, "enabled")
       \/ status = "Active" /\ ~Complete(b) /\ CommitOnRefusal /\ UNCHANGED user
       \/ status = "Suspended" /\ SetUsersEnabled(b, "disabled")
    /\ bank' = [bank EXCEPT ![b].status = status]
    /\ UNCHANGED <<member, product, desk, seen>>

(***************************************************************************)
(* Teams.                                                                  *)
(***************************************************************************)
InviteTeamMember(u, b, email) ==
    /\ Free(u) /\ Admin(u) /\ b \in member[u]
    /\ member[email] = {}
    /\ desk' = [desk EXCEPT ![u] = [task |-> "invite", bank |-> b, email |-> email,
                                    was |-> user[email]]]
    /\ UNCHANGED <<bank, user, member, product, seen>>

InviteWithoutAccount(u) ==  \* mutant: the member is recorded, the account is not made
    /\ desk[u].task = "invite"
    /\ member' = [member EXCEPT ![desk[u].email] = @ \cup {desk[u].bank}]
    /\ Close(u)
    /\ UNCHANGED <<bank, user, product, seen>>

(* A new account, or the role added to the one there is; the save of an    *)
(* account changed since it was read fails, and all is rolled back.        *)
JoinTeam(u) ==
    /\ desk[u].task = "invite"
    /\ LET e   == desk[u].email
           was == desk[u].was
       IN
       \/ /\ was.account = "none" \/ "agent" \in was.roles \/ user[e] = was
          /\ user' = [user EXCEPT ![e] =
                          [roles   |-> IF "agent" \in was.roles THEN @.roles ELSE @.roles \cup {"agent"},
                           account |-> IF @.account = "none" THEN "enabled" ELSE @.account]]
          /\ member' = [member EXCEPT ![e] = @ \cup {desk[u].bank}]
       \/ /\ was.account # "none" /\ "agent" \notin was.roles /\ user[e] # was
          /\ UNCHANGED <<user, member>>
    /\ Close(u)
    /\ UNCHANGED <<bank, product, seen>>

Level(u) == CASE Operator(u) -> 1 [] ~Operator(u) /\ Admin(u) -> 2
              [] ~Operator(u) /\ ~Admin(u) /\ user[u].roles # {} -> 3 [] OTHER -> 99

(* _assert_can_manage_member.                                              *)
CanManage(u, v) ==
    /\ Operator(u) \/ Admin(u)
    /\ u # v /\ user[v].account # "none"
    /\ Level(u) < Level(v)
    /\ Operator(u) \/ ("agent" \in user[v].roles /\ member[u] \cap member[v] # {})

UpdateUser(u, v) ==
    /\ Free(u) /\ CanManage(u, v)
    /\ \/ \E role \in {"admin", "agent"} :
              /\ ~Operator(u) => role = "agent"
              /\ user' = [user EXCEPT ![v].roles = {role}]
       \/ \E state \in {"enabled", "disabled"} : user' = [user EXCEPT ![v].account = state]
    /\ UNCHANGED <<bank, member, product, desk, seen>>

(***************************************************************************)
(* Products.                                                               *)
(***************************************************************************)
Reviewer(u) == Operator(u) \/ Admin(u)

(* What a save by u, for the code a reviewer or not, leaves: other requests*)
(* that loaded the product fail, and a reviewer has seen what is live.     *)
SaveProduct(u, p, row, reviewer) ==
    /\ product' = [product EXCEPT ![p] = row]
    /\ desk' = [v \in Users |-> IF v = u \/ (desk[v].task = "product" /\ desk[v].product = p)
                                THEN Idle ELSE desk[v]]
    /\ seen' = IF reviewer /\ row.status = "Active" THEN [seen EXCEPT ![p] = row.content] ELSE seen
    /\ UNCHANGED <<bank, user, member>>

CreateAnyway(u, p, c) ==  \* mutant: assert_bank_active is not called
    \E b \in Banks :
        /\ Free(u) /\ user[u].roles # {} /\ BankOf(u, b)
        /\ product[p].status = "none"
        /\ SaveProduct(u, p, [bank |-> b, content |-> c,
                              status |-> IF Reviewer(u) THEN "Active" ELSE "Pending Approval"],
                       Reviewer(u))

CreateProduct(u, p, c) ==
    \E b \in Banks :
        /\ Free(u) /\ user[u].roles # {} /\ BankOf(u, b)
        /\ bank[b].status = "Active"
        /\ product[p].status = "none"
        /\ SaveProduct(u, p, [bank |-> b, content |-> c,
                              status |-> IF Reviewer(u) THEN "Active" ELSE "Pending Approval"],
                       Reviewer(u))

(* The permission checks of update_product and set_product_status: whether *)
(* the caller may review is read here, before the product is.              *)
OpenProduct(u, p) ==
    /\ Free(u) /\ user[u].roles # {} /\ product[p].status # "none"
    /\ Operator(u) \/ BankOf(u, product[p].bank)
    /\ desk' = [desk EXCEPT ![u] = [task |-> "open", product |-> p, reviewer |-> Reviewer(u)]]
    /\ UNCHANGED <<bank, user, member, product, seen>>

LoadProduct(u) ==
    /\ desk[u].task = "open"
    /\ LET p == desk[u].product IN
       /\ Operator(u) \/ bank[product[p].bank].status = "Active"
       /\ desk' = [desk EXCEPT ![u] = [task |-> "product", product |-> p,
                                       reviewer |-> desk[u].reviewer, row |-> product[p]]]
    /\ UNCHANGED <<bank, user, member, product, seen>>

EditAnyway(u, c) ==  \* mutant: an approved product may be edited by anyone
    /\ desk[u].task = "product"
    /\ \E reviewer \in {desk[u].reviewer, Reviewer(u)} : LET row == desk[u].row IN
       /\ c # row.content
       /\ SaveProduct(u, desk[u].product,
              [row EXCEPT !.content = c,
                          !.status  = IF reviewer THEN "Active"
                                      ELSE IF row.status = "Rejected" THEN "Pending Approval" ELSE @],
              reviewer)

(* before_save: a reviewer's edit goes live, an agent's sends a rejected   *)
(* product back for approval and may not touch an approved one.  The roles *)
(* are those the request read first, or those it reads again.              *)
UpdateProduct(u, c) ==
    /\ desk[u].task = "product"
    /\ \E reviewer \in {desk[u].reviewer, Reviewer(u)} : LET row == desk[u].row IN
       /\ c # row.content
       /\ row.status = "Active" => reviewer
       /\ SaveProduct(u, desk[u].product,
              [row EXCEPT !.content = c,
                          !.status  = IF reviewer THEN "Active"
                                      ELSE IF row.status = "Rejected" THEN "Pending Approval" ELSE @],
              reviewer)

SetProductStatus(u, status) ==
    /\ desk[u].task = "product"
    /\ status # desk[u].row.status
    /\ status # "Pending Approval" => desk[u].reviewer
    /\ SaveProduct(u, desk[u].product, [desk[u].row EXCEPT !.status = status], desk[u].reviewer)

(* A request refused on the way, or lost.                                  *)
Drop(u) ==
    /\ desk[u] # Idle
    /\ Close(u)
    /\ UNCHANGED <<bank, user, member, product, seen>>

Next ==
    \E u \in Users :
        \/ \E b \in Banks :
               \/ RegisterBank(u, b) \/ SaveOrgContacts(u, b) \/ UploadKyc(u, b)
               \/ \E status \in BankStates : UpdateBankStatus(u, b, status)
               \/ \E email \in Users : InviteTeamMember(u, b, email)
        \/ InsertBank(u) \/ JoinTeam(u) \/ LoadProduct(u) \/ Drop(u)
        \/ \E v \in Users : UpdateUser(u, v)
        \/ \E p \in Products : OpenProduct(u, p) \/ \E c \in Contents : CreateProduct(u, p, c)
        \/ \E c \in Contents : UpdateProduct(u, c)
        \/ \E status \in ProductStates : SetProductStatus(u, status)

Spec == Init /\ [][Next]_vars

(***************************************************************************)
(* Properties.                                                             *)
(***************************************************************************)
(* Tables and desks; every member of a bank has an account and a role.     *)
TypeOK ==
    /\ bank \in [Banks -> BankRow]
    /\ user \in [Users -> UserRow]
    /\ member \in [Users -> SUBSET Banks]
    /\ product \in [Products -> ProductRow]
    /\ desk \in [Users -> Desk]
    /\ seen \in [Products -> Contents \cup {None}]
    /\ \A u \in Users : member[u] # {} => user[u].account # "none" /\ user[u].roles # {}

(* "Bank Agents can draft and edit products (write) but cannot approve or  *)
(* retire them": a live product reads as it did when it was last put or    *)
(* kept live by one who was Bank Admin or operator as the request began or *)
(* at the save; whoever edits, demotes and resubmits it in overlapping     *)
(* requests, and whatever becomes of their roles meanwhile.                *)
LiveContentReviewed ==
    \A p \in Products : product[p].status = "Active" => product[p].content = seen[p]

(* "Registered but not approved to trade": a bank still under review has   *)
(* no product in any state.                                                *)
OnlyAdmittedBanksSell ==
    \A p \in Products :
        product[p].status # "none" => bank[product[p].bank].status \in {"Active", "Suspended"}
=============================================================================

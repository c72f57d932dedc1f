------------------------------ MODULE Catalog ------------------------------
(***************************************************************************)
(* What the marketplace shows of the products of Marketplace, and to whom. *)
(* Every list goes through a scope written as a query condition, and every *)
(* single product through a check written as a function: two pieces of     *)
(* code that must say the same of every caller.                            *)
(*                                                                         *)
(* A caller is a set of roles and the banks it belongs to.  Anybody may    *)
(* sign up as a farmer and an operator may make anybody a Development      *)
(* Agent, so every user of Marketplace is also looked at with either role. *)
(* Filters on what a product says, its categories and its tags only narrow *)
(* a list: a set of names stands for all of them.  Order and pages are     *)
(* those of LeadDesk.                                                      *)
(***************************************************************************)
EXTENDS Marketplace

(* None stands for no filter, where a list takes a status.                 *)
ASSUME CatalogAssumption == None \notin ProductStates

Browsing == {"farmer", "field agent"}

Callers == {[roles |-> user[u].roles \cup extra, banks |-> member[u]] :
                u \in Users, extra \in SUBSET Browsing}

(* The bank a request of c is for: get_user_bank.                          *)
IsBankUnbound(c)   == c.roles \cap {"operator", "field agent"} # {}
UserBanks(c)       == IF IsBankUnbound(c) \/ c.banks = {} THEN {None} ELSE c.banks
IsFarmer(c)        == "farmer" \in c.roles
IsPlatformAdmin(c) == "operator" \in c.roles

Offered      == {p \in Products : product[p].status # "none"}
Live         == {p \in Products : product[p].status = "Active"}
OwnedBy(b)   == {p \in Offered : b # None /\ product[p].bank = b}

(***************************************************************************)
(* The scope of a list, and its twin for one product.                      *)
(***************************************************************************)
BankScopeQuery(c, b) == IF IsBankUnbound(c) THEN Offered ELSE OwnedBy(b)

OwnBankFirst(c, b) ==  \* mutant: the bank's own scope is looked at before the farmer's
    CASE IsPlatformAdmin(c) -> Offered
      [] ~IsPlatformAdmin(c) /\ b # None -> BankScopeQuery(c, b)
      [] OTHER -> Live

LoanProductScopeQuery(c, b) ==
    CASE IsPlatformAdmin(c) -> Offered
      [] ~IsPlatformAdmin(c) /\ c.roles \cap Browsing # {} -> Live
      [] OTHER -> BankScopeQuery(c, b)

(* bank_scope_doc asks first who is bound to no bank, then who is a farmer.*)
MayOpen(c, b) ==
    {p \in Offered :
        \/ IsBankUnbound(c) /\ (IsPlatformAdmin(c) \/ p \in Live)
        \/ ~IsBankUnbound(c) /\ IsFarmer(c) /\ p \in Live
        \/ ~IsBankUnbound(c) /\ ~IsFarmer(c) /\ p \in OwnedBy(b)}

(***************************************************************************)
(* The lists.                                                              *)
(***************************************************************************)
IsBankUser(c, b) == c.roles \cap {"admin", "agent"} # {} \/ b # None \/ IsPlatformAdmin(c)

(* list_catalog with status as its filter, None for no filter; only those  *)
(* who are not a bank's may not choose it.                                 *)
ListCatalog(c, b, status, names) ==
    LET wanted == IF IsBankUser(c, b) THEN status ELSE "Active" IN
    {p \in LoanProductScopeQuery(c, b) \cap names :
        wanted # None => product[p].status = wanted}

(* list_products, of the seller's workspace.                               *)
ListProducts(c, b, names) == LoanProductScopeQuery(c, b) \cap names

(* save_product takes what the caller may see and is live; the list of     *)
(* saved products is cut to that again, whatever was saved before.         *)
MayBookmark(c, b) == LoanProductScopeQuery(c, b) \cap Live
SavedProducts(c, b, saved) ==
    {p \in saved : p \in LoanProductScopeQuery(c, b) /\ p \in Live}

(* get_catalog_facets: the contents (tenures) a sidebar offers to filter   *)
(* by.  The banks it offers are the admitted ones, not those with products.*)
Facets(c, b) == {product[p].content : p \in LoanProductScopeQuery(c, b) \cap Live}

(***************************************************************************)
(* Properties.                                                             *)
(***************************************************************************)
(* "Kept as one constant ... so the two can't drift": whatever roles and   *)
(* banks a caller gathers, every list shows exactly what it may open; what *)
(* is saved is shown as the catalogue shows it; no facet leads to an empty *)
(* page; and nobody is shown a product of a bank not theirs unless its     *)
(* content is what a reviewer last put live.                               *)
ListedIsOpened ==
    \A c \in Callers : \A b \in UserBanks(c) :
        /\ ListProducts(c, b, Products) = MayOpen(c, b)
        /\ ListCatalog(c, b, None, Products) = MayOpen(c, b)
        /\ \A saved \in SUBSET Products :
               SavedProducts(c, b, saved) = ListCatalog(c, b, "Active", saved)
        /\ MayBookmark(c, b) \subseteq MayOpen(c, b)
        /\ \A x \in Facets(c, b) :
               \E p \in ListCatalog(c, b, "Active", Products) : product[p].content = x
        /\ \A p \in MayOpen(c, b) :
               ~IsPlatformAdmin(c) /\ product[p].bank \notin c.banks
                   => product[p].content = seen[p]
=============================================================================

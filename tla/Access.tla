--------------------------------- MODULE Access ---------------------------------
(***************************************************************************)
(* Who is shown what of the catalog: the authentication backend            *)
(* (api/app/auth), the endpoints that list and describe datasets and       *)
(* products (api/app/endpoint_handlers/dataset.py) and the catalog reads   *)
(* of datastore/datastore/datastore.py they are made of.                   *)
(*                                                                         *)
(* The catalog is a directory the operator edits while the API runs, and   *)
(* every self.catalog(...) of the Datastore reads it anew.  An endpoint    *)
(* makes several such reads and puts their results into one answer: its    *)
(* steps are split at the reads.  What the data of a product are is the    *)
(* business of module Datastore.                                           *)
(*                                                                         *)
(*   call.pc                                                               *)
(*   "idle"       no endpoint is running                                   *)
(*   "names"      get_datasets is about to read the names of the datasets  *)
(*   "infos"      ... and then the products of each in todo                *)
(*   "dataset"    assert_product_exists looks for the dataset              *)
(*   "product"    ... and, when one is named, for the product              *)
(*   "products"   first_eligible_product_details reads the product names   *)
(*   "role"       is_product_valid_for_role on the least product in todo   *)
(*   "entry", "info", "data"   the parts of the details                    *)
(*   "metadata"   product_metadata                                         *)
(***************************************************************************)
EXTENDS Naturals, FiniteSets, FiniteSetsExt

CONSTANTS
    Datasets,      \* names a dataset may have in the catalog
    MaxProduct,    \* per dataset, how many products it may have
    Users,         \* users with a row in the users table
    MaxEdits       \* bound: changes the operator makes

ASSUME MaxProductAssumption == MaxProduct \in [Datasets -> Nat]
ASSUME MaxEditsAssumption == MaxEdits \in Nat

(* A product's metadata and description are abstracted to the role they    *)
(* name.  Of the details of a product, "entry" is what they say of it and  *)
(* "info" what they say of all the products of its dataset.                *)
VARIABLES
    present,    \* the datasets the catalog has
    role,       \* per dataset and product, the role in its metadata
    granted,    \* users_roles: the names of the roles of a user
    call,       \* the running endpoint
    reply,      \* its answer
    moments,    \* history: what the catalog and the user's roles were at
                \* some moment of the call
    edits       \* changes made during the call

vars == <<present, role, granted, call, reply, moments, edits>>

Products(d) == 1..MaxProduct[d]

(* "public": the metadata say so or have no role key; "null": they have    *)
(* the key without a value; "absent": the dataset has no such product.     *)
RoleNames == {"internal", "admin"}
ProductRoles == {"public", "null", "internal", "absent"}

(* What a User-Token header holds: nothing, something malformed, an id the *)
(* users table does not have, or a user with a key that is not his.        *)
NotUsers == {"noToken", "improper", "unknown", "wrongKey"}

Ops == {"datasets", "first", "details", "metadata"}

Idle == [pc |-> "idle", op |-> "none", dataset |-> "none", product |-> 0,
         user |-> "none", scopes |-> {}, todo |-> {}, got |-> {},
         entry |-> "absent", info |-> <<>>]

Nothing == [op |-> "none", says |-> "nothing", shown |-> {},
            entry |-> "absent", info |-> <<>>]

Init ==
    /\ present \in SUBSET Datasets
    /\ role \in [Datasets -> UNION {[1..n -> ProductRoles] : n \in {MaxProduct[d] : d \in Datasets}}]
    /\ \A d \in Datasets : DOMAIN role[d] = Products(d)
    /\ granted \in [Users -> SUBSET RoleNames]
    /\ call = Idle
    /\ reply = Nothing
    /\ moments = {}
    /\ edits = 0

TypeOK ==
    /\ present \subseteq Datasets
    /\ \A d \in Datasets : role[d] \in [Products(d) -> ProductRoles]
    /\ granted \in [Users -> SUBSET RoleNames]
    /\ call.pc \in {"idle", "names", "infos", "dataset", "product", "products",
                    "role", "entry", "info", "data", "metadata"}
    /\ call.op \in Ops \cup {"none"}
    /\ call.scopes \subseteq RoleNames \cup {"anonymous", "authenticated"}
    /\ call.entry \in ProductRoles /\ reply.entry \in ProductRoles
    /\ reply.says \in {"nothing", "listing", "details", "metadata",
                       "MissingDatasetError", "MissingProductError",
                       "AuthorizationFailed", "ImproperUserTokenError",
                       "AuthenticationFailed", "AttributeError", "KeyError"}
    /\ edits \in 0..MaxEdits

------------------------------------------------------------------------------
(* The rules of eligibility.                                               *)

(* is_role_eligible_for_product, what the listing goes by.                 *)
IsRoleEligible(productRole, scopes) ==
    \/ productRole \in {"public", "null"}
    \/ "admin" \in scopes
    \/ productRole \in scopes

\* Mutant: a role is needed even for a public product.
IsProductValidAlways(productRole, scopes) ==
    "admin" \in scopes \/ productRole \in scopes

(* is_product_valid_for_role, what the details go by.  get("role", PUBLIC) *)
(* gives the default for a missing key and None for a key without a value. *)
IsProductValid(productRole, scopes) ==
    \/ productRole = "public"
    \/ "admin" \in scopes
    \/ productRole \in scopes

(* The products a dataset has.                                             *)
ProductList(d) == {p \in Products(d) : role[d][p] # "absent"}

HasProduct(d, p) == d \in present /\ p \in ProductList(d)

------------------------------------------------------------------------------
(* Building blocks.                                                        *)

At(label) == call.pc = label

Goto(label) == call' = [call EXCEPT !.pc = label]

AnswerWith(says, shown, entry, info) ==
    /\ call' = [call EXCEPT !.pc = "idle"]
    /\ reply' = [op |-> call.op, says |-> says, shown |-> shown,
                 entry |-> entry, info |-> info]

Answer(says, shown) == AnswerWith(says, shown, "absent", <<>>)

(* Python's KeyError from a catalog that no longer has the name.           *)
Gone == Answer("KeyError", {})

Reads == UNCHANGED <<present, role, granted, moments, edits>>

(* The catalog and the user's roles as they are now.                       *)
Moment(u) ==
    [present |-> present, role |-> role,
     scopes |-> IF u \in Users THEN {"authenticated"} \cup granted[u]
                ELSE {"anonymous"}]

\* Mutant: somebody without a token has the role of public products.
ScopesPublic(u) ==
    IF u \in Users THEN {"authenticated"} \cup granted[u] ELSE {"public"}

(* authenticate and _get_scopes_for_user.                                  *)
Scopes(u) ==
    IF u \in Users THEN {"authenticated"} \cup granted[u] ELSE {"anonymous"}

------------------------------------------------------------------------------
(* The endpoints.                                                          *)

FirstStep(op) == IF op = "datasets" THEN "names" ELSE "dataset"

(* AuthenticationMiddleware runs authenticate before any endpoint: one     *)
(* read of the user's row and roles, which the whole call then goes by.  A *)
(* user without a row is None, and None has no api_key.                    *)
Call(op, d, p, u) ==
    /\ call = Idle
    /\ call' = [pc |-> IF u \in {"improper", "unknown", "wrongKey"}
                       THEN "idle" ELSE FirstStep(op),
                op |-> op, dataset |-> d, product |-> p, user |-> u,
                scopes |-> Scopes(u), todo |-> {}, got |-> {},
                entry |-> "absent", info |-> <<>>]
    /\ reply' = [op |-> op, shown |-> {}, entry |-> "absent", info |-> <<>>,
                 says |-> CASE u = "improper" -> "ImproperUserTokenError"
                            [] u = "unknown" -> "AttributeError"
                            [] u = "wrongKey" -> "AuthenticationFailed"
                            [] u \notin {"improper", "unknown", "wrongKey"} -> "nothing"]
    /\ moments' = {Moment(u)}
    /\ UNCHANGED <<present, role, granted, edits>>

(* get_datasets: the names ...                                             *)
ReadNames ==
    /\ At("names")
    /\ call' = [call EXCEPT !.pc = "infos", !.todo = present]
    /\ UNCHANGED reply /\ Reads

\* Mutant: the products of a dataset are all listed.
ReadInfoUnfiltered(d) ==
    /\ At("infos")
    /\ d \in call.todo
    /\ IF d \notin present THEN Gone
       ELSE /\ call' = [call EXCEPT !.todo = @ \ {d},
                           !.got = @ \cup {<<d, p>> : p \in ProductList(d)}]
            /\ UNCHANGED reply
    /\ Reads

(* ... dataset_info and the eligible products of each; a dataset that has  *)
(* none is left out.                                                       *)
ReadInfo(d) ==
    /\ At("infos")
    /\ d \in call.todo
    /\ IF d \notin present THEN Gone
       ELSE /\ call' = [call EXCEPT !.todo = @ \ {d}, !.got = @ \cup
                {<<d, p>> : p \in {q \in ProductList(d) :
                                IsRoleEligible(role[d][q], call.scopes)}}]
            /\ UNCHANGED reply
    /\ Reads

List ==
    /\ At("infos")
    /\ call.todo = {}
    /\ Answer("listing", call.got)
    /\ Reads

(* assert_product_exists: dataset_list ...                                 *)
FindDataset ==
    /\ At("dataset")
    /\ IF call.dataset \notin present THEN Answer("MissingDatasetError", {})
       ELSE /\ Goto(IF call.op = "first" THEN "products" ELSE "product")
            /\ UNCHANGED reply
    /\ Reads

(* ... and product_list.                                                   *)
FindProduct ==
    /\ At("product")
    /\ LET d == call.dataset
           p == call.product IN
       IF d \notin present THEN Gone
       ELSE IF p \notin ProductList(d) THEN Answer("MissingProductError", {})
       ELSE /\ call' = [call EXCEPT !.todo = {p},
                           !.pc = IF call.op = "metadata" THEN "metadata" ELSE "role"]
            /\ UNCHANGED reply
    /\ Reads

(* first_eligible_product_details: product_list.                           *)
ReadProducts ==
    /\ At("products")
    /\ IF call.dataset \notin present THEN Gone
       ELSE /\ call' = [call EXCEPT !.pc = "role",
                                    !.todo = ProductList(call.dataset)]
            /\ UNCHANGED reply
    /\ Reads

\* Mutant: the loop ends with the first product that is not eligible.
CheckRoleOnce ==
    /\ At("role")
    /\ IF call.todo = {} THEN Answer("AuthorizationFailed", {})
       ELSE LET p == Min(call.todo) IN
            IF ~HasProduct(call.dataset, p) THEN Gone
            ELSE /\ call' = IF IsProductValid(role[call.dataset][p], call.scopes)
                            THEN [call EXCEPT !.pc = "entry", !.product = p]
                            ELSE [call EXCEPT !.todo = {}]
                 /\ UNCHANGED reply
    /\ Reads

(* is_product_valid_for_role reads the entry of the product at hand; when  *)
(* none is left the answer is UnauthorizedError.                           *)
CheckRole ==
    /\ At("role")
    /\ IF call.todo = {} THEN Answer("AuthorizationFailed", {})
       ELSE LET p == Min(call.todo) IN
            IF ~HasProduct(call.dataset, p) THEN Gone
            ELSE /\ call' = IF IsProductValid(role[call.dataset][p], call.scopes)
                            THEN [call EXCEPT !.pc = "entry", !.product = p]
                            ELSE [call EXCEPT !.todo = @ \ {p}]
                 /\ UNCHANGED reply
    /\ Reads

(* The entry is read once more for its metadata and description ...        *)
ReadEntry ==
    /\ At("entry")
    /\ LET d == call.dataset
           p == call.product IN
       IF HasProduct(d, p)
       THEN call' = [call EXCEPT !.pc = "info", !.entry = role[d][p]]
            /\ UNCHANGED reply
       ELSE Gone
    /\ Reads

(* ... then dataset_info: the metadata and descriptions of all products of *)
(* the dataset, whatever their roles ...                                   *)
ReadDatasetInfo ==
    /\ At("info")
    /\ IF call.dataset \in present
       THEN call' = [call EXCEPT !.pc = "data", !.info = role[call.dataset]]
            /\ UNCHANGED reply
       ELSE Gone
    /\ Reads

(* ... and the data, which the cache may have or the catalog must.         *)
ReadData ==
    /\ At("data")
    /\ \/ AnswerWith("details", {<<call.dataset, call.product>>},
                     call.entry, call.info)
       \/ ~HasProduct(call.dataset, call.product) /\ Gone
    /\ Reads

(* product_metadata: nobody's role is asked for.                           *)
ReadMetadata ==
    /\ At("metadata")
    /\ IF HasProduct(call.dataset, call.product)
       THEN Answer("metadata", {<<call.dataset, call.product>>})
       ELSE Gone
    /\ Reads

------------------------------------------------------------------------------
(* The operator changes one thing at a time.  Nothing of a call is kept    *)
(* for the next one and every catalog is an initial state, so a behaviour  *)
(* is one call, and only the changes made while it runs matter.            *)

Edit ==
    /\ ~At("idle")
    /\ edits < MaxEdits
    /\ edits' = edits + 1
    /\ UNCHANGED <<call, reply>>

Remember == moments' = moments \cup {Moment(call.user)'}

EditDataset(d) ==
    /\ Edit
    /\ present' = IF d \in present THEN present \ {d} ELSE present \cup {d}
    /\ UNCHANGED <<role, granted>>
    /\ Remember

EditProduct(d, p, r) ==
    /\ Edit
    /\ r # role[d][p]
    /\ role' = [role EXCEPT ![d][p] = r]
    /\ UNCHANGED <<present, granted>>
    /\ Remember

EditUser(u, names) ==
    /\ Edit
    /\ names # granted[u]
    /\ granted' = [granted EXCEPT ![u] = names]
    /\ UNCHANGED <<present, role>>
    /\ Remember

ListingStep == ReadNames \/ List \/ \E d \in Datasets : ReadInfo(d)

DetailsStep ==
    \/ FindDataset
    \/ FindProduct
    \/ ReadProducts
    \/ CheckRole
    \/ ReadEntry
    \/ ReadDatasetInfo
    \/ ReadData
    \/ ReadMetadata

OperatorStep ==
    \/ \E d \in Datasets :
          \/ EditDataset(d)
          \/ \E p \in Products(d), r \in ProductRoles : EditProduct(d, p, r)
    \/ \E u \in Users, names \in SUBSET RoleNames : EditUser(u, names)

ClientCall ==
    \E u \in Users \cup NotUsers :
        \/ Call("datasets", "none", 0, u)
        \/ \E d \in Datasets :
              \/ Call("first", d, 0, u)
              \/ \E p \in Products(d), op \in {"details", "metadata"} :
                    Call(op, d, p, u)

Next == ClientCall \/ ListingStep \/ DetailsStep \/ OperatorStep

Spec == Init /\ [][Next]_vars

------------------------------------------------------------------------------
(* What an endpoint would answer if it read everything at one moment m.    *)

ProductsAt(m, d) == {p \in Products(d) : m.role[d][p] # "absent"}

EligibleAt(m, d) ==
    {p \in ProductsAt(m, d) : IsProductValid(m.role[d][p], m.scopes)}

ListingAt(m) ==
    UNION {{<<d, p>> : p \in {q \in ProductsAt(m, d) :
              IsRoleEligible(m.role[d][q], m.scopes)}} : d \in m.present}

FirstAt(m, d) ==
    IF d \notin m.present THEN <<"MissingDatasetError", {}>>
    ELSE IF EligibleAt(m, d) = {} THEN <<"AuthorizationFailed", {}>>
    ELSE <<"details", {<<d, Min(EligibleAt(m, d))>>}>>

NamedAt(m, op, d, p) ==
    IF d \notin m.present THEN <<"MissingDatasetError", {}>>
    ELSE IF p \notin ProductsAt(m, d) THEN <<"MissingProductError", {}>>
    ELSE IF op = "metadata" THEN <<"metadata", {<<d, p>>}>>
    ELSE IF p \notin EligibleAt(m, d) THEN <<"AuthorizationFailed", {}>>
    ELSE <<"details", {<<d, p>>}>>

AnswerAt(m) ==
    CASE reply.op = "datasets" -> <<"listing", ListingAt(m)>>
      [] reply.op = "first" -> FirstAt(m, call.dataset)
      [] reply.op \in {"details", "metadata"} -> NamedAt(m, reply.op, call.dataset, call.product)

Answered ==
    At("idle") /\ reply.says \notin {"nothing", "ImproperUserTokenError",
                                     "AttributeError", "AuthenticationFailed"}

(* What the details say when the product was open at moment m: what was    *)
(* read for them was as at m, or as it has become since, and "info", which *)
(* is read after "entry", is not the older one.                            *)
PartsFit(m, d, p, entry, info) ==
    \/ info = m.role[d] /\ entry = m.role[d][p]
    \/ info = role[d] /\ entry \in {m.role[d][p], role[d][p]}

(* What is answered is decided as at one moment of the call: although a    *)
(* listing and the search for the first eligible product read the catalog  *)
(* once per dataset or product, a single change made meanwhile is seen     *)
(* wholly or not at all, or ends in a KeyError.  (It takes two changes to  *)
(* tear a decision.)  What the details then say is read after the decision *)
(* (datastore.py:256-262, 309-315), and one change does tear that: they    *)
(* may call a product internal that was public when its role was asked     *)
(* for, in both of their parts or in the dataset's only.                   *)
DecisionIsOfOneMoment ==
    Answered /\ edits <= 1 =>
        \/ reply.says = "KeyError" /\ edits = 1
        \/ \E m \in moments :
              /\ <<reply.says, reply.shown>> = AnswerAt(m)
              /\ reply.says = "details" =>
                    PartsFit(m, call.dataset, call.product, reply.entry, reply.info)

(* The two rules of eligibility agree: whoever is told that no product of  *)
(* a dataset is for him does not find it in the listing, unless one of its *)
(* products has a role key without a value, which the listing takes for    *)
(* public and the details for a role nobody has; and whoever is given a    *)
(* product's details finds the product in the listing.  (Again two changes *)
(* are enough to tell somebody of a dataset that none of it is for him     *)
(* when some of it always was.)                                            *)
ListedHasDetails ==
    At("idle") /\ edits <= 1 =>
        /\ reply.op = "first" /\ reply.says = "AuthorizationFailed" =>
              \E m \in moments :
                  \A p \in ProductsAt(m, call.dataset) :
                      \/ m.role[call.dataset][p] = "null"
                      \/ <<call.dataset, p>> \notin ListingAt(m)
        /\ reply.says = "details" =>
              \E m \in moments : reply.shown \subseteq ListingAt(m)

(* However often the catalog changes between the reads, nobody is given    *)
(* what was never for him: each product of a listing, and the one whose    *)
(* details are given, was in the catalog at one moment of the call, and    *)
(* was then open to the roles the caller was authenticated with (which     *)
(* nobody asks for before the metadata).  The description of the dataset   *)
(* that comes with the details (datastore.py:262, 315) is no listing: it   *)
(* has every product that the dataset had at one moment, those that are    *)
(* not for the caller too, and only this is said of it.                    *)
ShownWasAllowed ==
    Answered =>
        /\ \A c \in reply.shown : \E m \in moments :
              /\ c[1] \in m.present
              /\ c[2] \in ProductsAt(m, c[1])
              /\ \/ reply.op = "metadata"
                 \/ IsRoleEligible(m.role[c[1]][c[2]], call.scopes)
        /\ reply.says = "details" =>
              \A c \in reply.shown : \E m \in moments :
                  c[1] \in m.present /\ m.role[c[1]] = reply.info

===============================================================================

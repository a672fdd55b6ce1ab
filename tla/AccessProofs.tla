------------------------------ MODULE AccessProofs ------------------------------
(***************************************************************************)
(* Theorems about Access, for every catalog, every number of users and of  *)
(* changes by the operator: what an endpoint puts together from several    *)
(* reads of the catalog is decided as at one moment, as long as the        *)
(* operator has made one change or none since the call; and however many   *)
(* he makes, each product an endpoint answers with was open to the caller. *)
(***************************************************************************)
EXTENDS Access, WellFoundedInduction, TLAPS

(* A set of numbers has a least element, and Min is it.                    *)
LEMMA MinIsLeast ==
    ASSUME NEW S \in SUBSET Nat, S # {}
    PROVE  Min(S) \in S /\ \A n \in S : Min(S) <= n
<1> DEFINE Less == OpToRel(<, Nat)
<1>1. IsWellFoundedOn(Less, Nat)
  BY NatLessThanWellFounded
<1>2. PICK m \in S : \A n \in S : <<n, m>> \notin Less
  <2> HIDE DEF Less
  <2> QED
    BY <1>1, WFMin
<1>3. \A n \in S : ~(n < m)
  BY <1>2 DEF OpToRel
<1>4. \A n \in S : m <= n
  BY <1>3
<1>5. QED
  BY <1>4 DEF Min

LEMMA LeastIsMin ==
    ASSUME NEW S \in SUBSET Nat, NEW n \in S, \A k \in S : n <= k
    PROVE  Min(S) = n
<1>1. Min(S) \in S /\ Min(S) <= n
  BY MinIsLeast
<1>2. n <= Min(S)
  BY <1>1
<1>3. \A i, j \in Nat : i <= j /\ j <= i => i = j
  OBVIOUS
<1>4. QED
  BY <1>1, <1>2, <1>3

------------------------------------------------------------------------------
(* Types.                                                                  *)

Pcs == {"idle", "names", "infos", "dataset", "product", "products",
        "role", "entry", "info", "data", "metadata"}

Infos == (UNION {[Products(d) -> ProductRoles] : d \in Datasets}) \cup {<<>>}

CallRecords ==
    [pc : Pcs, op : Ops \cup {"none"}, dataset : Datasets \cup {"none"}, product : Nat,
     user : Users \cup NotUsers \cup {"none"},
     scopes : SUBSET (RoleNames \cup {"anonymous", "authenticated"}),
     todo : SUBSET (Datasets \cup Nat), got : SUBSET (Datasets \X Nat),
     entry : ProductRoles,
     info : Infos]

(* Each label belongs to some of the endpoints and comes with what the     *)
(* endpoint has set by then.                                               *)
CallType ==
    /\ call.pc \in {"names", "infos"} => call.op = "datasets"
    /\ At("names") => call.got = {}
    /\ At("dataset") => call.op \in {"first", "details", "metadata"}
    /\ At("product") => call.op \in {"details", "metadata"}
    /\ At("products") => call.op = "first"
    /\ call.pc \in {"role", "entry", "info", "data"} => call.op \in {"first", "details"}
    /\ At("metadata") => call.op = "metadata"
    /\ call.pc \notin {"idle", "names", "infos"} => call.dataset \in Datasets
    /\ call.pc \in {"dataset", "product", "metadata"} /\ call.op \in {"details", "metadata"} =>
          call.product \in Products(call.dataset)
    /\ At("infos") => call.todo \subseteq Datasets
    /\ At("role") => call.todo \subseteq Products(call.dataset)

(* A behaviour is one call, so nothing has happened before it.             *)
OneCall ==
    \/ call = Idle /\ reply = Nothing /\ edits = 0
    \/ call.op \in Ops /\ reply.op \in Ops

TypeInv ==
    /\ TypeOK
    /\ role \in [Datasets -> UNION {[Products(d) -> ProductRoles] : d \in Datasets}]
    /\ call \in CallRecords
    /\ CallType
    /\ OneCall

LEMMA NoInfo == <<>> \in Infos
  BY DEF Infos

LEMMA InitType == Init => TypeInv
<1> SUFFICES ASSUME Init PROVE TypeInv
  OBVIOUS
<1>1. /\ call \in CallRecords /\ At("idle") /\ call.op = "none" /\ call.scopes = {}
  BY NoInfo DEF Init, Idle, CallRecords, Pcs, At, ProductRoles
<1>2. ASSUME NEW d \in Datasets PROVE role[d] \in [Products(d) -> ProductRoles]
  <2>1. role[d] \in UNION {[1..n -> ProductRoles] : n \in {MaxProduct[k] : k \in Datasets}}
    BY DEF Init
  <2>2. PICK n \in {MaxProduct[k] : k \in Datasets} : role[d] \in [1..n -> ProductRoles]
    BY <2>1
  <2>3. DOMAIN role[d] = Products(d)
    BY DEF Init
  <2>4. QED
    BY <2>2, <2>3
<1>3. role \in [Datasets -> UNION {[Products(d) -> ProductRoles] : d \in Datasets}]
  BY <1>2 DEF Init
<1>4. TypeOK
  <2>1. /\ reply.says = "nothing" /\ edits \in 0..MaxEdits
        /\ call.entry \in ProductRoles /\ reply.entry \in ProductRoles
    BY MaxEditsAssumption DEF Init, Nothing, Idle, ProductRoles
  <2>2. QED
    BY <1>1, <1>2, <2>1 DEF Init, TypeOK, At
<1>5. CallType /\ OneCall
  BY <1>1 DEF CallType, OneCall, Init, At
<1>6. QED
  BY <1>1, <1>3, <1>4, <1>5 DEF TypeInv

(* The answers: the call is over and keeps all but its label.              *)
Says == {"nothing", "listing", "details", "metadata",
         "MissingDatasetError", "MissingProductError", "AuthorizationFailed",
         "ImproperUserTokenError", "AuthenticationFailed", "AttributeError",
         "KeyError"}

LEMMA AnswerType ==
    ASSUME TypeInv, ~At("idle"), NEW says \in Says, NEW shown, NEW entry \in ProductRoles,
           NEW info, AnswerWith(says, shown, entry, info), Reads
    PROVE  TypeInv'
<1>1. call' = [call EXCEPT !.pc = "idle"] /\ reply'.says = says /\ reply'.op = call.op
      /\ reply'.entry = entry
  BY DEF AnswerWith
<1>2. call' \in CallRecords /\ call'.pc = "idle" /\ call'.op = call.op
      /\ call'.scopes = call.scopes /\ call'.entry \in ProductRoles
  BY <1>1 DEF TypeInv, CallRecords, Pcs
<1>3. call.op \in Ops
  BY DEF TypeInv, OneCall, At, Idle
<1>4. CallType' /\ OneCall'
  BY <1>1, <1>2, <1>3 DEF CallType, OneCall, At
<1>5. TypeOK'
  BY <1>1, <1>2 DEF TypeInv, TypeOK, Reads, Says
<1>6. QED
  BY <1>2, <1>4, <1>5 DEF TypeInv, Reads

LEMMA PlainAnswerType ==
    ASSUME TypeInv, ~At("idle"), NEW says \in Says, NEW shown, Answer(says, shown), Reads
    PROVE  TypeInv'
  BY AnswerType DEF Answer, ProductRoles

(* A step that goes on: it moves the label and maybe a field or two.       *)
LEMMA StepType ==
    ASSUME TypeInv, ~At("idle"), call' \in CallRecords, CallType',
           call'.op = call.op, UNCHANGED reply, Reads
    PROVE  TypeInv'
<1>1. call.op \in Ops /\ reply.op \in Ops
  BY DEF TypeInv, OneCall, At, Idle
<1>2. OneCall'
  BY <1>1 DEF OneCall
<1>3. TypeOK'
  <2>1. call'.pc \in Pcs /\ call'.op \in Ops \cup {"none"}
        /\ call'.scopes \subseteq RoleNames \cup {"anonymous", "authenticated"}
        /\ call'.entry \in ProductRoles
    BY DEF CallRecords
  <2>2. QED
    BY <2>1 DEF TypeInv, TypeOK, Reads, Pcs
<1>4. QED
  BY <1>2, <1>3 DEF TypeInv, Reads

LEMMA ProductListType ==
    ASSUME NEW d
    PROVE  ProductList(d) \subseteq Products(d) /\ Products(d) \subseteq Nat
  BY MaxProductAssumption DEF ProductList, Products

(* The user who calls has the scopes of his roles.                         *)
LEMMA ScopesType ==
    ASSUME TypeOK, NEW u
    PROVE  Scopes(u) \subseteq RoleNames \cup {"anonymous", "authenticated"}
  BY DEF TypeOK, Scopes

LEMMA CallKeepsType ==
    ASSUME TypeInv, NEW op \in Ops, NEW d, NEW p, NEW u \in Users \cup NotUsers,
           op = "datasets" => d = "none" /\ p = 0,
           op # "datasets" => d \in Datasets,
           op = "first" => p = 0,
           op \in {"details", "metadata"} => p \in Products(d),
           Call(op, d, p, u)
    PROVE  TypeInv'
<1> DEFINE says == reply'.says
<1>1. says \in Says
  BY DEF Call, Says
<1>2. Products(d) \subseteq Nat
  BY DEF Products
<1>3. d \in Datasets \cup {"none"} /\ p \in Nat
  BY <1>2 DEF Ops
<1>4. /\ call'.op = op /\ call'.dataset = d /\ call'.product = p
      /\ call'.todo = {} /\ call'.got = {} /\ call'.scopes = Scopes(u)
      /\ call'.entry = "absent"
      /\ call'.pc \in {"idle", IF op = "datasets" THEN "names" ELSE "dataset"}
      /\ call' \in CallRecords
  <2>1. /\ IF u \in {"improper", "unknown", "wrongKey"} THEN TRUE ELSE FirstStep(op) \in Pcs
        /\ "idle" \in Pcs /\ "absent" \in ProductRoles /\ {} \in SUBSET (Datasets \X Nat)
        /\ Scopes(u) \subseteq RoleNames \cup {"anonymous", "authenticated"}
    BY ScopesType DEF TypeInv, FirstStep, Pcs, ProductRoles
  <2>2. call' = [pc |-> IF u \in {"improper", "unknown", "wrongKey"}
                        THEN "idle" ELSE FirstStep(op),
                 op |-> op, dataset |-> d, product |-> p, user |-> u,
                 scopes |-> Scopes(u), todo |-> {}, got |-> {},
                 entry |-> "absent", info |-> <<>>]
    BY DEF Call
  <2>3. call' \in CallRecords
    BY <1>3, <2>1, <2>2, NoInfo DEF CallRecords
  <2>4. QED
    BY <2>2, <2>3 DEF FirstStep
<1>5. CallType'
  BY <1>4 DEF CallType, At, Ops
<1>6. OneCall'
  BY <1>4 DEF OneCall, Call
<1>7. TypeOK'
  <2>1. /\ call'.pc \in Pcs /\ call'.op \in Ops \cup {"none"}
        /\ call'.scopes \subseteq RoleNames \cup {"anonymous", "authenticated"}
        /\ call'.entry \in ProductRoles /\ reply'.entry \in ProductRoles
    BY <1>4 DEF CallRecords, Call, ProductRoles
  <2>2. QED
    BY <1>1, <2>1 DEF TypeInv, TypeOK, Call, Says, Pcs
<1>8. QED
  BY <1>4, <1>5, <1>6, <1>7 DEF TypeInv, Call

LEMMA ListingKeepsType ==
    ASSUME TypeInv, ListingStep
    PROVE  TypeInv'
<1>1. CASE ReadNames
  <2>1. call' = [call EXCEPT !.pc = "infos", !.todo = present]
    BY <1>1 DEF ReadNames
  <2>2. /\ call' \in CallRecords /\ call'.pc = "infos" /\ call'.op = call.op
        /\ call'.todo \subseteq Datasets
    BY <2>1 DEF TypeInv, TypeOK, CallRecords, Pcs
  <2>3. CallType'
    BY <1>1, <2>2 DEF TypeInv, CallType, ReadNames, At
  <2>4. QED
    BY <1>1, <2>2, <2>3, StepType DEF ReadNames, At
<1>2. CASE List
  BY <1>2, PlainAnswerType DEF List, At, Says
<1>3. ASSUME NEW d \in Datasets, ReadInfo(d) PROVE TypeInv'
  <2>1. CASE d \notin present
    BY <1>3, <2>1, PlainAnswerType DEF ReadInfo, Gone, At, Says
  <2>2. CASE d \in present
    <3> DEFINE new == {<<d, p>> : p \in {q \in ProductList(d) :
                                  IsRoleEligible(role[d][q], call.scopes)}}
    <3>1. call' = [call EXCEPT !.todo = @ \ {d}, !.got = @ \cup new]
      BY <1>3, <2>2 DEF ReadInfo
    <3>2. new \subseteq Datasets \X Nat
      BY ProductListType
    <3>3. /\ call' \in CallRecords /\ call'.pc = call.pc /\ call'.op = call.op
          /\ call'.todo = call.todo \ {d}
      <4> HIDE DEF new
      <4> QED
        BY <3>1, <3>2 DEF TypeInv, CallRecords
    <3>4. CallType'
      BY <1>3, <3>3 DEF TypeInv, CallType, ReadInfo, At
    <3>5. QED
      BY <1>3, <2>2, <3>3, <3>4, StepType DEF ReadInfo, At
  <2>3. QED
    BY <2>1, <2>2
<1>4. QED
  BY <1>1, <1>2, <1>3 DEF ListingStep

(* A step of the other endpoints that only moves on.                       *)
LEMMA MoveKeepsType ==
    ASSUME TypeInv, NEW label \in Pcs, Goto(label), UNCHANGED reply, Reads,
           At("dataset"),
           \/ label = "product" /\ call.op # "first"
           \/ label = "products" /\ call.op = "first"
    PROVE  TypeInv'
<1>1. call' = [call EXCEPT !.pc = label]
  BY DEF Goto
<1>2. /\ call' \in CallRecords /\ call'.pc = label /\ call'.op = call.op
      /\ call'.dataset = call.dataset /\ call'.product = call.product
  BY <1>1 DEF TypeInv, CallRecords
<1>3. CallType'
  BY <1>2 DEF TypeInv, CallType, At
<1>4. ~At("idle")
  BY DEF At
<1>5. QED
  BY <1>2, <1>3, <1>4, StepType

LEMMA DetailsKeepsType ==
    ASSUME TypeInv, DetailsStep
    PROVE  TypeInv'
<1> USE DEF At
<1>1. CASE FindDataset
  <2>1. CASE call.dataset \notin present
    BY <1>1, <2>1, PlainAnswerType DEF FindDataset, Says
  <2>2. CASE call.dataset \in present
    BY <1>1, <2>2, MoveKeepsType DEF FindDataset, Pcs
  <2>3. QED
    BY <2>1, <2>2
<1>2. CASE FindProduct
  <2> DEFINE d == call.dataset
             p == call.product
  <2>1. CASE d \notin present
    BY <1>2, <2>1, PlainAnswerType DEF FindProduct, Gone, Says
  <2>2. CASE d \in present /\ p \notin ProductList(d)
    BY <1>2, <2>2, PlainAnswerType DEF FindProduct, Says
  <2>3. CASE d \in present /\ p \in ProductList(d)
    <3>1. call' = [call EXCEPT !.todo = {p},
                       !.pc = IF call.op = "metadata" THEN "metadata" ELSE "role"]
      BY <1>2, <2>3 DEF FindProduct
    <3>2. p \in Nat
      BY <2>3, ProductListType
    <3>3. /\ call' \in CallRecords /\ call'.op = call.op /\ call'.todo = {p}
          /\ call'.dataset = d /\ call'.product = p
          /\ call'.pc = IF call.op = "metadata" THEN "metadata" ELSE "role"
      BY <3>1, <3>2 DEF TypeInv, CallRecords, Pcs
    <3>4. CallType'
      BY <1>2, <3>3 DEF TypeInv, CallType, FindProduct
    <3>5. QED
      BY <1>2, <2>3, <3>3, <3>4, StepType DEF FindProduct
  <2>4. QED
    BY <2>1, <2>2, <2>3
<1>3. CASE ReadProducts
  <2>1. CASE call.dataset \notin present
    BY <1>3, <2>1, PlainAnswerType DEF ReadProducts, Gone, Says
  <2>2. CASE call.dataset \in present
    <3>1. call' = [call EXCEPT !.pc = "role", !.todo = ProductList(call.dataset)]
      BY <1>3, <2>2 DEF ReadProducts
    <3>2. /\ ProductList(call.dataset) \subseteq Nat
          /\ ProductList(call.dataset) \subseteq Products(call.dataset)
      BY ProductListType
    <3>3. /\ call' \in CallRecords /\ call'.op = call.op /\ call'.pc = "role"
          /\ call'.dataset = call.dataset /\ call'.todo = ProductList(call.dataset)
      BY <3>1, <3>2 DEF TypeInv, CallRecords, Pcs
    <3>4. CallType'
      BY <1>3, <3>2, <3>3 DEF TypeInv, CallType, ReadProducts
    <3>5. QED
      BY <1>3, <2>2, <3>3, <3>4, StepType DEF ReadProducts
  <2>3. QED
    BY <2>1, <2>2
<1>4. CASE CheckRole
  <2> DEFINE p == Min(call.todo)
  <2>1. CASE call.todo = {}
    BY <1>4, <2>1, PlainAnswerType DEF CheckRole, Says
  <2>2. CASE call.todo # {} /\ ~HasProduct(call.dataset, p)
    BY <1>4, <2>2, PlainAnswerType DEF CheckRole, Gone, Says
  <2>3. CASE call.todo # {} /\ HasProduct(call.dataset, p)
    <3> HIDE DEF p
    <3>1. \/ call' = [call EXCEPT !.pc = "entry", !.product = p]
          \/ call' = [call EXCEPT !.todo = @ \ {p}]
      BY <1>4, <2>3 DEF CheckRole, p
    <3>2. p \in Nat
      BY <2>3, ProductListType DEF HasProduct
    <3>3. /\ call' \in CallRecords /\ call'.op = call.op
          /\ call'.dataset = call.dataset /\ call'.pc \in {"entry", "role"}
          /\ call'.todo \subseteq call.todo
      <4>1. At("role") /\ "role" \in Pcs /\ "entry" \in Pcs
        BY <1>4 DEF CheckRole, Pcs
      <4>2. CASE call' = [call EXCEPT !.pc = "entry", !.product = p]
        BY <3>2, <4>1, <4>2 DEF TypeInv, CallRecords, At
      <4>3. CASE call' = [call EXCEPT !.todo = @ \ {p}]
        BY <4>1, <4>3 DEF TypeInv, CallRecords, At
      <4>4. QED
        BY <3>1, <4>2, <4>3
    <3>4. CallType'
      BY <1>4, <3>3 DEF TypeInv, CallType, CheckRole
    <3>5. UNCHANGED reply /\ Reads
      BY <1>4, <2>3 DEF CheckRole, p
    <3>6. QED
      BY <1>4, <3>3, <3>4, <3>5, StepType DEF CheckRole
  <2>4. QED
    BY <2>1, <2>2, <2>3
<1>5. CASE ReadEntry
  <2>1. CASE HasProduct(call.dataset, call.product)
    <3> DEFINE r == role[call.dataset][call.product]
    <3>1. call' = [call EXCEPT !.pc = "info", !.entry = r] /\ UNCHANGED reply /\ Reads
      BY <1>5, <2>1 DEF ReadEntry
    <3>2. r \in ProductRoles
      BY <1>5, <2>1 DEF ReadEntry, TypeInv, TypeOK, CallType, HasProduct, ProductList
    <3> HIDE DEF r
    <3>3. /\ call' \in CallRecords /\ call'.op = call.op /\ call'.pc = "info"
          /\ call'.dataset = call.dataset
      BY <3>1, <3>2 DEF TypeInv, CallRecords, Pcs
    <3>4. CallType'
      BY <1>5, <3>3 DEF TypeInv, CallType, ReadEntry
    <3>5. QED
      BY <1>5, <3>1, <3>3, <3>4, StepType DEF ReadEntry
  <2>2. CASE ~HasProduct(call.dataset, call.product)
    BY <1>5, <2>2, PlainAnswerType DEF ReadEntry, Gone, Says
  <2>3. QED
    BY <2>1, <2>2
<1>6. CASE ReadDatasetInfo
  <2>1. CASE call.dataset \in present
    <3> DEFINE f == role[call.dataset]
    <3>1. call' = [call EXCEPT !.pc = "data", !.info = f] /\ UNCHANGED reply /\ Reads
      BY <1>6, <2>1 DEF ReadDatasetInfo
    <3>2. f \in Infos
      BY <1>6 DEF ReadDatasetInfo, TypeInv, CallType, Infos
    <3> HIDE DEF f
    <3>3. /\ call' \in CallRecords /\ call'.op = call.op /\ call'.pc = "data"
          /\ call'.dataset = call.dataset
      BY <3>1, <3>2 DEF TypeInv, CallRecords, Pcs
    <3>4. CallType'
      BY <1>6, <3>3 DEF TypeInv, CallType, ReadDatasetInfo
    <3>5. QED
      BY <1>6, <3>1, <3>3, <3>4, StepType DEF ReadDatasetInfo
  <2>2. CASE call.dataset \notin present
    BY <1>6, <2>2, PlainAnswerType DEF ReadDatasetInfo, Gone, Says
  <2>3. QED
    BY <2>1, <2>2
<1>7. CASE ReadData
  <2>1. call.entry \in ProductRoles
    BY DEF TypeInv, CallRecords
  <2>2. CASE AnswerWith("details", {<<call.dataset, call.product>>}, call.entry, call.info)
    BY <1>7, <2>1, <2>2, AnswerType DEF ReadData, Says
  <2>3. QED
    BY <1>7, <2>2, PlainAnswerType DEF ReadData, Gone, Says
<1>8. CASE ReadMetadata
  BY <1>8, PlainAnswerType DEF ReadMetadata, Gone, Says
<1>9. QED
  BY <1>1, <1>2, <1>3, <1>4, <1>5, <1>6, <1>7, <1>8 DEF DetailsStep

LEMMA OperatorKeepsType ==
    ASSUME TypeInv, OperatorStep
    PROVE  TypeInv'
<1>1. UNCHANGED <<call, reply>> /\ edits' = edits + 1 /\ ~At("idle") /\ edits < MaxEdits
  BY DEF OperatorStep, Edit, EditDataset, EditProduct, EditUser
<1>2. edits' \in 0..MaxEdits
  BY <1>1, MaxEditsAssumption DEF TypeInv, TypeOK
<1>3. CallType' /\ OneCall'
  BY <1>1 DEF TypeInv, CallType, OneCall, At, Idle
<1>4. present' \subseteq Datasets
  BY DEF OperatorStep, EditDataset, EditProduct, EditUser, TypeInv, TypeOK
<1>5. granted' \in [Users -> SUBSET RoleNames]
  BY DEF OperatorStep, EditDataset, EditProduct, EditUser, TypeInv, TypeOK
<1>6. /\ role' \in [Datasets -> UNION {[Products(d) -> ProductRoles] : d \in Datasets}]
      /\ \A d \in Datasets : role'[d] \in [Products(d) -> ProductRoles]
  <2>1. CASE role' = role
    BY <2>1 DEF TypeInv, TypeOK
  <2>2. ASSUME NEW d \in Datasets, NEW p \in Products(d), NEW r \in ProductRoles,
               role' = [role EXCEPT ![d][p] = r]
        PROVE  <1>6!1 /\ <1>6!2
    <3> DEFINE new == [role[d] EXCEPT ![p] = r]
    <3>1. role' = [role EXCEPT ![d] = new]
      BY <2>2
    <3>2. new \in [Products(d) -> ProductRoles]
      BY <2>2 DEF TypeInv, TypeOK
    <3> HIDE DEF new
    <3>3. \A k \in Datasets : role'[k] \in [Products(k) -> ProductRoles]
      BY <3>1, <3>2 DEF TypeInv, TypeOK
    <3>4. role' \in [Datasets -> UNION {[Products(k) -> ProductRoles] : k \in Datasets}]
      BY <3>1, <3>2 DEF TypeInv
    <3>5. QED
      BY <3>3, <3>4
  <2>3. QED
    BY <2>1, <2>2 DEF OperatorStep, EditDataset, EditProduct, EditUser
<1>7. QED
  BY <1>1, <1>2, <1>3, <1>4, <1>5, <1>6 DEF TypeInv, TypeOK, At

LEMMA ClientKeepsType ==
    ASSUME TypeInv, ClientCall
    PROVE  TypeInv'
<1>1. PICK u \in Users \cup NotUsers :
        \/ Call("datasets", "none", 0, u)
        \/ \E d \in Datasets :
              \/ Call("first", d, 0, u)
              \/ \E p \in Products(d), op \in {"details", "metadata"} : Call(op, d, p, u)
  BY DEF ClientCall
<1>2. CASE Call("datasets", "none", 0, u)
  BY <1>2, CallKeepsType DEF Ops
<1>3. ASSUME NEW d \in Datasets, Call("first", d, 0, u) PROVE TypeInv'
  BY <1>3, CallKeepsType DEF Ops
<1>4. ASSUME NEW d \in Datasets, NEW p \in Products(d), NEW op \in {"details", "metadata"},
             Call(op, d, p, u)
      PROVE  TypeInv'
  BY <1>4, CallKeepsType DEF Ops
<1>5. QED
  BY <1>1, <1>2, <1>3, <1>4

(* The state of the API keeps its type (TypeOK), and each endpoint reaches *)
(* a read with what that read needs.                                       *)
THEOREM TypeCorrect == Spec => []TypeOK
<1>1. Init => TypeInv
  BY InitType
<1>2. TypeInv /\ [Next]_vars => TypeInv'
  <2> SUFFICES ASSUME TypeInv, [Next]_vars PROVE TypeInv'
    OBVIOUS
  <2>1. CASE ClientCall
    BY <2>1, ClientKeepsType
  <2>2. CASE ListingStep
    BY <2>2, ListingKeepsType
  <2>3. CASE DetailsStep
    BY <2>3, DetailsKeepsType
  <2>4. CASE OperatorStep
    BY <2>4, OperatorKeepsType
  <2>5. CASE UNCHANGED vars
    BY <2>5 DEF vars, TypeInv, TypeOK, CallType, OneCall, At
  <2>6. QED
    BY <2>1, <2>2, <2>3, <2>4, <2>5 DEF Next
<1>3. TypeInv => TypeOK
  BY DEF TypeInv
<1>4. QED
  BY <1>1, <1>2, <1>3, PTL DEF Spec

------------------------------------------------------------------------------
(* One moment.                                                             *)

(* The listing as far as the datasets ds go.                               *)
Listing(m, ds) ==
    UNION {{<<d, p>> : p \in {q \in ProductsAt(m, d) :
              IsRoleEligible(m.role[d][q], m.scopes)}} : d \in ds}

(* The products of the dataset a call for details asks for.                *)
Wanted(m) == IF call.op = "first" THEN ProductsAt(m, call.dataset) ELSE {call.product}

(* What a call has read so far it might have read at moment m, and what it *)
(* is still to read is as it was at m, or has gone.                        *)
SeesNames(m) == m.present = present /\ m.role = role

SeesInfos(m) ==
    /\ call.todo \subseteq m.present
    /\ call.got = Listing(m, m.present \ call.todo)
    /\ \A d \in call.todo \cap present : role[d] = m.role[d]

SeesDataset(m) ==
    /\ call.dataset \in m.present
    /\ call.dataset \in present => role[call.dataset] = m.role[call.dataset]

SeesRoles(m) ==
    /\ call.dataset \in m.present
    /\ call.todo \subseteq Wanted(m)
    /\ Wanted(m) \subseteq ProductsAt(m, call.dataset)
    /\ \A p \in Wanted(m) \ call.todo : p \notin EligibleAt(m, call.dataset)
    /\ \A p \in call.todo :
          HasProduct(call.dataset, p) =>
              role[call.dataset][p] = m.role[call.dataset][p]

SeesProduct(m) ==
    /\ call.dataset \in m.present
    /\ call.product \in EligibleAt(m, call.dataset)
    /\ call.op = "first" => call.product = Min(EligibleAt(m, call.dataset))

(* What the details will say of the product and of the dataset.            *)
SeesEntry(m) ==
    call.entry \in {m.role[call.dataset][call.product], role[call.dataset][call.product]}

SeesParts(m) == PartsFit(m, call.dataset, call.product, call.entry, call.info)

SeesMetadata(m) ==
    /\ call.dataset \in m.present
    /\ call.product \in ProductsAt(m, call.dataset)

Sees(m) ==
    /\ m.scopes = call.scopes
    /\ call.pc \in {"names", "dataset"} => SeesNames(m)
    /\ At("infos") => SeesInfos(m)
    /\ call.pc \in {"product", "products"} => SeesDataset(m)
    /\ At("role") => SeesRoles(m)
    /\ call.pc \in {"entry", "info", "data"} => SeesProduct(m)
    /\ At("info") => SeesEntry(m)
    /\ At("data") => SeesParts(m)
    /\ At("metadata") => SeesMetadata(m)

Fits(m) ==
    \/ reply.says = "KeyError"
    \/ /\ <<reply.says, reply.shown>> = AnswerAt(m)
       /\ reply.says = "details" =>
             PartsFit(m, call.dataset, call.product, reply.entry, reply.info)

(* What a step of the endpoint makes of a moment it has seen.              *)
Outcome(m) == IF At("idle") THEN Fits(m) ELSE Sees(m)

LEMMA AnswerThen ==
    ASSUME TypeInv, NEW says, NEW shown, NEW entry, NEW info, NEW m,
           AnswerWith(says, shown, entry, info), UNCHANGED role,
           says = "details" => PartsFit(m, call.dataset, call.product, entry, info),
           \/ says = "KeyError"
           \/ call.op = "datasets" /\ <<says, shown>> = <<"listing", ListingAt(m)>>
           \/ call.op = "first" /\ <<says, shown>> = FirstAt(m, call.dataset)
           \/ /\ call.op \in {"details", "metadata"}
              /\ <<says, shown>> = NamedAt(m, call.op, call.dataset, call.product)
    PROVE  Outcome(m)'
<1>1. /\ call'.pc = "idle" /\ call'.dataset = call.dataset /\ call'.product = call.product
      /\ reply'.says = says /\ reply'.shown = shown /\ reply'.op = call.op
      /\ reply'.entry = entry /\ reply'.info = info
  BY DEF AnswerWith, TypeInv, CallRecords
<1>2. CASE says = "KeyError"
  BY <1>1, <1>2 DEF Outcome, Fits, At
<1>3. ASSUME <<says, shown>> = AnswerAt(m)' PROVE Outcome(m)'
  BY <1>1, <1>3 DEF Outcome, Fits, At, PartsFit
<1>4. CASE call.op = "datasets" /\ <<says, shown>> = <<"listing", ListingAt(m)>>
  BY <1>1, <1>3, <1>4 DEF AnswerAt
<1>5. CASE call.op = "first" /\ <<says, shown>> = FirstAt(m, call.dataset)
  BY <1>1, <1>3, <1>5 DEF AnswerAt
<1>6. CASE /\ call.op \in {"details", "metadata"}
           /\ <<says, shown>> = NamedAt(m, call.op, call.dataset, call.product)
  BY <1>1, <1>3, <1>6 DEF AnswerAt
<1>7. QED
  BY <1>2, <1>4, <1>5, <1>6

(* An answer without details.                                              *)
LEMMA PlainAnswerThen ==
    ASSUME TypeInv, NEW says, says # "details", NEW shown, NEW m, Answer(says, shown),
           UNCHANGED role,
           \/ says = "KeyError"
           \/ call.op = "datasets" /\ <<says, shown>> = <<"listing", ListingAt(m)>>
           \/ call.op = "first" /\ <<says, shown>> = FirstAt(m, call.dataset)
           \/ /\ call.op \in {"details", "metadata"}
              /\ <<says, shown>> = NamedAt(m, call.op, call.dataset, call.product)
    PROVE  Outcome(m)'
  BY AnswerThen DEF Answer

(* The products of a dataset that is as it was at m.                       *)
LEMMA SameProducts ==
    ASSUME NEW d, NEW m, role[d] = m.role[d]
    PROVE  ProductList(d) = ProductsAt(m, d)
  BY DEF ProductList, ProductsAt

LEMMA NamesSees ==
    ASSUME TypeInv, NEW m, Sees(m), ReadNames
    PROVE  Outcome(m)'
<1>1. call' = [call EXCEPT !.pc = "infos", !.todo = present] /\ UNCHANGED <<present, role>>
  BY DEF ReadNames, Reads
<1>2. /\ call'.pc = "infos" /\ call'.todo = present /\ call'.got = call.got
      /\ call'.scopes = call.scopes
  BY <1>1 DEF TypeInv, CallRecords
<1>3. m.present = present /\ m.role = role /\ m.scopes = call.scopes /\ call.got = {}
  BY DEF Sees, SeesNames, ReadNames, At, TypeInv, CallType
<1>4. Listing(m, m.present \ call'.todo) = {}
  BY <1>2, <1>3 DEF Listing
<1>5. SeesInfos(m)'
  BY <1>1, <1>2, <1>3, <1>4 DEF SeesInfos
<1>6. QED
  BY <1>2, <1>3, <1>5 DEF Outcome, Sees, At

LEMMA InfoSees ==
    ASSUME TypeInv, NEW m, Sees(m), NEW d \in Datasets, ReadInfo(d)
    PROVE  Outcome(m)'
<1>1. SeesInfos(m) /\ At("infos") /\ d \in call.todo /\ m.scopes = call.scopes
  BY DEF ReadInfo, Sees, At
<1>2. CASE d \notin present
  BY <1>2, PlainAnswerThen DEF ReadInfo, Gone, Reads
<1>3. CASE d \in present
  <2> DEFINE new == {<<d, p>> : p \in {q \in ProductList(d) :
                                IsRoleEligible(role[d][q], call.scopes)}}
  <2>1. call' = [call EXCEPT !.todo = @ \ {d}, !.got = @ \cup new] /\ UNCHANGED <<present, role>>
    BY <1>3 DEF ReadInfo, Reads
  <2>2. new = Listing(m, {d})
    <3>1. role[d] = m.role[d] /\ ProductList(d) = ProductsAt(m, d)
      BY <1>1, <1>3, SameProducts DEF SeesInfos
    <3>2. QED
      BY <1>1, <3>1 DEF Listing
  <2> HIDE DEF new
  <2>3. /\ call'.pc = "infos" /\ call'.todo = call.todo \ {d} /\ call'.got = call.got \cup new
        /\ call'.scopes = call.scopes
    BY <1>1, <2>1 DEF TypeInv, CallRecords, At
  <2>4. Listing(m, m.present \ call'.todo) = call.got \cup new
    <3>1. m.present \ call'.todo = (m.present \ call.todo) \cup {d}
      BY <1>1, <2>3 DEF SeesInfos
    <3>2. \A A, B : Listing(m, A \cup B) = Listing(m, A) \cup Listing(m, B)
      BY DEF Listing
    <3>3. QED
      BY <1>1, <2>2, <3>1, <3>2 DEF SeesInfos
  <2>5. SeesInfos(m)'
    BY <1>1, <2>1, <2>3, <2>4 DEF SeesInfos
  <2>6. QED
    BY <1>1, <2>3, <2>5 DEF Outcome, Sees, At
<1>4. QED
  BY <1>2, <1>3

LEMMA ListSees ==
    ASSUME TypeInv, NEW m, Sees(m), List
    PROVE  Outcome(m)'
<1>1. At("infos") /\ call.todo = {} /\ SeesInfos(m) /\ call.op = "datasets"
  BY DEF List, Sees, At, TypeInv, CallType
<1>2. call.got = ListingAt(m)
  BY <1>1 DEF SeesInfos, Listing, ListingAt
<1>3. QED
  BY <1>1, <1>2, PlainAnswerThen DEF List, Reads

LEMMA DatasetSees ==
    ASSUME TypeInv, NEW m, Sees(m), FindDataset
    PROVE  Outcome(m)'
<1>1. /\ SeesNames(m) /\ m.scopes = call.scopes /\ UNCHANGED <<present, role>>
      /\ call.op \in {"first", "details", "metadata"}
  BY DEF FindDataset, Sees, At, TypeInv, CallType, Reads
<1>2. CASE call.dataset \notin present
  <2>1. Answer("MissingDatasetError", {}) /\ call.dataset \notin m.present
    BY <1>1, <1>2 DEF FindDataset, SeesNames
  <2>2. QED
    BY <1>1, <2>1, PlainAnswerThen DEF FirstAt, NamedAt
<1>3. CASE call.dataset \in present
  <2>1. /\ call'.pc \in {"product", "products"} /\ call'.dataset = call.dataset
        /\ call'.scopes = call.scopes
    BY <1>3 DEF FindDataset, Goto, TypeInv, CallRecords
  <2>2. SeesDataset(m)'
    BY <1>1, <1>3, <2>1 DEF SeesDataset, SeesNames
  <2>3. QED
    BY <1>1, <2>1, <2>2 DEF Outcome, Sees, At
<1>4. QED
  BY <1>2, <1>3

LEMMA ProductSees ==
    ASSUME TypeInv, NEW m, Sees(m), FindProduct
    PROVE  Outcome(m)'
<1> DEFINE d == call.dataset
           p == call.product
<1>1. /\ SeesDataset(m) /\ m.scopes = call.scopes /\ UNCHANGED <<present, role>>
      /\ call.op \in {"details", "metadata"}
  BY DEF FindProduct, Sees, At, TypeInv, CallType, Reads
<1>2. CASE d \notin present
  BY <1>1, <1>2, PlainAnswerThen DEF FindProduct, Gone
<1>3. ASSUME d \in present
      PROVE  d \in m.present /\ role[d] = m.role[d] /\ ProductList(d) = ProductsAt(m, d)
  BY <1>1, <1>3, SameProducts DEF SeesDataset
<1>4. CASE d \in present /\ p \notin ProductList(d)
  <2>1. Answer("MissingProductError", {})
    BY <1>4 DEF FindProduct
  <2>2. NamedAt(m, call.op, d, p) = <<"MissingProductError", {}>>
    BY <1>3, <1>4 DEF NamedAt
  <2>3. QED
    BY <1>1, <2>1, <2>2, PlainAnswerThen
<1>5. CASE d \in present /\ p \in ProductList(d)
  <2>1. call' = [call EXCEPT !.todo = {p},
                     !.pc = IF call.op = "metadata" THEN "metadata" ELSE "role"]
    BY <1>5 DEF FindProduct
  <2>2. /\ call'.pc = IF call.op = "metadata" THEN "metadata" ELSE "role"
        /\ call'.todo = {p} /\ call'.dataset = d /\ call'.product = p /\ call'.op = call.op
        /\ call'.scopes = call.scopes
    BY <2>1 DEF TypeInv, CallRecords
  <2>3. Wanted(m)' = {p}
    BY <1>1, <2>2 DEF Wanted
  <2>4. SeesMetadata(m)'
    BY <1>3, <1>5, <2>2 DEF SeesMetadata
  <2>5. SeesRoles(m)'
    BY <1>1, <1>3, <1>5, <2>2, <2>3 DEF SeesRoles
  <2>6. QED
    BY <1>1, <2>2, <2>4, <2>5 DEF Outcome, Sees, At
<1>6. QED
  BY <1>2, <1>4, <1>5

LEMMA ProductsSees ==
    ASSUME TypeInv, NEW m, Sees(m), ReadProducts
    PROVE  Outcome(m)'
<1> DEFINE d == call.dataset
<1>1. /\ SeesDataset(m) /\ m.scopes = call.scopes /\ UNCHANGED <<present, role>>
      /\ call.op = "first"
  BY DEF ReadProducts, Sees, At, TypeInv, CallType, Reads
<1>2. CASE d \notin present
  BY <1>1, <1>2, PlainAnswerThen DEF ReadProducts, Gone
<1>3. CASE d \in present
  <2>1. d \in m.present /\ role[d] = m.role[d] /\ ProductList(d) = ProductsAt(m, d)
    BY <1>1, <1>3, SameProducts DEF SeesDataset
  <2>2. call' = [call EXCEPT !.pc = "role", !.todo = ProductList(d)]
    BY <1>3 DEF ReadProducts
  <2>3. /\ call'.pc = "role" /\ call'.todo = ProductList(d) /\ call'.dataset = d
        /\ call'.op = call.op /\ call'.scopes = call.scopes
    BY <2>2 DEF TypeInv, CallRecords
  <2>4. Wanted(m)' = ProductsAt(m, d)
    BY <1>1, <2>3 DEF Wanted
  <2>5. SeesRoles(m)'
    BY <1>1, <2>1, <2>3, <2>4 DEF SeesRoles
  <2>6. QED
    BY <1>1, <2>3, <2>5 DEF Outcome, Sees, At
<1>4. QED
  BY <1>2, <1>3

LEMMA RoleSees ==
    ASSUME TypeInv, NEW m, Sees(m), CheckRole
    PROVE  Outcome(m)'
<1> DEFINE d == call.dataset
           p == Min(call.todo)
<1>1. /\ SeesRoles(m) /\ m.scopes = call.scopes /\ UNCHANGED <<present, role>> /\ At("role")
      /\ call.op \in {"first", "details"}
      /\ call.op = "details" => call.product \in Nat
  BY DEF CheckRole, Sees, At, TypeInv, CallType, CallRecords, Reads
<1>2. EligibleAt(m, d) \subseteq ProductsAt(m, d) /\ ProductsAt(m, d) \subseteq Nat
  BY DEF EligibleAt, ProductsAt, Products
<1>3. CASE call.todo = {}
  <2>1. Answer("AuthorizationFailed", {})
    BY <1>3 DEF CheckRole
  <2>2. CASE call.op = "first"
    <3>1. EligibleAt(m, d) = {}
      BY <1>1, <1>2, <1>3, <2>2 DEF SeesRoles, Wanted
    <3>2. QED
      BY <1>1, <2>1, <2>2, <3>1, PlainAnswerThen DEF FirstAt, SeesRoles
  <2>3. CASE call.op = "details"
    <3>1. call.product \in ProductsAt(m, d) /\ call.product \notin EligibleAt(m, d)
      BY <1>1, <1>3, <2>3 DEF SeesRoles, Wanted
    <3>2. NamedAt(m, call.op, d, call.product) = <<"AuthorizationFailed", {}>>
      BY <1>1, <2>3, <3>1 DEF NamedAt, SeesRoles
    <3>3. QED
      BY <1>1, <2>1, <2>3, <3>2, PlainAnswerThen
  <2>4. QED
    BY <1>1, <2>2, <2>3
<1>4. CASE call.todo # {} /\ ~HasProduct(d, p)
  BY <1>1, <1>4, PlainAnswerThen DEF CheckRole, Gone
<1>5. CASE call.todo # {} /\ HasProduct(d, p)
  <2>1. /\ p \in call.todo /\ \A q \in call.todo : p <= q
        /\ p \in ProductsAt(m, d) /\ role[d][p] = m.role[d][p]
    <3>1. call.todo \in SUBSET Nat
      BY <1>1, <1>2 DEF SeesRoles
    <3>2. p \in call.todo /\ \A q \in call.todo : p <= q
      BY <1>5, <3>1, MinIsLeast
    <3>3. QED
      BY <1>1, <1>5, <3>2 DEF SeesRoles
  <2>2. IsProductValid(role[d][p], call.scopes) <=> p \in EligibleAt(m, d)
    BY <1>1, <2>1 DEF EligibleAt
  <2>3. call.op = "details" => call.product = p
    BY <1>1, <2>1 DEF SeesRoles, Wanted
  <2>4. CASE p \in EligibleAt(m, d)
    <3>1. call' = [call EXCEPT !.pc = "entry", !.product = p]
      BY <1>5, <2>2, <2>4 DEF CheckRole
    <3>2. /\ call'.pc = "entry" /\ call'.product = p /\ call'.dataset = d
          /\ call'.op = call.op /\ call'.scopes = call.scopes
      BY <3>1 DEF TypeInv, CallRecords
    <3>3. call.op = "first" => p = Min(EligibleAt(m, d))
      <4> SUFFICES ASSUME call.op = "first" PROVE p = Min(EligibleAt(m, d))
        OBVIOUS
      <4>1. EligibleAt(m, d) \subseteq call.todo
        BY <1>1, <1>2 DEF SeesRoles, Wanted
      <4>2. \A q \in EligibleAt(m, d) : p <= q
        BY <2>1, <4>1
      <4> HIDE DEF p
      <4>3. QED
        BY <1>2, <2>4, <4>2, LeastIsMin
    <3>4. SeesProduct(m)'
      <4> HIDE DEF p
      <4> QED
        BY <1>1, <2>4, <3>2, <3>3 DEF SeesProduct, SeesRoles
    <3>5. QED
      BY <1>1, <3>2, <3>4 DEF Outcome, Sees, At
  <2>5. CASE p \notin EligibleAt(m, d)
    <3>1. call' = [call EXCEPT !.todo = @ \ {p}]
      BY <1>5, <2>2, <2>5 DEF CheckRole
    <3> HIDE DEF p
    <3>2. /\ call'.pc = "role" /\ call'.todo = call.todo \ {p} /\ call'.dataset = d
          /\ call'.product = call.product /\ call'.op = call.op /\ call'.scopes = call.scopes
      BY <1>1, <3>1 DEF TypeInv, CallRecords, At
    <3>3. Wanted(m)' = Wanted(m)
      BY <3>2 DEF Wanted
    <3>4. SeesRoles(m)'
      BY <1>1, <2>5, <3>2, <3>3 DEF SeesRoles, HasProduct, ProductList
    <3>5. QED
      BY <1>1, <3>2, <3>4 DEF Outcome, Sees, At
  <2>6. QED
    BY <2>4, <2>5
<1>6. QED
  BY <1>3, <1>4, <1>5

LEMMA DetailsSees ==
    ASSUME TypeInv, NEW m, Sees(m), ReadEntry \/ ReadDatasetInfo \/ ReadData
    PROVE  Outcome(m)'
<1> DEFINE d == call.dataset
           p == call.product
<1>1. /\ SeesProduct(m) /\ call.op \in {"first", "details"} /\ m.scopes = call.scopes
      /\ role' = role
  BY DEF ReadEntry, ReadDatasetInfo, ReadData, Sees, At, TypeInv, CallType, Reads
<1>2. CASE Gone
  BY <1>1, <1>2, PlainAnswerThen DEF Gone
<1>3. CASE ReadEntry /\ ~Gone
  <2>1. call' = [call EXCEPT !.pc = "info", !.entry = role[d][p]]
    BY <1>3 DEF ReadEntry
  <2>2. /\ call'.pc = "info" /\ call'.dataset = d /\ call'.product = p
        /\ call'.op = call.op /\ call'.scopes = call.scopes /\ call'.entry = role[d][p]
    BY <2>1 DEF TypeInv, CallRecords
  <2>3. SeesProduct(m)' /\ SeesEntry(m)'
    BY <1>1, <2>2 DEF SeesProduct, SeesEntry
  <2>4. QED
    BY <1>1, <2>2, <2>3 DEF Outcome, Sees, At
<1>4. CASE ReadDatasetInfo /\ ~Gone
  <2>1. call' = [call EXCEPT !.pc = "data", !.info = role[d]]
    BY <1>4 DEF ReadDatasetInfo
  <2>2. /\ call'.pc = "data" /\ call'.dataset = d /\ call'.product = p
        /\ call'.op = call.op /\ call'.scopes = call.scopes
        /\ call'.entry = call.entry /\ call'.info = role[d]
    BY <2>1 DEF TypeInv, CallRecords
  <2>3. SeesEntry(m)
    BY <1>4 DEF ReadDatasetInfo, Sees, At
  <2>4. SeesProduct(m)' /\ SeesParts(m)'
    BY <1>1, <2>2, <2>3 DEF SeesProduct, SeesEntry, SeesParts, PartsFit
  <2>5. QED
    BY <1>1, <2>2, <2>4 DEF Outcome, Sees, At
<1>5. CASE ReadData /\ ~Gone
  <2>1. AnswerWith("details", {<<d, p>>}, call.entry, call.info)
    BY <1>5 DEF ReadData
  <2>2. PartsFit(m, d, p, call.entry, call.info)
    BY <1>5 DEF ReadData, Sees, SeesParts, At
  <2>3. d \in m.present /\ p \in EligibleAt(m, d) /\ p \in ProductsAt(m, d)
    BY <1>1 DEF SeesProduct, EligibleAt
  <2>4. CASE call.op = "first"
    <3>1. <<"details", {<<d, p>>}>> = FirstAt(m, d)
      BY <1>1, <2>3, <2>4 DEF FirstAt, SeesProduct
    <3>2. QED
      BY <1>1, <2>1, <2>2, <2>4, <3>1, AnswerThen
  <2>5. CASE call.op = "details"
    <3>1. <<"details", {<<d, p>>}>> = NamedAt(m, call.op, d, p)
      BY <2>3, <2>5 DEF NamedAt
    <3>2. QED
      BY <1>1, <2>1, <2>2, <2>5, <3>1, AnswerThen
  <2>6. QED
    BY <1>1, <2>4, <2>5
<1>6. QED
  BY <1>2, <1>3, <1>4, <1>5

LEMMA MetadataSees ==
    ASSUME TypeInv, NEW m, Sees(m), ReadMetadata
    PROVE  Outcome(m)'
<1> DEFINE d == call.dataset
           p == call.product
<1>1. SeesMetadata(m) /\ call.op = "metadata" /\ role' = role
  BY DEF ReadMetadata, Sees, At, TypeInv, CallType, Reads
<1>2. <<"metadata", {<<d, p>>}>> = NamedAt(m, call.op, d, p)
  BY <1>1 DEF NamedAt, SeesMetadata
<1>3. CASE Gone
  BY <1>1, <1>3, PlainAnswerThen DEF Gone
<1>4. CASE Answer("metadata", {<<d, p>>})
  BY <1>1, <1>2, <1>4, PlainAnswerThen
<1>5. QED
  BY <1>3, <1>4 DEF ReadMetadata

LEMMA EndpointSees ==
    ASSUME TypeInv, NEW m, Sees(m), ListingStep \/ DetailsStep
    PROVE  Outcome(m)'
  BY NamesSees, InfoSees, ListSees, DatasetSees, ProductSees, ProductsSees, RoleSees,
     DetailsSees, MetadataSees DEF ListingStep, DetailsStep

------------------------------------------------------------------------------
(* The changes of the operator.                                            *)

(* The catalog and the user as they are now.                               *)
Now == Moment(call.user)

LEMMA NowIsNow ==
    /\ Now.present = present /\ Now.role = role
    /\ Now.scopes = Scopes(call.user)
    /\ \A d \in Datasets : ProductsAt(Now, d) = ProductList(d)
  BY DEF Now, Moment, Scopes, ProductsAt, ProductList

LEMMA EndpointKeepsUser ==
    ASSUME TypeInv, ListingStep \/ DetailsStep
    PROVE  /\ call'.user = call.user /\ call.pc # "idle" /\ call # Idle
           /\ UNCHANGED <<present, role, granted, moments, edits>>
<1>1. UNCHANGED <<present, role, granted, moments, edits>>
  BY DEF ListingStep, DetailsStep, Reads, ReadNames, ReadInfo, List, FindDataset, FindProduct,
         ReadProducts, CheckRole, ReadEntry, ReadDatasetInfo, ReadData, ReadMetadata
<1>2. call.pc # "idle" /\ call # Idle
  <2>1. call.pc # "idle"
    BY DEF ListingStep, DetailsStep, At, ReadNames, ReadInfo, List, FindDataset, FindProduct,
           ReadProducts, CheckRole, ReadEntry, ReadDatasetInfo, ReadData, ReadMetadata
  <2>2. QED
    BY <2>1 DEF Idle
<1>3. call'.user = call.user
  <2>1. ASSUME NEW says, NEW shown, Answer(says, shown) PROVE call'.user = call.user
    BY <2>1 DEF Answer, AnswerWith, TypeInv, CallRecords
  <2>2. ASSUME NEW label, Goto(label) PROVE call'.user = call.user
    BY <2>2 DEF Goto, TypeInv, CallRecords
  <2>3. CASE ReadNames
    BY <2>3 DEF ReadNames, TypeInv, CallRecords
  <2>4. ASSUME NEW d \in Datasets, ReadInfo(d) PROVE call'.user = call.user
    BY <2>1, <2>4 DEF ReadInfo, Gone, TypeInv, CallRecords
  <2>5. CASE FindDataset
    BY <2>1, <2>2, <2>5 DEF FindDataset
  <2>6. CASE FindProduct
    BY <2>1, <2>6 DEF FindProduct, Gone, TypeInv, CallRecords
  <2>7. CASE ReadProducts
    BY <2>1, <2>7 DEF ReadProducts, Gone, TypeInv, CallRecords
  <2>8. CASE CheckRole
    BY <2>1, <2>8 DEF CheckRole, Gone, TypeInv, CallRecords
  <2>9. CASE List \/ ReadMetadata
    BY <2>1, <2>9 DEF List, ReadMetadata, Gone
  <2>11. CASE ReadEntry \/ ReadDatasetInfo
    BY <2>1, <2>11 DEF ReadEntry, ReadDatasetInfo, Gone, TypeInv, CallRecords
  <2>12. CASE ReadData
    BY <2>1, <2>12 DEF ReadData, Gone, AnswerWith, TypeInv, CallRecords
  <2>10. QED
    BY <2>3, <2>4, <2>5, <2>6, <2>7, <2>8, <2>9, <2>11, <2>12 DEF ListingStep, DetailsStep
<1>4. QED
  BY <1>1, <1>2, <1>3

(* As long as nothing was changed, no name has gone.                       *)
LEMMA NothingGone ==
    ASSUME TypeInv, Sees(Now), ListingStep \/ DetailsStep
    PROVE  reply'.says = "KeyError" => call'.pc # "idle"
<1> DEFINE d == call.dataset
           Fine == reply'.says = "KeyError" => call'.pc # "idle"
<1>1. ASSUME NEW says, NEW shown, says # "KeyError", Answer(says, shown) PROVE Fine
  BY <1>1 DEF Answer, AnswerWith
<1>2. ASSUME NEW label, label # "idle", Goto(label) PROVE Fine
  BY <1>2 DEF Goto, TypeInv, CallRecords
<1>3. call.pc \notin {"idle", "names", "infos"} => d \in Datasets
  BY DEF TypeInv, CallType
<1>4. \A p : d \in Datasets /\ d \in present /\ p \in ProductsAt(Now, d) => HasProduct(d, p)
  BY NowIsNow DEF HasProduct
<1>5. \A p : p \in EligibleAt(Now, d) => p \in ProductsAt(Now, d)
  BY DEF EligibleAt
<1>6. CASE ReadNames
  BY <1>6 DEF ReadNames, TypeInv, CallRecords
<1>7. ASSUME NEW k \in Datasets, ReadInfo(k) PROVE Fine
  <2>1. k \in present
    BY <1>7, NowIsNow DEF ReadInfo, Sees, SeesInfos, At
  <2>2. QED
    BY <1>7, <2>1 DEF ReadInfo, TypeInv, CallRecords, At
<1>8. CASE List
  BY <1>1, <1>8 DEF List
<1>9. CASE FindDataset
  BY <1>1, <1>2, <1>9 DEF FindDataset
<1>10. CASE FindProduct
  <2>1. d \in present
    BY <1>10, NowIsNow DEF FindProduct, Sees, SeesDataset, At
  <2>2. QED
    BY <1>1, <1>10, <2>1 DEF FindProduct, TypeInv, CallRecords
<1>11. CASE ReadProducts
  <2>1. d \in present
    BY <1>11, NowIsNow DEF ReadProducts, Sees, SeesDataset, At
  <2>2. QED
    BY <1>11, <2>1 DEF ReadProducts, TypeInv, CallRecords
<1>12. CASE CheckRole
  <2>1. CASE call.todo = {}
    BY <1>1, <1>12, <2>1 DEF CheckRole
  <2>2. CASE call.todo # {}
    <3> DEFINE p == Min(call.todo)
    <3>1. call.todo \in SUBSET Nat
      BY <1>12, ProductListType DEF CheckRole, At, TypeInv, CallType
    <3>2. p \in call.todo
      BY <2>2, <3>1, MinIsLeast
    <3>3. HasProduct(d, p)
      BY <1>3, <1>4, <1>12, <3>2, NowIsNow DEF CheckRole, Sees, SeesRoles, At
    <3>4. QED
      BY <1>12, <2>2, <3>3 DEF CheckRole, TypeInv, CallRecords, At
  <2>3. QED
    BY <2>1, <2>2
<1>13. CASE ReadEntry
  <2>1. HasProduct(d, call.product)
    BY <1>3, <1>4, <1>5, <1>13, NowIsNow DEF ReadEntry, Sees, SeesProduct, At
  <2>2. QED
    BY <1>13, <2>1 DEF ReadEntry, TypeInv, CallRecords
<1>14. CASE ReadDatasetInfo
  <2>1. d \in present
    BY <1>14, NowIsNow DEF ReadDatasetInfo, Sees, SeesProduct, At
  <2>2. QED
    BY <1>14, <2>1 DEF ReadDatasetInfo, TypeInv, CallRecords
<1>15. CASE ReadData
  <2>1. HasProduct(d, call.product)
    BY <1>3, <1>4, <1>5, <1>15, NowIsNow DEF ReadData, Sees, SeesProduct, At
  <2>2. QED
    BY <1>15, <2>1 DEF ReadData, AnswerWith
<1>16. CASE ReadMetadata
  <2>1. HasProduct(d, call.product)
    BY <1>3, <1>4, <1>16, NowIsNow DEF ReadMetadata, Sees, SeesMetadata, At
  <2>2. QED
    BY <1>1, <1>16, <2>1 DEF ReadMetadata
<1>17. QED
  BY <1>6, <1>7, <1>8, <1>9, <1>10, <1>11, <1>12, <1>13, <1>14, <1>15, <1>16
     DEF ListingStep, DetailsStep

(* A first change is seen wholly, or not at all.                           *)
LEMMA EditSees ==
    ASSUME TypeInv, Sees(Now), ~At("idle"), Now \in moments, call.scopes = Scopes(call.user),
           OperatorStep
    PROVE  \E m \in moments' : Sees(m)'
<1>1. PICK m0 \in moments : m0 = Now
  OBVIOUS
<1>2. /\ Sees(m0) /\ m0.present = present /\ m0.role = role /\ m0.scopes = call.scopes
      /\ \A d \in Datasets : ProductsAt(m0, d) = ProductList(d)
  BY <1>1, NowIsNow
<1>3. PICK m1 : m1 = Now'
  OBVIOUS
<1>4. call' = call /\ m0 \in moments' /\ m1 \in moments'
  BY <1>3 DEF OperatorStep, EditDataset, EditProduct, EditUser, Edit, Remember, Now
<1>5. /\ m1.present = present' /\ m1.role = role'
      /\ m1.scopes = IF call.user \in Users THEN {"authenticated"} \cup granted'[call.user]
                     ELSE {"anonymous"}
  BY <1>3, <1>4 DEF Now, Moment
<1>6. ASSUME NEW u \in Users, NEW names \in SUBSET RoleNames, EditUser(u, names)
      PROVE  Sees(m0)'
  <2>1. UNCHANGED <<call, present, role>>
    BY <1>4, <1>6 DEF EditUser
  <2>2. QED
    BY <1>2, <2>1 DEF Sees, SeesNames, SeesInfos, SeesDataset, SeesRoles, SeesProduct,
                      SeesEntry, SeesParts, PartsFit, SeesMetadata, Wanted, HasProduct, ProductList, At
<1>7. granted' = granted => m1.scopes = call.scopes
  BY <1>5 DEF Scopes
<1>8. CASE call.pc \in {"names", "dataset"} /\ granted' = granted
  <2>1. Sees(m1)'
    BY <1>4, <1>5, <1>7, <1>8 DEF Sees, SeesNames, At
  <2>2. QED
    BY <1>4, <2>1
<1>9. ASSUME NEW d \in Datasets, EditDataset(d), call.pc \notin {"names", "dataset"}
      PROVE  Sees(m0)'
  <2>1. role' = role
    BY <1>9 DEF EditDataset
  <2>2. QED
    BY <1>2, <1>4, <1>9, <2>1 DEF Sees, SeesInfos, SeesDataset, SeesRoles, SeesProduct,
                                  SeesEntry, SeesParts, PartsFit, SeesMetadata, Wanted, HasProduct, ProductList, At
<1>10. ASSUME NEW d \in Datasets, NEW p \in Products(d), NEW r \in ProductRoles,
              EditProduct(d, p, r), call.pc \notin {"names", "dataset"}
       PROVE  Sees(m0)' \/ Sees(m1)'
  <2>1. role' = [role EXCEPT ![d][p] = r] /\ present' = present /\ m1.scopes = call.scopes
    BY <1>7, <1>10 DEF EditProduct
  <2>2. \A k \in Datasets : k # d => role'[k] = role[k]
    BY <2>1 DEF TypeInv
  <2>3. \A k \in Datasets : k # d => ProductsAt(m1, k) = ProductsAt(m0, k)
    BY <1>2, <1>5, <2>2 DEF ProductsAt
  <2>4. role'[d] = [role[d] EXCEPT ![p] = r]
    BY <2>1 DEF TypeInv
  <2>5. CASE At("infos") /\ d \in call.todo
    <3>1. Listing(m1, present \ call.todo) = Listing(m0, present \ call.todo)
      BY <1>2, <1>5, <2>1, <2>2, <2>3, <2>5 DEF Listing, TypeInv, TypeOK
    <3>2. SeesInfos(m1)'
      BY <1>2, <1>4, <1>5, <2>1, <2>5, <3>1 DEF SeesInfos, Sees
    <3>3. QED
      BY <1>4, <2>1, <2>5, <3>2 DEF Sees, At
  <2>6. CASE At("infos") /\ d \notin call.todo
    <3>1. SeesInfos(m0)'
      BY <1>2, <1>4, <2>1, <2>2, <2>6 DEF SeesInfos, Sees, TypeInv, CallType
    <3>2. QED
      BY <1>2, <1>4, <2>6, <3>1 DEF Sees, At
  <2>7. CASE call.pc \in {"product", "products"}
    BY <1>2, <1>4, <1>5, <2>1, <2>7 DEF Sees, SeesDataset, At
  <2>8. CASE At("role")
    <3> DEFINE ds == call.dataset
    <3>1. /\ SeesRoles(m0) /\ ds \in Datasets /\ call.todo \subseteq Products(ds)
      BY <1>2, <2>8 DEF Sees, TypeInv, CallType, At
    <3>2. CASE d = ds /\ p \in call.todo /\ r # "absent"
      <4>1. ProductsAt(m1, ds) = ProductsAt(m0, ds)
        <5>1. p \in ProductsAt(m0, ds)
          BY <3>1, <3>2 DEF SeesRoles
        <5>2. \A q \in Products(ds) :
                 (m1.role[ds][q] # "absent") = (m0.role[ds][q] # "absent")
          <6>1. m1.role[ds] = [role[ds] EXCEPT ![p] = r] /\ m0.role = role
            BY <1>2, <1>5, <2>4, <3>2
          <6>2. role[ds] \in [Products(ds) -> ProductRoles]
            BY <3>1 DEF TypeInv, TypeOK
          <6>3. m0.role[ds][p] # "absent"
            BY <5>1 DEF ProductsAt
          <6>4. QED
            BY <3>2, <6>1, <6>2, <6>3
        <5>3. QED
          BY <5>2 DEF ProductsAt
      <4>2. \A q \in Products(ds) : q # p => m1.role[ds][q] = m0.role[ds][q]
        BY <1>2, <1>5, <2>4, <3>2 DEF TypeInv, TypeOK
      <4>3. \A q \in Products(ds) :
               q # p /\ q \notin EligibleAt(m0, ds) => q \notin EligibleAt(m1, ds)
        BY <1>2, <2>1, <4>1, <4>2 DEF EligibleAt
      <4>4. Wanted(m1) = Wanted(m0) /\ Wanted(m1)' = Wanted(m1)
        BY <1>4, <4>1 DEF Wanted
      <4>5. \A q \in Wanted(m1) : q \in Products(ds)
        BY <3>1, <4>4 DEF SeesRoles, ProductsAt
      <4>6. SeesRoles(m1)'
        BY <1>2, <1>4, <1>5, <2>1, <3>1, <3>2, <4>1, <4>3, <4>4, <4>5 DEF SeesRoles
      <4>7. QED
        BY <1>4, <2>1, <2>8, <4>6 DEF Sees, At
    <3>3. CASE ~(d = ds /\ p \in call.todo /\ r # "absent")
      <4>1. \A q \in call.todo :
               role'[ds][q] # "absent" => role'[ds][q] = m0.role[ds][q]
        <5>1. CASE d # ds
          BY <1>2, <2>2, <3>1, <5>1
        <5>2. CASE d = ds
          BY <1>2, <2>4, <3>1, <3>3, <5>2 DEF TypeInv, TypeOK
        <5>3. QED
          BY <5>1, <5>2
      <4>2. Wanted(m0)' = Wanted(m0)
        BY <1>4 DEF Wanted
      <4>3. SeesRoles(m0)'
        BY <1>4, <3>1, <4>1, <4>2 DEF SeesRoles, HasProduct, ProductList
      <4>4. QED
        BY <1>2, <1>4, <2>8, <4>3 DEF Sees, At
    <3>4. QED
      BY <3>2, <3>3
  <2>9. CASE call.pc \in {"entry", "info", "data", "metadata"}
    BY <1>2, <1>4, <2>9 DEF Sees, SeesProduct, SeesEntry, SeesParts, PartsFit,
                            SeesMetadata, At
  <2>10. QED
    BY <1>10, <2>5, <2>6, <2>7, <2>8, <2>9 DEF TypeInv, CallRecords, Pcs, At
<1>11. granted' = granted \/ \E u \in Users, names \in SUBSET RoleNames : EditUser(u, names)
  BY DEF OperatorStep, EditDataset, EditProduct
<1>12. QED
  BY <1>4, <1>6, <1>8, <1>9, <1>10, <1>11 DEF OperatorStep

(* What the steps keep of the moments, as long as there was one change or  *)
(* none.                                                                   *)
Consistent ==
    ~At("idle") /\ edits <= 1 =>
        /\ \E m \in moments : Sees(m)
        /\ edits = 0 => Now \in moments /\ Sees(Now) /\ call.scopes = Scopes(call.user)

MomentInv == TypeInv /\ Consistent /\ DecisionIsOfOneMoment

LEMMA CallIsConsistent ==
    ASSUME TypeInv, NEW op \in Ops, NEW d, NEW p, NEW u \in Users \cup NotUsers, Call(op, d, p, u)
    PROVE  Consistent' /\ DecisionIsOfOneMoment'
<1>1. /\ call'.pc \in {"idle", IF op = "datasets" THEN "names" ELSE "dataset"}
      /\ call'.user = u /\ call'.scopes = Scopes(u) /\ moments' = {Moment(u)}
      /\ UNCHANGED <<present, role, granted>>
  BY DEF Call, FirstStep
<1>2. Now' = Moment(u) /\ Scopes(call.user)' = Scopes(u)
  BY <1>1 DEF Now, Moment, Scopes
<1>3. PICK m : m = Moment(u)
  OBVIOUS
<1>4. m.present = present /\ m.role = role /\ m.scopes = Scopes(u) /\ m \in moments'
  BY <1>1, <1>3 DEF Moment, Scopes
<1>5. CASE call'.pc # "idle"
  <2>1. SeesNames(m)'
    BY <1>1, <1>4 DEF SeesNames
  <2>2. Sees(m)'
    BY <1>1, <1>4, <1>5, <2>1 DEF Sees, At
  <2>3. Sees(Now)'
    BY <1>2, <1>3, <2>2 DEF Sees, SeesNames, SeesInfos, SeesDataset, SeesRoles, SeesProduct,
                            SeesEntry, SeesParts, PartsFit, SeesMetadata
  <2>4. QED
    BY <1>1, <1>2, <1>3, <1>4, <1>5, <2>2, <2>3 DEF Consistent, DecisionIsOfOneMoment, Answered, At
<1>6. CASE call'.pc = "idle"
  <2>1. reply'.says \in {"nothing", "ImproperUserTokenError", "AttributeError", "AuthenticationFailed"}
    BY DEF Call
  <2>2. QED
    BY <1>6, <2>1 DEF Consistent, DecisionIsOfOneMoment, Answered, At
<1>7. QED
  BY <1>5, <1>6

LEMMA EndpointIsConsistent ==
    ASSUME MomentInv, ListingStep \/ DetailsStep
    PROVE  Consistent' /\ DecisionIsOfOneMoment'
<1> SUFFICES ASSUME edits' <= 1 PROVE Consistent' /\ DecisionIsOfOneMoment'
  BY DEF Consistent, DecisionIsOfOneMoment
<1>1. TypeInv /\ TypeInv'
  BY ListingKeepsType, DetailsKeepsType DEF MomentInv
<1>2. /\ call'.user = call.user /\ call.pc # "idle"
      /\ UNCHANGED <<present, role, granted, moments, edits>>
  BY <1>1, EndpointKeepsUser
<1>3. edits \in {0, 1}
  BY <1>1, <1>2, MaxEditsAssumption DEF TypeInv, TypeOK
<1>4. PICK m \in moments : Sees(m) /\ (edits = 0 => m = Now)
  BY <1>2, <1>3 DEF MomentInv, Consistent, At
<1>5. Outcome(m)'
  BY <1>1, <1>4, EndpointSees
<1>6. Now' = Now /\ Scopes(call.user)' = Scopes(call.user)
  BY <1>2 DEF Now, Moment, Scopes
<1>7. CASE call'.pc # "idle"
  <2>1. Sees(m)'
    BY <1>5, <1>7 DEF Outcome, At
  <2>2. edits = 0 => Sees(Now)'
    BY <1>4, <1>6, <2>1 DEF Sees, SeesNames, SeesInfos, SeesDataset, SeesRoles, SeesProduct,
                            SeesEntry, SeesParts, PartsFit, SeesMetadata
  <2>3. edits = 0 => call'.scopes = Scopes(call.user)
    BY <1>4, <2>1, NowIsNow DEF Sees
  <2>4. QED
    BY <1>2, <1>4, <1>6, <1>7, <2>1, <2>2, <2>3 DEF Consistent, DecisionIsOfOneMoment, Answered, At
<1>8. CASE call'.pc = "idle"
  <2>1. Fits(m)'
    BY <1>5, <1>8 DEF Outcome, At
  <2>2. edits = 0 => reply'.says # "KeyError"
    BY <1>1, <1>4, <1>8, NothingGone
  <2>3. QED
    BY <1>2, <1>3, <1>4, <1>8, <2>1, <2>2 DEF Consistent, DecisionIsOfOneMoment, Answered, Fits, At
<1>9. QED
  BY <1>7, <1>8

LEMMA OperatorIsConsistent ==
    ASSUME MomentInv, OperatorStep
    PROVE  Consistent' /\ DecisionIsOfOneMoment'
<1>1. call' = call /\ edits' = edits + 1 /\ ~At("idle") /\ edits \in Nat
  BY MaxEditsAssumption DEF OperatorStep, EditDataset, EditProduct, EditUser, Edit,
                            MomentInv, TypeInv, TypeOK
<1>2. DecisionIsOfOneMoment'
  BY <1>1 DEF DecisionIsOfOneMoment, Answered, At
<1>3. CASE edits = 0
  <2>1. \E m \in moments' : Sees(m)'
    BY <1>1, <1>3, EditSees DEF MomentInv, Consistent
  <2>2. QED
    BY <1>1, <1>2, <1>3, <2>1 DEF Consistent
<1>4. CASE edits # 0
  <2>1. ~(edits' <= 1)
    BY <1>1, <1>4
  <2>2. QED
    BY <1>2, <2>1 DEF Consistent
<1>5. QED
  BY <1>3, <1>4

LEMMA MomentsAreKept ==
    ASSUME MomentInv, [Next]_vars
    PROVE  MomentInv'
<1>1. TypeInv'
  <2>1. CASE UNCHANGED vars
    BY <2>1 DEF vars, MomentInv, TypeInv, TypeOK, CallType, OneCall, At
  <2>2. QED
    BY <2>1, ClientKeepsType, ListingKeepsType, DetailsKeepsType, OperatorKeepsType
       DEF Next, MomentInv
<1>2. CASE ClientCall
  BY <1>1, <1>2, CallIsConsistent DEF MomentInv, ClientCall, Ops
<1>3. CASE ListingStep \/ DetailsStep
  BY <1>1, <1>3, EndpointIsConsistent DEF MomentInv
<1>4. CASE OperatorStep
  BY <1>1, <1>4, OperatorIsConsistent DEF MomentInv
<1>5. CASE UNCHANGED vars
  <2> USE <1>5 DEF vars
  <2>1. Now' = Now /\ Scopes(call.user)' = Scopes(call.user)
    BY DEF Now, Moment, Scopes
  <2>2. \A m : Sees(m)' = Sees(m)
    BY DEF Sees, SeesNames, SeesInfos, SeesDataset, SeesRoles, SeesProduct, SeesMetadata,
           SeesEntry, SeesParts, PartsFit, Wanted, HasProduct, ProductList, At
  <2>3. Sees(Now)' = Sees(Now)
    BY <2>1 DEF Sees, SeesNames, SeesInfos, SeesDataset, SeesRoles, SeesProduct, SeesMetadata,
           SeesEntry, SeesParts, PartsFit, Wanted, HasProduct, ProductList, At
  <2>4. \A m : AnswerAt(m)' = AnswerAt(m)
    BY DEF AnswerAt
  <2>8. \A m, d, p, e, i : PartsFit(m, d, p, e, i)' = PartsFit(m, d, p, e, i)
    BY DEF PartsFit
  <2>5. Consistent'
    BY <2>1, <2>2, <2>3 DEF MomentInv, Consistent, At
  <2>6. DecisionIsOfOneMoment'
    BY <2>4, <2>8 DEF MomentInv, DecisionIsOfOneMoment, Answered, At
  <2>7. QED
    BY <1>1, <2>5, <2>6 DEF MomentInv
<1>6. QED
  BY <1>2, <1>3, <1>4, <1>5 DEF Next

LEMMA MomentsAlways == Spec => []MomentInv
<1>1. Init => MomentInv
  <2> SUFFICES ASSUME Init PROVE MomentInv
    OBVIOUS
  <2>1. call.pc = "idle" /\ reply.says = "nothing"
    BY DEF Init, Idle, Nothing
  <2>2. QED
    BY <2>1, InitType DEF MomentInv, Consistent, DecisionIsOfOneMoment, Answered, At
<1>2. MomentInv /\ [Next]_vars => MomentInv'
  BY MomentsAreKept
<1>3. QED
  BY <1>1, <1>2, PTL DEF Spec

(* What is answered is decided as at one moment of the call, or is a       *)
(* KeyError, and what the details say is of that moment or later, as long  *)
(* as the operator made one change or none meanwhile                       *)
(* (DecisionIsOfOneMoment).                                                *)
THEOREM DecisionIsAlwaysOfOneMoment == Spec => []DecisionIsOfOneMoment
<1>1. MomentInv => DecisionIsOfOneMoment
  BY DEF MomentInv
<1>2. QED
  BY <1>1, MomentsAlways, PTL

(* The listing takes for public what the details do, and a role key        *)
(* without a value besides.                                                *)
LEMMA TheRulesAgree ==
    ASSUME NEW m, NEW d, NEW p \in ProductsAt(m, d)
    PROVE  /\ p \in EligibleAt(m, d) => IsRoleEligible(m.role[d][p], m.scopes)
           /\ IsRoleEligible(m.role[d][p], m.scopes) =>
                 p \in EligibleAt(m, d) \/ m.role[d][p] = "null"
  BY DEF EligibleAt, ProductsAt, IsRoleEligible, IsProductValid

LEMMA OneMomentIsListed ==
    ASSUME TypeInv, DecisionIsOfOneMoment
    PROVE  ListedHasDetails
<1> DEFINE d == call.dataset
           p == call.product
<1>1. ASSUME At("idle"), edits <= 1, reply.op = "first", reply.says = "AuthorizationFailed"
      PROVE  \E m \in moments : \A q \in ProductsAt(m, d) :
                m.role[d][q] = "null" \/ <<d, q>> \notin ListingAt(m)
  <2>1. PICK m \in moments : <<reply.says, reply.shown>> = FirstAt(m, d)
    BY <1>1 DEF DecisionIsOfOneMoment, Answered, AnswerAt
  <2>2. EligibleAt(m, d) = {}
    BY <1>1, <2>1 DEF FirstAt
  <2>3. \A q \in ProductsAt(m, d) :
           m.role[d][q] = "null" \/ ~IsRoleEligible(m.role[d][q], m.scopes)
    BY <2>2, TheRulesAgree
  <2>4. \A q : <<d, q>> \in ListingAt(m) =>
                  q \in ProductsAt(m, d) /\ IsRoleEligible(m.role[d][q], m.scopes)
    BY DEF ListingAt
  <2>5. QED
    BY <2>3, <2>4
<1>2. ASSUME At("idle"), edits <= 1, reply.says = "details"
      PROVE  \E m \in moments : reply.shown \subseteq ListingAt(m)
  <2>1. PICK m \in moments : <<"details", reply.shown>> = AnswerAt(m)
    BY <1>2 DEF DecisionIsOfOneMoment, Answered
  <2>2. reply.op \in Ops
    BY <1>2 DEF TypeInv, OneCall, Nothing
  <2>3. PICK q \in EligibleAt(m, d) : d \in m.present /\ reply.shown = {<<d, q>>}
    <3>1. CASE reply.op = "datasets"
      BY <2>1, <3>1 DEF AnswerAt
    <3>2. CASE reply.op = "first"
      <4>1. <<"details", reply.shown>> = FirstAt(m, d)
        BY <2>1, <3>2 DEF AnswerAt
      <4>2. /\ EligibleAt(m, d) # {} /\ d \in m.present
            /\ reply.shown = {<<d, Min(EligibleAt(m, d))>>}
        BY <4>1 DEF FirstAt
      <4>3. EligibleAt(m, d) \in SUBSET Nat
        BY DEF EligibleAt, ProductsAt, Products
      <4>4. Min(EligibleAt(m, d)) \in EligibleAt(m, d)
        BY <4>2, <4>3, MinIsLeast
      <4>5. QED
        BY <4>2, <4>4
    <3>3. CASE reply.op \in {"details", "metadata"}
      <4>1. <<"details", reply.shown>> = NamedAt(m, reply.op, d, p)
        BY <2>1, <3>3 DEF AnswerAt
      <4>2. p \in EligibleAt(m, d) /\ d \in m.present /\ reply.shown = {<<d, p>>}
        BY <4>1 DEF NamedAt
      <4>3. QED
        BY <4>2
    <3>4. QED
      BY <2>2, <3>1, <3>2, <3>3 DEF Ops
  <2>4. q \in ProductsAt(m, d) /\ IsRoleEligible(m.role[d][q], m.scopes)
    <3>1. q \in ProductsAt(m, d)
      BY DEF EligibleAt
    <3>2. QED
      BY <3>1, TheRulesAgree
  <2>5. <<d, q>> \in ListingAt(m)
    BY <2>3, <2>4 DEF ListingAt
  <2>6. QED
    BY <2>3, <2>5
<1>3. QED
  BY <1>1, <1>2 DEF ListedHasDetails

(* Whoever is given the details of a product finds it in the listing, and  *)
(* whoever is told that no product of a dataset is for him finds none of   *)
(* them there, but for a role key without a value, which the two rules of  *)
(* eligibility take differently (ListedHasDetails).                        *)
THEOREM ListedAlwaysHasDetails == Spec => []ListedHasDetails
<1>1. MomentInv => ListedHasDetails
  BY OneMomentIsListed DEF MomentInv
<1>2. QED
  BY <1>1, MomentsAlways, PTL

------------------------------------------------------------------------------
(* Any number of changes.                                                  *)

(* Some moment of the call had the product c, for the caller's roles.      *)
WasAllowed(c) ==
    \E m \in moments :
        /\ c[1] \in m.present
        /\ c[2] \in ProductsAt(m, c[1])
        /\ IsRoleEligible(m.role[c[1]][c[2]], call.scopes)

(* Some moment of the call had the products f in dataset d.                *)
WasSo(d, f) == \E m \in moments : d \in m.present /\ m.role[d] = f

(* Every change is remembered, and what has been read so far was allowed.  *)
Remembered ==
    ~At("idle") =>
        /\ Now \in moments
        /\ \A c \in call.got : WasAllowed(c)
        /\ call.pc \in {"entry", "info", "data"} => WasAllowed(<<call.dataset, call.product>>)
        /\ At("data") => WasSo(call.dataset, call.info)

AllowedInv == TypeInv /\ Remembered /\ ShownWasAllowed

(* What is in the catalog now and open to the caller is allowed.           *)
LEMMA NowIsAllowed ==
    ASSUME Now \in moments, NEW d \in Datasets, NEW p, HasProduct(d, p),
           IsRoleEligible(role[d][p], call.scopes)
    PROVE  WasAllowed(<<d, p>>)
  BY NowIsNow DEF WasAllowed, HasProduct

LEMMA EndpointKeepsScopes ==
    ASSUME TypeInv, ListingStep \/ DetailsStep
    PROVE  /\ call'.scopes = call.scopes /\ call'.op = call.op /\ call'.dataset = call.dataset
           /\ call'.got = call.got \/ \E d \in Datasets : ReadInfo(d)
           /\ call'.product = call.product \/ CheckRole
<1> DEFINE Kept == /\ call'.scopes = call.scopes /\ call'.op = call.op
                   /\ call'.dataset = call.dataset
                   /\ call'.got = call.got \/ \E d \in Datasets : ReadInfo(d)
                   /\ call'.product = call.product \/ CheckRole
<1>1. ASSUME NEW says, NEW shown, Answer(says, shown) PROVE Kept
  BY <1>1 DEF Answer, AnswerWith, TypeInv, CallRecords
<1>2. ASSUME NEW label, Goto(label) PROVE Kept
  BY <1>2 DEF Goto, TypeInv, CallRecords
<1>3. CASE ReadNames
  BY <1>3 DEF ReadNames, TypeInv, CallRecords
<1>4. ASSUME NEW d \in Datasets, ReadInfo(d) PROVE Kept
  <2>1. CASE d \notin present
    BY <1>1, <1>4, <2>1 DEF ReadInfo, Gone
  <2>2. CASE d \in present
    <3>1. \E new : call' = [call EXCEPT !.todo = @ \ {d}, !.got = new]
      BY <1>4, <2>2 DEF ReadInfo
    <3>2. QED
      BY <1>4, <3>1 DEF TypeInv, CallRecords
  <2>3. QED
    BY <2>1, <2>2
<1>5. CASE FindDataset
  BY <1>1, <1>2, <1>5 DEF FindDataset
<1>6. CASE FindProduct
  BY <1>1, <1>6 DEF FindProduct, Gone, TypeInv, CallRecords
<1>7. CASE ReadProducts
  BY <1>1, <1>7 DEF ReadProducts, Gone, TypeInv, CallRecords
<1>8. CASE CheckRole
  BY <1>1, <1>8 DEF CheckRole, Gone, TypeInv, CallRecords
<1>9. CASE List \/ ReadMetadata
  BY <1>1, <1>9 DEF List, ReadMetadata, Gone
<1>11. CASE ReadEntry \/ ReadDatasetInfo
  BY <1>1, <1>11 DEF ReadEntry, ReadDatasetInfo, Gone, TypeInv, CallRecords
<1>12. CASE ReadData
  BY <1>1, <1>12 DEF ReadData, Gone, AnswerWith, TypeInv, CallRecords
<1>10. QED
  BY <1>3, <1>4, <1>5, <1>6, <1>7, <1>8, <1>9, <1>11, <1>12 DEF ListingStep, DetailsStep

(* What is in the call after a step was allowed.                           *)
LEMMA EndpointRemembers ==
    ASSUME AllowedInv, ListingStep \/ DetailsStep
    PROVE  Remembered'
<1> SUFFICES ASSUME call'.pc # "idle" PROVE Remembered'
  BY DEF Remembered, At
<1>1. /\ TypeInv /\ call'.user = call.user /\ call.pc # "idle"
      /\ UNCHANGED <<present, role, granted, moments, edits>>
  BY EndpointKeepsUser DEF AllowedInv
<1>2. /\ call'.scopes = call.scopes /\ call'.op = call.op /\ call'.dataset = call.dataset
      /\ call'.got = call.got \/ \E d \in Datasets : ReadInfo(d)
      /\ call'.product = call.product \/ CheckRole
  BY <1>1, EndpointKeepsScopes
<1>3. Now' = Now
  BY <1>1 DEF Now, Moment
<1>4. \A c : WasAllowed(c)' = WasAllowed(c)
  BY <1>1, <1>2 DEF WasAllowed
<1>5. /\ Now \in moments /\ \A c \in call.got : WasAllowed(c)
      /\ call.pc \in {"entry", "info", "data"} => WasAllowed(<<call.dataset, call.product>>)
  BY <1>1 DEF AllowedInv, Remembered, At
<1>6. \A c \in call'.got : WasAllowed(c)
  <2>1. CASE call'.got = call.got
    BY <1>5, <2>1
  <2>2. ASSUME NEW d \in Datasets, ReadInfo(d) PROVE \A c \in call'.got : WasAllowed(c)
    <3> DEFINE new == {<<d, p>> : p \in {q \in ProductList(d) :
                                  IsRoleEligible(role[d][q], call.scopes)}}
    <3>1. d \in present
      BY <1>1, <2>2 DEF ReadInfo, Gone, Answer, AnswerWith, CallRecords, TypeInv
    <3>2. \A c \in new : WasAllowed(c)
      <4> SUFFICES ASSUME NEW p \in ProductList(d), IsRoleEligible(role[d][p], call.scopes)
                   PROVE  WasAllowed(<<d, p>>)
        OBVIOUS
      <4>1. HasProduct(d, p)
        BY <3>1 DEF HasProduct
      <4>2. QED
        BY <1>5, <4>1, NowIsAllowed
    <3>3. call' = [call EXCEPT !.todo = @ \ {d}, !.got = @ \cup new]
      BY <2>2, <3>1 DEF ReadInfo
    <3> HIDE DEF new
    <3>4. call'.got = call.got \cup new
      BY <1>1, <3>3 DEF TypeInv, CallRecords
    <3>5. QED
      BY <1>5, <3>2, <3>4
  <2>3. QED
    BY <1>2, <2>1, <2>2
<1>7. call'.pc \in {"entry", "info", "data"} => WasAllowed(<<call'.dataset, call'.product>>)
  <2> SUFFICES ASSUME call'.pc \in {"entry", "info", "data"}
               PROVE  WasAllowed(<<call.dataset, call'.product>>)
    BY <1>2
  <2>1. CASE CheckRole
    <3> DEFINE p == Min(call.todo)
    <3>1. /\ HasProduct(call.dataset, p) /\ IsProductValid(role[call.dataset][p], call.scopes)
          /\ call' = [call EXCEPT !.pc = "entry", !.product = p]
      <4>1. ASSUME NEW says, Answer(says, {}) PROVE FALSE
        BY <1>1, <4>1 DEF Answer, AnswerWith, TypeInv, CallRecords
      <4>2. call.todo # {} /\ HasProduct(call.dataset, p)
        BY <2>1, <4>1 DEF CheckRole, Gone
      <4>3. CASE ~IsProductValid(role[call.dataset][p], call.scopes)
        BY <1>1, <2>1, <4>1, <4>2, <4>3 DEF CheckRole, TypeInv, CallRecords, At
      <4>4. QED
        BY <2>1, <4>2, <4>3 DEF CheckRole
    <3> HIDE DEF p
    <3>2. call'.product = p
      BY <1>1, <3>1 DEF TypeInv, CallRecords
    <3>3. call.dataset \in Datasets /\ IsRoleEligible(role[call.dataset][p], call.scopes)
      BY <1>1, <2>1, <3>1 DEF TypeInv, CallType, CheckRole, At, IsProductValid, IsRoleEligible
    <3>4. QED
      BY <1>5, <3>1, <3>2, <3>3, NowIsAllowed
  <2>2. CASE ReadEntry \/ ReadDatasetInfo \/ ReadData
    BY <1>2, <1>5, <2>2 DEF ReadEntry, ReadDatasetInfo, ReadData, CheckRole, At
  <2>3. CASE FindDataset
    BY <1>1, <2>3 DEF FindDataset, Goto, Answer, AnswerWith, TypeInv, CallRecords
  <2>4. CASE ReadNames \/ List \/ \E d \in Datasets : ReadInfo(d)
    BY <1>1, <2>4 DEF ReadNames, List, ReadInfo, Gone, Answer, AnswerWith, TypeInv, CallRecords, At
  <2>5. CASE FindProduct
    BY <1>1, <2>5 DEF FindProduct, Gone, Answer, AnswerWith, TypeInv, CallRecords
  <2>6. CASE ReadProducts
    BY <1>1, <2>6 DEF ReadProducts, Gone, Answer, AnswerWith, TypeInv, CallRecords
  <2>7. CASE ReadMetadata
    BY <1>1, <2>7 DEF ReadMetadata, Gone, Answer, AnswerWith, TypeInv, CallRecords
  <2>8. QED
    BY <2>1, <2>2, <2>3, <2>4, <2>5, <2>6, <2>7 DEF ListingStep, DetailsStep
<1>11. call'.pc = "data" => WasSo(call'.dataset, call'.info)
  <2> SUFFICES ASSUME call'.pc = "data" PROVE WasSo(call.dataset, call'.info)
    BY <1>2
  <2>1. CASE ReadDatasetInfo
    <3>1. /\ call.dataset \in present
          /\ call' = [call EXCEPT !.pc = "data", !.info = role[call.dataset]]
      BY <1>1, <2>1 DEF ReadDatasetInfo, Gone, Answer, AnswerWith, TypeInv, CallRecords
    <3>2. call'.info = role[call.dataset]
      BY <1>1, <3>1 DEF TypeInv, CallRecords
    <3>3. QED
      BY <1>5, <3>1, <3>2, NowIsNow DEF WasSo
  <2>2. CASE ReadEntry
    BY <1>1, <2>2 DEF ReadEntry, Gone, Answer, AnswerWith, TypeInv, CallRecords
  <2>3. CASE CheckRole
    BY <1>1, <2>3 DEF CheckRole, Gone, Answer, AnswerWith, TypeInv, CallRecords, At
  <2>4. CASE ReadNames \/ List \/ \E d \in Datasets : ReadInfo(d)
    BY <1>1, <2>4 DEF ReadNames, List, ReadInfo, Gone, Answer, AnswerWith, TypeInv,
                      CallRecords, At
  <2>5. CASE FindDataset \/ FindProduct
    BY <1>1, <2>5 DEF FindDataset, FindProduct, Goto, Gone, Answer, AnswerWith, TypeInv,
                      CallRecords
  <2>6. CASE ReadProducts \/ ReadMetadata \/ ReadData
    BY <1>1, <2>6 DEF ReadProducts, ReadMetadata, ReadData, Gone, Answer, AnswerWith,
                      TypeInv, CallRecords
  <2>7. QED
    BY <2>1, <2>2, <2>3, <2>4, <2>5, <2>6 DEF ListingStep, DetailsStep
<1>12. WasSo(call.dataset, call.info)' <=> WasSo(call'.dataset, call'.info)
  BY <1>1 DEF WasSo
<1>8. WasAllowed(<<call.dataset, call.product>>)' <=> WasAllowed(<<call'.dataset, call'.product>>)
  BY <1>1, <1>2 DEF WasAllowed
<1>9. \A c \in call'.got : WasAllowed(c)'
  BY <1>4, <1>6
<1>10. QED
  BY <1>1, <1>3, <1>5, <1>7, <1>8, <1>9, <1>11, <1>12 DEF Remembered, At

(* What an answer shows was allowed.                                       *)
LEMMA EndpointShowsAllowed ==
    ASSUME AllowedInv, ListingStep \/ DetailsStep
    PROVE  ShownWasAllowed'
<1> SUFFICES ASSUME call'.pc = "idle" PROVE ShownWasAllowed'
  BY DEF ShownWasAllowed, Answered, At
<1>1. /\ TypeInv /\ call.pc # "idle"
      /\ UNCHANGED <<present, role, granted, moments, edits>>
  BY EndpointKeepsUser DEF AllowedInv
<1>2. /\ Now \in moments /\ \A c \in call.got : WasAllowed(c)
      /\ call.pc \in {"entry", "info", "data"} => WasAllowed(<<call.dataset, call.product>>)
      /\ At("data") => WasSo(call.dataset, call.info)
  BY <1>1 DEF AllowedInv, Remembered, At
<1>3. ASSUME NEW says, NEW shown, NEW entry, NEW info, AnswerWith(says, shown, entry, info),
             says = "details" => \A c \in shown : WasSo(c[1], info),
             call.op # "metadata" => \A c \in shown : WasAllowed(c),
             call.op = "metadata" =>
                \A c \in shown : \E m \in moments :
                   c[1] \in m.present /\ c[2] \in ProductsAt(m, c[1])
      PROVE  ShownWasAllowed'
  <2>1. /\ reply'.shown = shown /\ reply'.op = call.op /\ call'.scopes = call.scopes
        /\ reply'.says = says /\ reply'.info = info
    BY <1>1, <1>3 DEF AnswerWith, TypeInv, CallRecords
  <2>2. QED
    BY <1>1, <1>3, <2>1 DEF ShownWasAllowed, WasAllowed, WasSo
<1>4. ASSUME NEW says, Answer(says, {}) PROVE ShownWasAllowed'
  BY <1>3, <1>4 DEF Answer
<1>5. ASSUME Goto("product") \/ Goto("products") PROVE FALSE
  BY <1>1, <1>5 DEF Goto, TypeInv, CallRecords
<1>6. CASE ReadNames
  BY <1>1, <1>6 DEF ReadNames, TypeInv, CallRecords
<1>7. ASSUME NEW d \in Datasets, ReadInfo(d) PROVE ShownWasAllowed'
  <2>1. d \notin present
    BY <1>1, <1>7 DEF ReadInfo, At, TypeInv, CallRecords
  <2>2. QED
    BY <1>4, <1>7, <2>1 DEF ReadInfo, Gone
<1>8. CASE List
  <2>1. call.op = "datasets" /\ Answer("listing", call.got)
    BY <1>1, <1>8 DEF List, TypeInv, CallType, At
  <2>2. QED
    BY <1>2, <1>3, <2>1 DEF Answer
<1>9. CASE FindDataset
  BY <1>4, <1>5, <1>9 DEF FindDataset
<1>10. CASE FindProduct
  BY <1>1, <1>4, <1>10 DEF FindProduct, Gone, TypeInv, CallRecords
<1>11. CASE ReadProducts
  BY <1>1, <1>4, <1>11 DEF ReadProducts, Gone, TypeInv, CallRecords
<1>12. CASE CheckRole
  BY <1>1, <1>4, <1>12 DEF CheckRole, Gone, TypeInv, CallRecords, At
<1>13. CASE ReadEntry \/ ReadDatasetInfo
  BY <1>1, <1>4, <1>13 DEF ReadEntry, ReadDatasetInfo, Gone, TypeInv, CallRecords
<1>14. CASE ReadData
  <2>1. /\ WasAllowed(<<call.dataset, call.product>>) /\ call.op # "metadata"
        /\ WasSo(call.dataset, call.info)
    BY <1>1, <1>2, <1>14 DEF ReadData, At, TypeInv, CallType
  <2>2. CASE AnswerWith("details", {<<call.dataset, call.product>>}, call.entry, call.info)
    BY <1>3, <2>1, <2>2
  <2>3. QED
    BY <1>4, <1>14, <2>2 DEF ReadData, Gone
<1>15. CASE ReadMetadata
  <2>1. CASE HasProduct(call.dataset, call.product)
    <3> DEFINE c == <<call.dataset, call.product>>
    <3>1. call.op = "metadata" /\ call.dataset \in Datasets /\ Answer("metadata", {c})
      BY <1>1, <1>15, <2>1 DEF ReadMetadata, At, TypeInv, CallType
    <3>2. call.dataset \in Now.present /\ call.product \in ProductsAt(Now, call.dataset)
      BY <2>1, <3>1, NowIsNow DEF HasProduct
    <3>3. \E m \in moments : c[1] \in m.present /\ c[2] \in ProductsAt(m, c[1])
      BY <1>2, <3>2
    <3> HIDE DEF c
    <3>4. QED
      BY <1>3, <3>1, <3>3 DEF Answer
  <2>2. QED
    BY <1>4, <1>15, <2>1 DEF ReadMetadata, Gone
<1>16. QED
  BY <1>6, <1>7, <1>8, <1>9, <1>10, <1>11, <1>12, <1>13, <1>14, <1>15
     DEF ListingStep, DetailsStep

LEMMA CallIsAllowed ==
    ASSUME TypeInv, NEW op \in Ops, NEW d, NEW p, NEW u \in Users \cup NotUsers, Call(op, d, p, u)
    PROVE  Remembered' /\ ShownWasAllowed'
<1>1. /\ call'.pc \in {"idle", "names", "dataset"} /\ call'.got = {} /\ call'.user = u
      /\ moments' = {Moment(u)} /\ UNCHANGED <<present, role, granted>> /\ reply'.shown = {}
  BY DEF Call, FirstStep
<1>2. Now' = Moment(u)
  BY <1>1 DEF Now, Moment
<1>3. Remembered'
  BY <1>1, <1>2 DEF Remembered, At
<1>4. reply'.says # "details"
  BY DEF Call
<1>5. QED
  BY <1>1, <1>3, <1>4 DEF ShownWasAllowed

LEMMA OperatorIsAllowed ==
    ASSUME AllowedInv, OperatorStep
    PROVE  Remembered' /\ ShownWasAllowed'
<1>1. UNCHANGED <<call, reply>> /\ ~At("idle") /\ moments' = moments \cup {Now'}
  BY DEF OperatorStep, EditDataset, EditProduct, EditUser, Edit, Remember, Now
<1>2. \A c : WasAllowed(c) => WasAllowed(c)'
  BY <1>1 DEF WasAllowed
<1>3. WasAllowed(<<call.dataset, call.product>>) => WasAllowed(<<call.dataset, call.product>>)'
  BY <1>1 DEF WasAllowed
<1>6. WasSo(call.dataset, call.info) => WasSo(call.dataset, call.info)'
  BY <1>1 DEF WasSo
<1>4. Remembered'
  BY <1>1, <1>2, <1>3, <1>6 DEF AllowedInv, Remembered, At
<1>5. QED
  BY <1>1, <1>4 DEF ShownWasAllowed, Answered, At

(* However often the operator changes the catalog during a call, each      *)
(* product that is listed or whose details are given was there, and open   *)
(* to the caller's roles, at one moment of the call; and the dataset is    *)
(* described with all the products it had at one moment (ShownWasAllowed). *)
THEOREM ShownWasAlwaysAllowed == Spec => []ShownWasAllowed
<1>1. Init => AllowedInv
  <2> SUFFICES ASSUME Init PROVE AllowedInv
    OBVIOUS
  <2>1. call.pc = "idle" /\ reply.shown = {}
    BY DEF Init, Idle, Nothing
  <2>2. QED
    BY <2>1, InitType DEF AllowedInv, Remembered, ShownWasAllowed, At
<1>2. AllowedInv /\ [Next]_vars => AllowedInv'
  <2> SUFFICES ASSUME AllowedInv, [Next]_vars PROVE AllowedInv'
    OBVIOUS
  <2>1. TypeInv'
    <3>1. CASE UNCHANGED vars
      BY <3>1 DEF vars, AllowedInv, TypeInv, TypeOK, CallType, OneCall, At
    <3>2. QED
      BY <3>1, ClientKeepsType, ListingKeepsType, DetailsKeepsType, OperatorKeepsType
         DEF Next, AllowedInv
  <2>2. CASE ClientCall
    BY <2>1, <2>2, CallIsAllowed DEF AllowedInv, ClientCall, Ops
  <2>3. CASE ListingStep \/ DetailsStep
    BY <2>1, <2>3, EndpointRemembers, EndpointShowsAllowed DEF AllowedInv
  <2>4. CASE OperatorStep
    BY <2>1, <2>4, OperatorIsAllowed DEF AllowedInv
  <2>5. CASE UNCHANGED vars
    <3> USE <2>5 DEF vars
    <3>1. Now' = Now
      BY DEF Now, Moment
    <3>2. \A c : WasAllowed(c)' = WasAllowed(c)
      BY DEF WasAllowed
    <3>3. WasAllowed(<<call.dataset, call.product>>)' = WasAllowed(<<call.dataset, call.product>>)
      BY DEF WasAllowed
    <3>7. WasSo(call.dataset, call.info)' = WasSo(call.dataset, call.info)
      BY DEF WasSo
    <3>4. Remembered'
      BY <3>1, <3>2, <3>3, <3>7 DEF AllowedInv, Remembered, At
    <3>5. ShownWasAllowed'
      BY DEF AllowedInv, ShownWasAllowed, Answered, At
    <3>6. QED
      BY <2>1, <3>4, <3>5 DEF AllowedInv
  <2>6. QED
    BY <2>2, <2>3, <2>4, <2>5 DEF Next
<1>3. AllowedInv => ShownWasAllowed
  BY DEF AllowedInv
<1>4. QED
  BY <1>1, <1>2, <1>3, PTL DEF Spec
====

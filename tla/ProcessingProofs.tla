---------------------------- MODULE ProcessingProofs ----------------------------
(***************************************************************************)
(* Theorems about Processing, for every number of datacubes, of deliveries *)
(* and of changes of the data: a query survives its way to the executor,   *)
(* what process() returns is complete, and while the data stay as they are *)
(* every attempt comes to the same and leaves nothing else behind.         *)
(***************************************************************************)
EXTENDS Processing, FiniteSetTheorems, WellFoundedInduction, TLAPS

(* A set of numbers has a least element, and Min is it.                    *)
LEMMA MinIsLeast ==
    ASSUME NEW S \in SUBSET Nat, S # {}
    PROVE  Min(S) \in S /\ \A n \in S : Min(S) <= n
<1> DEFINE Less == OpToRel(<, Nat)
<1>1. IsWellFoundedOn(Less, Nat)
  BY NatLessThanWellFounded
<1>2. PICK m \in S : \A n \in S : <<n, m>> \notin Less
  <2> HIDE DEF Less
  <2> QED
    BY <1>1, WFMin
<1>3. \A n \in S : ~(n < m)
  BY <1>2 DEF OpToRel
<1>4. \A n \in S : m <= n
  BY <1>3
<1>5. QED
  BY <1>4 DEF Min

------------------------------------------------------------------------------
(* The way of a query.                                                     *)

(* A JSON object is a function of its names.                               *)
IsObject(f) == f = [name \in DOMAIN f |-> f[name]]

(* What the constructor makes of anything.                                 *)
IsQuery(q) ==
    /\ q = [fields |-> q.fields, filters |-> q.filters, nested |-> q.nested, extra |-> q.extra]
    /\ IsObject(q.fields) /\ DOMAIN q.fields = Fields
    /\ q.filters \in {"null", "given"}
    /\ IsObject(q.extra) /\ DOMAIN q.extra \cap Fields = {}

LEMMA ParsedIsQuery ==
    ASSUME NEW o
    PROVE  IsQuery(Parse(o))
<1> DEFINE others == On(o.plain, DOMAIN o.plain \ Fields)
<1>1. IsObject(others) /\ DOMAIN others \cap Fields = {}
  BY DEF IsObject, On, Restrict
<1>2. IsObject(Empty) /\ DOMAIN Empty = {}
  BY DEF IsObject, Empty
<1> HIDE DEF others
<1>3. IsObject([name \in Fields |-> Get(o.plain, name)])
  BY DEF IsObject
<1>4. QED
  BY <1>1, <1>2, <1>3 DEF Parse, IsQuery, others

(* The message: parsing what query.json() writes gives the query again.    *)
LEMMA ParseOfJson ==
    ASSUME NEW q, IsQuery(q)
    PROVE  Parse(Json(q)) = q
<1> DEFINE o == Json(q)
           others == On(o.plain, DOMAIN o.plain \ Fields)
<1>1. /\ o.plain = Join(q.fields, q.extra) /\ o.filters = q.filters /\ o.nested = q.nested
      /\ DOMAIN o.plain = Fields \cup DOMAIN q.extra
  BY DEF Json, Object, Join, IsQuery
<1>2. \A name \in Fields : Get(o.plain, name) = q.fields[name]
  BY <1>1 DEF Get, Join, IsQuery
<1>3. [name \in Fields |-> Get(o.plain, name)] = q.fields
  BY <1>2 DEF IsQuery, IsObject
<1>4. others = q.extra
  <2>1. DOMAIN others = DOMAIN q.extra /\ IsObject(others)
    BY <1>1 DEF IsQuery, IsObject, On, Restrict
  <2>2. \A name \in DOMAIN q.extra : others[name] = q.extra[name]
    BY <1>1 DEF IsQuery, Join, On, Restrict
  <2> HIDE DEF others
  <2>3. QED
    BY <2>1, <2>2 DEF IsObject, IsQuery
<1>5. o.filters \in {"null", "given"}
  BY <1>1 DEF IsQuery
<1> HIDE DEF o
<1>6. Parse(o) = [fields |-> q.fields, filters |-> q.filters, nested |-> q.nested,
                  extra |-> q.extra]
  BY <1>1, <1>3, <1>4, <1>5 DEF Parse
<1>7. QED
  BY <1>6 DEF IsQuery, o

(* ... and it does not raise, if the query has not both of area and        *)
(* location.                                                               *)
LEMMA JsonRaises ==
    ASSUME NEW q, IsQuery(q)
    PROVE  ParseRaises(Json(q)) <=> q.fields["area"] # "null" /\ q.fields["location"] # "null"
<1>1. Json(q).plain = Join(q.fields, q.extra)
  BY DEF Json, Object
<1>2. \A name \in Fields : Get(Json(q).plain, name) = q.fields[name]
  BY <1>1 DEF Get, Join, IsQuery
<1>3. QED
  BY <1>2 DEF ParseRaises, Fields

LEMMA ParsedRaises ==
    ASSUME NEW o, ~ParseRaises(o)
    PROVE  ~ParseRaises(Json(Parse(o)))
<1>1. \A name \in Fields : Parse(o).fields[name] = Get(o.plain, name)
  BY DEF Parse
<1>2. QED
  BY <1>1, ParsedIsQuery, JsonRaises DEF ParseRaises, Fields

(* The row: submitting original_query_json() again gives the query, when   *)
(* none of its filters is null or named "filters", and none of its names   *)
(* is beside them.                                                         *)
LEMMA ParseOfOriginal ==
    ASSUME NEW q, IsQuery(q), IsObject(q.nested), ~OriginalRaises(q), DOMAIN q.extra = {},
           "filters" \notin DOMAIN q.nested,
           \A name \in DOMAIN q.nested : q.nested[name] # "null"
    PROVE  Parse(OriginalJson(q)) = q
<1> DEFINE all == Join(q.nested, Join(q.fields, q.extra))
           some == {name \in DOMAIN all : all[name] # "null"}
           plain == On(all, some)
           others == On(plain, DOMAIN plain \ Fields)
<1>1. DOMAIN all = DOMAIN q.nested \cup Fields
  BY DEF Join, IsQuery
<1>2. q.filters = "given" /\ DOMAIN q.nested \cap Fields = {}
  BY DEF OriginalRaises, IsQuery
<1>3. \A name \in Fields : all[name] = q.fields[name]
  BY <1>2 DEF Join, IsQuery
<1>4. \A name \in DOMAIN q.nested : all[name] = q.nested[name]
  BY DEF Join
<1> HIDE DEF all
<1>5. DOMAIN plain = some /\ \A name \in some : plain[name] = all[name]
  BY DEF On, Restrict
<1> HIDE DEF plain
<1>6. [name \in Fields |-> Get(plain, name)] = q.fields
  <2>1. \A name \in Fields : Get(plain, name) = q.fields[name]
    BY <1>1, <1>3, <1>5 DEF Get
  <2>2. QED
    BY <2>1 DEF IsQuery, IsObject
<1>7. others = q.nested
  <2>1. DOMAIN plain \ Fields = DOMAIN q.nested
    BY <1>1, <1>2, <1>4, <1>5
  <2>2. DOMAIN others = DOMAIN q.nested /\ IsObject(others)
    BY <2>1 DEF IsObject, On, Restrict
  <2>3. \A name \in DOMAIN q.nested : others[name] = q.nested[name]
    BY <1>4, <1>5, <2>1 DEF On, Restrict
  <2> HIDE DEF others
  <2>4. QED
    BY <2>2, <2>3 DEF IsObject
<1>8. q.extra = Empty
  BY DEF IsQuery, IsObject, Empty
<1>9. OriginalJson(q) = Object(plain, "absent", Empty)
  <2>1. "filters" \notin Fields
    BY DEF Fields
  <2>2. "filters" \notin some
    BY <1>1, <2>1
  <2>3. QED
    BY <2>2 DEF OriginalJson, plain, all
<1>10. Parse(OriginalJson(q)) = [fields |-> q.fields, filters |-> "given", nested |-> q.nested,
                                 extra |-> Empty]
  BY <1>6, <1>7, <1>9 DEF Parse, Object
<1>11. QED
  BY <1>2, <1>8, <1>10 DEF IsQuery

(* The queries the API makes of a body ...                                 *)
LEMMA BodyQuery ==
    ASSUME NEW o \in Bodies
    PROVE  /\ IsObject(Parse(o).nested)
           /\ Parse(o).fields["format"] \in Formats \cup {"null"}
           /\ Parse(o).fields["format_args"] \in {"null", "value", "split"}
<1> DEFINE areas == {"area", "location"}
           texts == {"format_args", "pasture"}
           formats == {"null", "netcdf", "png", "zarr"}
           filters == {Join(f, g) : f \in Partials({"pasture"}, {"null", "value", "split"}),
                                    g \in Partials({"area", "filters"}, {"value"})}
<1>1. PICK a \in Partials(areas, {"null", "value"}),
           t \in Partials(texts, {"null", "value", "split"}),
           g \in Partials({"format"}, formats),
           tag \in {"absent", "null", "given"}, h \in filters \cup {Empty} :
              o = Object(Join(Join(a, t), g), tag, h)
  BY DEF Bodies
<1>2. PICK S \in SUBSET areas : a \in [S -> {"null", "value"}]
  BY DEF Partials
<1>3. PICK T \in SUBSET texts : t \in [T -> {"null", "value", "split"}]
  BY DEF Partials
<1>4. PICK U \in SUBSET {"format"} : g \in [U -> formats]
  BY DEF Partials
<1>5. IsObject(h)
  <2>1. \A f, g1 : IsObject(Join(f, g1))
    BY DEF Join, IsObject
  <2>2. IsObject(Empty)
    BY DEF IsObject, Empty
  <2>3. QED
    BY <2>1, <2>2
<1> DEFINE p == Join(Join(a, t), g)
<1>6. /\ DOMAIN Join(a, t) = S \cup T
      /\ \A name \in T \ S : Join(a, t)[name] = t[name]
  BY <1>2, <1>3 DEF Join
<1>7. /\ DOMAIN p = S \cup T \cup U
      /\ \A name \in S \cup T : p[name] = Join(a, t)[name]
      /\ \A name \in U \ (S \cup T) : p[name] = g[name]
  BY <1>4, <1>6 DEF Join
<1> HIDE DEF p
<1>8. Get(p, "format") \in formats
  <2>1. "format" \notin S \cup T
    OBVIOUS
  <2>2. QED
    BY <1>4, <1>7, <2>1 DEF Get
<1>9. Get(p, "format_args") \in {"null", "value", "split"}
  <2>1. "format_args" \notin S /\ "format_args" \notin U
    OBVIOUS
  <2>2. "format_args" \in T => p["format_args"] = t["format_args"]
    BY <1>6, <1>7, <2>1
  <2>3. QED
    BY <1>3, <1>7, <2>1, <2>2 DEF Get
<1>10. o.plain = p /\ o.nested = h
  BY <1>1 DEF Object, p
<1>11. IsObject(Parse(o).nested)
  BY <1>5, <1>10 DEF Parse, IsObject, On, Restrict
<1>12. QED
  BY <1>8, <1>9, <1>10, <1>11 DEF Parse, Fields, Formats

(* ... and of a path.                                                      *)
LEMMA MapQuery ==
    ASSUME NEW format \in {"png", "geojson"}, NEW bbox \in BOOLEAN,
           NEW value, NEW filters \in {Empty, [pasture |-> value]}
    PROVE  LET q == MapToGeoquery(format, bbox, filters) IN
           /\ IsQuery(q) /\ IsObject(q.nested) /\ ~ParseRaises(Json(q))
           /\ q.fields["format"] \in Formats \cup {"null"}
           /\ q.fields["format_args"] \in {"null", "value"}
<1> DEFINE o == Object([area |-> IF bbox THEN "value" ELSE "null",
                        format |-> format, format_args |-> "value"],
                       IF filters = Empty THEN "absent" ELSE "given", filters)
<1>1. /\ o.plain = [area |-> IF bbox THEN "value" ELSE "null",
                    format |-> format, format_args |-> "value"]
      /\ o.nested = filters
  BY DEF Object
<1>2. Get(o.plain, "location") = "null" /\ Get(o.plain, "format") = format
      /\ Get(o.plain, "format_args") = "value"
  BY <1>1 DEF Get
<1>3. IsObject(filters)
  BY DEF IsObject, Empty
<1>4. MapToGeoquery(format, bbox, filters) = Parse(o)
  BY DEF MapToGeoquery
<1> HIDE DEF o
<1>5. ~ParseRaises(o)
  BY <1>2 DEF ParseRaises
<1>6. IsObject(Parse(o).nested)
  BY <1>1, <1>3 DEF Parse, IsObject, On, Restrict
<1>7. Parse(o).fields["format"] = format /\ Parse(o).fields["format_args"] = "value"
  BY <1>2 DEF Parse, Fields
<1>8. QED
  BY <1>4, <1>5, <1>6, <1>7, ParsedIsQuery, ParsedRaises DEF Formats

(* What is put into the row and the message is the query.                  *)
LEMMA SendKeepsQuery ==
    ASSUME NEW q, IsQuery(q), IsObject(q.nested), ~ParseRaises(Json(q)), Send(q)
    PROVE  MessageKeepsQuery' /\ RowKeepsQuery'
<1>1. CASE OriginalRaises(q)
  BY <1>1 DEF Send, Refuse, MessageKeepsQuery, RowKeepsQuery
<1>2. CASE ~OriginalRaises(q)
  <2>1. /\ submitted'.query = q /\ submitted'.got = Parse(Json(q))
        /\ submitted'.raises = MessageRaises(Json(q))
        /\ submitted'.row = Parse(OriginalJson(q))
    BY <1>2 DEF Send
  <2>2. MessageKeepsQuery'
    BY <2>1, ParseOfJson DEF MessageKeepsQuery, MessageRaises
  <2>3. \/ Parse(OriginalJson(q)) = q
        \/ DOMAIN q.extra # {}
        \/ "filters" \in DOMAIN q.nested
        \/ \E name \in DOMAIN q.nested : q.nested[name] = "null"
    BY <1>2, ParseOfOriginal
  <2>4. RowKeepsQuery'
    BY <2>1, <2>3 DEF RowKeepsQuery
  <2>5. QED
    BY <2>2, <2>4
<1>3. QED
  BY <1>1, <1>2

LEMMA SubmissionKeepsQuery ==
    ASSUME Submission
    PROVE  MessageKeepsQuery' /\ RowKeepsQuery'
<1>1. ASSUME NEW outcome \in {"KeyError", "TypeError", "IndexError"}, Refuse(outcome)
      PROVE  MessageKeepsQuery' /\ RowKeepsQuery'
  BY <1>1 DEF Refuse, MessageKeepsQuery, RowKeepsQuery
<1>2. ASSUME NEW o \in Bodies, SubmitBody(o) PROVE MessageKeepsQuery' /\ RowKeepsQuery'
  <2>1. CASE ParseRaises(o)
    BY <1>1, <1>2, <2>1 DEF SubmitBody
  <2>2. CASE ~ParseRaises(o)
    BY <1>2, <2>2, ParsedIsQuery, ParsedRaises, BodyQuery, SendKeepsQuery DEF SubmitBody
  <2>3. QED
    BY <2>1, <2>2
<1>3. ASSUME NEW format \in {"png", "geojson"}, NEW bbox \in BOOLEAN,
             NEW values \in 0..2, NEW names \in 0..2, NEW value \in {"value", "split"},
             SubmitMap(format, bbox, values, names, value)
      PROVE  MessageKeepsQuery' /\ RowKeepsQuery'
  <2> DEFINE filters == IF values = 0 THEN Empty ELSE [pasture |-> value]
  <2>1. CASE FilterRaises(values, names)
    BY <1>1, <1>3, <2>1 DEF SubmitMap
  <2>2. CASE ~FilterRaises(values, names)
    <3>1. Send(MapToGeoquery(format, bbox, filters))
      BY <1>3, <2>2 DEF SubmitMap
    <3>2. QED
      BY <3>1, MapQuery, SendKeepsQuery
  <2>3. QED
    BY <2>1, <2>2
<1>4. ASSUME NEW splits \in BOOLEAN, SubmitWorkflow(splits), submitted = Nothing
      PROVE  MessageKeepsQuery' /\ RowKeepsQuery'
  BY <1>4 DEF SubmitWorkflow, Nothing, MessageKeepsQuery, RowKeepsQuery
<1>5. QED
  BY <1>2, <1>3, <1>4 DEF Submission

LEMMA QueryIsKept ==
    ASSUME MessageKeepsQuery, RowKeepsQuery, [Next]_vars
    PROVE  MessageKeepsQuery' /\ RowKeepsQuery'
<1>1. CASE Submission
  BY <1>1, SubmissionKeepsQuery
<1>2. ASSUME NEW k \in Kinds, Deliver(k) PROVE MessageKeepsQuery' /\ RowKeepsQuery'
  BY <1>2 DEF Deliver, Nothing, MessageKeepsQuery, RowKeepsQuery
<1>3. CASE submitted' = submitted
  BY <1>3 DEF MessageKeepsQuery, RowKeepsQuery
<1>4. PersistStep => submitted' = submitted
  BY DEF PersistStep, StartPersist, OpenCube, CloseCube, OpenPart, ClosePart, Collect,
         CloseArchive, RemovePart, PersistFails, CommitRow, Steady
<1>5. Crash => submitted' = submitted
  BY DEF Crash, Steady
<1>6. ASSUME NEW i \in Cubes, NEW content \in {"data", "empty"}, ChangeData(i, content)
      PROVE  submitted' = submitted
  BY <1>6 DEF ChangeData
<1>7. UNCHANGED vars => submitted' = submitted
  BY DEF vars
<1>8. QED
  BY <1>1, <1>2, <1>3, <1>4, <1>5, <1>6, <1>7 DEF Next

LEMMA QueryAlways == Spec => [](MessageKeepsQuery /\ RowKeepsQuery)
<1>1. Init => MessageKeepsQuery /\ RowKeepsQuery
  BY DEF Init, Nothing, MessageKeepsQuery, RowKeepsQuery
<1>2. (MessageKeepsQuery /\ RowKeepsQuery) /\ [Next]_vars
         => (MessageKeepsQuery /\ RowKeepsQuery)'
  BY QueryIsKept
<1>3. QED
  BY <1>1, <1>2, PTL DEF Spec

(* Whatever body is accepted, and whatever path of a map, the executor     *)
(* works on the query the API has made of it, unless its JSON holds the    *)
(* separator: then the executor cannot read it at all (MessageKeepsQuery). *)
THEOREM MessageAlwaysKeepsQuery == Spec => []MessageKeepsQuery
  BY QueryAlways, PTL

(* The query column of the row means the same query when it is submitted   *)
(* again, but for filters that are null or named "filters", and for names  *)
(* beside the filters (RowKeepsQuery).                                     *)
THEOREM RowAlwaysKeepsQuery == Spec => []RowKeepsQuery
  BY QueryAlways, PTL

------------------------------------------------------------------------------
(* Types.                                                                  *)

Contents == SUBSET (Files \X (0..MaxChanges))

FileRecords == [is : {"absent", "partial", "complete"}, holds : Contents]

Runs ==
    [pc : {"new", "sent", "unread", "idle", "process", "part", "partOpen", "zip",
           "remove", "cube", "cubeOpen", "returned", "raised", "failed"},
     at : 0..None, paths : SUBSET Cubes, read : Contents, result : Files \cup {None}]

Messages ==
    [type : {"query", "workflow"}, format : Formats \cup {"null"}, args : {"null", "value"}]

TypeInv ==
    /\ TypeOK
    /\ At("partOpen") => run.at \in Cubes

(* TypeOK, by the sets of records.                                         *)
LEMMA TypeParts ==
    TypeOK <=>
        /\ submitted.outcome \in {"none", "sent", "KeyError", "TypeError", "IndexError"}
        /\ message \in Messages
        /\ kind \in Kinds \cup {"none"}
        /\ cubes \in [Cubes -> {"data", "empty"}]
        /\ files \in [Files -> FileRecords]
        /\ run \in Runs
        /\ ended \subseteq Files \cup {None, Raised, Failed}
        /\ rows \subseteq Files \cup {None}
        /\ attempts \in 0..MaxAttempts
        /\ changes \in 0..MaxChanges
  BY DEF TypeOK, Messages, FileRecords, Runs, Contents

LEMMA Numbers ==
    /\ Cubes \subseteq Files /\ Files \subseteq 0..None /\ 0 \in Files /\ 0 \notin Cubes
    /\ None \notin Files /\ Raised \notin Files /\ None # Raised
    /\ Failed \notin Files /\ Failed # None /\ Failed # Raised
    /\ \A i \in Cubes : i \in Nat /\ i + 1 \in 1..None
    /\ \A i \in 1..None : i \notin Cubes => i = None
    /\ 1 \in 1..None /\ None \in Nat
    /\ \A i \in Cubes : i < None
  BY MaxCubesAssumption DEF Cubes, Files, None, Raised, Failed

LEMMA InitType == Init => TypeInv
<1> SUFFICES ASSUME Init PROVE TypeInv
  OBVIOUS
<1>1. /\ run.pc = "new" /\ run.at = 0 /\ run.paths = {} /\ run.read = {} /\ run.result = None
      /\ run = [pc |-> run.pc, at |-> run.at, paths |-> run.paths, read |-> run.read,
                result |-> run.result]
  BY DEF Init, NotRunning
<1>2. run \in Runs
  BY <1>1, Numbers DEF Runs, Contents
<1>3. NoFile \in FileRecords
  BY DEF NoFile, FileRecords, Contents
<1>4. files \in [Files -> FileRecords]
  BY <1>3 DEF Init
<1>5. message \in Messages
  BY DEF Init, Messages
<1>6. attempts \in 0..MaxAttempts /\ changes \in 0..MaxChanges
  BY BoundsAssumption DEF Init
<1>7. QED
  BY <1>1, <1>2, <1>4, <1>5, <1>6, TypeParts DEF Init, TypeInv, At, Nothing

LEMMA SubmissionGoes ==
    ASSUME Submission
    PROVE  run' = run \/ Goto("sent") \/ Goto("unread")
<1>1. ASSUME NEW outcome, Refuse(outcome) PROVE run' = run
  BY <1>1 DEF Refuse
<1>2. ASSUME NEW q, Send(q) PROVE run' = run \/ Goto("sent") \/ Goto("unread")
  BY <1>1, <1>2 DEF Send
<1>3. ASSUME NEW o \in Bodies, SubmitBody(o)
      PROVE  run' = run \/ Goto("sent") \/ Goto("unread")
  BY <1>1, <1>2, <1>3 DEF SubmitBody
<1>4. ASSUME NEW format, NEW bbox, NEW values, NEW names, NEW value,
             SubmitMap(format, bbox, values, names, value)
      PROVE  run' = run \/ Goto("sent") \/ Goto("unread")
  BY <1>1, <1>2, <1>4 DEF SubmitMap
<1>5. ASSUME NEW splits \in BOOLEAN, SubmitWorkflow(splits)
      PROVE  run' = run \/ Goto("sent") \/ Goto("unread")
  BY <1>5 DEF SubmitWorkflow
<1>6. QED
  BY <1>3, <1>4, <1>5 DEF Submission

LEMMA SubmissionKeepsType ==
    ASSUME TypeInv, Submission
    PROVE  TypeInv'
<1>1. UNCHANGED Process /\ At("new")
  BY DEF Submission, SubmitBody, SubmitMap, SubmitWorkflow
<1>0. message \in Messages
  BY TypeParts DEF TypeInv
<1>2. ASSUME NEW outcome \in {"KeyError", "TypeError", "IndexError"}, Refuse(outcome)
      PROVE  TypeInv'
  BY <1>1, <1>2, TypeParts DEF Refuse, TypeInv, Process, At, TypeOK
<1>3. ASSUME NEW label \in {"sent", "unread"}, Goto(label), message' \in Messages,
             submitted'.outcome \in {"none", "sent"}
      PROVE  TypeInv'
  <2>1. run' \in Runs /\ run'.pc = label
    BY <1>3, TypeParts DEF Goto, TypeInv, Runs
  <2>2. TypeOK'
    BY <1>1, <1>3, <2>1 DEF TypeInv, TypeOK, Process, Runs, Messages, Contents
  <2>3. QED
    BY <2>1, <2>2 DEF TypeInv, At
<1>4. ASSUME NEW q, IsQuery(q), Send(q), q.fields["format"] \in Formats \cup {"null"},
             q.fields["format_args"] \in {"null", "value", "split"}
      PROVE  TypeInv'
  <2>1. CASE OriginalRaises(q)
    BY <1>2, <1>4, <2>1 DEF Send
  <2>2. CASE ~OriginalRaises(q) /\ MessageRaises(Json(q))
    <3>1. submitted'.outcome = "sent" /\ Goto("unread") /\ message' = message
      BY <1>4, <2>2 DEF Send
    <3>2. QED
      BY <1>0, <1>3, <3>1
  <2>3. CASE ~OriginalRaises(q) /\ ~MessageRaises(Json(q))
    <3>1. Parse(Json(q)) = q
      BY <1>4, ParseOfJson
    <3>2. /\ submitted'.outcome = "sent" /\ Goto("sent")
          /\ message' = [type |-> "query", format |-> q.fields["format"],
                         args |-> q.fields["format_args"]]
      BY <1>4, <2>3, <3>1 DEF Send
    <3>3. q.fields["format_args"] # "split"
      <4>1. Json(q).plain = Join(q.fields, q.extra)
        BY DEF Json, Object
      <4>2. "format_args" \in DOMAIN q.fields
        BY <1>4 DEF IsQuery, Fields
      <4>3. /\ Json(q).plain["format_args"] = q.fields["format_args"]
            /\ "format_args" \in DOMAIN Json(q).plain
        BY <4>1, <4>2 DEF Join
      <4>4. QED
        BY <2>3, <4>3 DEF MessageRaises, Splits, Range
    <3>4. message' \in Messages
      BY <1>4, <3>2, <3>3 DEF Messages
    <3>5. QED
      BY <1>3, <3>2, <3>4
  <2>4. QED
    BY <2>1, <2>2, <2>3
<1>5. ASSUME NEW o \in Bodies, SubmitBody(o) PROVE TypeInv'
  BY <1>2, <1>4, <1>5, ParsedIsQuery, BodyQuery DEF SubmitBody
<1>6. ASSUME NEW format \in {"png", "geojson"}, NEW bbox \in BOOLEAN,
             NEW values \in 0..2, NEW names \in 0..2, NEW value \in {"value", "split"},
             SubmitMap(format, bbox, values, names, value)
      PROVE  TypeInv'
  <2> DEFINE filters == IF values = 0 THEN Empty ELSE [pasture |-> value]
  <2>1. CASE FilterRaises(values, names)
    BY <1>2, <1>6, <2>1 DEF SubmitMap
  <2>2. CASE ~FilterRaises(values, names)
    <3>1. Send(MapToGeoquery(format, bbox, filters))
      BY <1>6, <2>2 DEF SubmitMap
    <3>2. QED
      BY <1>4, <3>1, MapQuery
  <2>3. QED
    BY <2>1, <2>2
<1>7. ASSUME NEW splits \in BOOLEAN, SubmitWorkflow(splits), submitted = Nothing PROVE TypeInv'
  <2>1. submitted'.outcome = "none"
    BY <1>7 DEF SubmitWorkflow, Nothing
  <2>2. CASE splits
    BY <1>0, <1>3, <1>7, <2>1, <2>2 DEF SubmitWorkflow
  <2>3. CASE ~splits
    <3>1. message' = [type |-> "workflow", format |-> "netcdf", args |-> "null"] /\ Goto("sent")
      BY <1>7, <2>3 DEF SubmitWorkflow
    <3>2. message' \in Messages
      BY <3>1 DEF Messages, Formats
    <3>3. QED
      BY <1>3, <2>1, <3>1, <3>2
  <2>4. QED
    BY <2>2, <2>3
<1>8. QED
  BY <1>5, <1>6, <1>7 DEF Submission

(* A step of an attempt.                                                   *)
LEMMA StepType ==
    ASSUME TypeInv, Steady, files' \in [Files -> FileRecords], run' \in Runs,
           At("partOpen")' => run'.at \in Cubes,
           ended' \subseteq Files \cup {None, Raised, Failed}
    PROVE  TypeInv'
  BY DEF TypeInv, TypeOK, Steady, Runs, FileRecords, Contents

LEMMA ReturnType ==
    ASSUME TypeInv, NEW path \in Files \cup {None}, Return(path)
    PROVE  /\ run' \in Runs /\ run'.pc = "returned" /\ run'.result = path
           /\ run'.read = run.read /\ run'.paths = run.paths
           /\ ended' = ended \cup {path}
           /\ ended' \subseteq Files \cup {None, Raised, Failed}
  BY TypeParts DEF Return, TypeInv, Runs

LEMMA RaiseType ==
    ASSUME TypeInv, Raise
    PROVE  /\ run' \in Runs /\ run'.pc = "raised"
           /\ ended' = ended \cup {Raised}
           /\ ended' \subseteq Files \cup {None, Raised, Failed}
  BY TypeParts DEF Raise, TypeInv, Runs

LEMMA FailsType ==
    ASSUME TypeInv, PersistFails
    PROVE  /\ run' \in Runs /\ run'.pc = "failed"
           /\ ended' = ended \cup {Failed}
           /\ ended' \subseteq Files \cup {None, Raised, Failed}
  BY TypeParts DEF PersistFails, TypeInv, Runs

LEMMA GotoType ==
    ASSUME TypeInv, NEW label, Goto(label),
           label \in {"cube", "zip", "remove"}
    PROVE  /\ run' \in Runs /\ run'.pc = label /\ run'.at = run.at
           /\ run'.read = run.read /\ run'.paths = run.paths
  BY TypeParts DEF Goto, TypeInv, Runs

LEMMA FilesType ==
    /\ NoFile \in FileRecords /\ Partial \in FileRecords
    /\ \A holds \in Contents : Complete(holds) \in FileRecords
  BY DEF NoFile, Partial, Complete, FileRecords, Contents

LEMMA PersistKeepsType ==
    ASSUME TypeInv, PersistStep
    PROVE  TypeInv'
<1> USE DEF At
<1>1. /\ run \in Runs /\ files \in [Files -> FileRecords]
      /\ ended \subseteq Files \cup {None, Raised, Failed} /\ changes \in 0..MaxChanges
  BY TypeParts DEF TypeInv
<1>2. CASE StartPersist
  <2>1. CASE Goto("cube") /\ UNCHANGED ended
    BY <1>1, <1>2, <2>1, GotoType, StepType DEF StartPersist
  <2>2. CASE run' = [run EXCEPT !.pc = "part", !.at = 1] /\ UNCHANGED ended
    <3>1. 1 \in 0..None
      BY MaxCubesAssumption DEF None
    <3>2. run' \in Runs /\ run'.pc = "part"
      BY <1>1, <2>2, <3>1 DEF Runs
    <3>3. QED
      BY <1>1, <1>2, <2>2, <3>2, StepType DEF StartPersist
  <2>3. CASE Raise
    BY <1>1, <1>2, <2>3, RaiseType, StepType DEF StartPersist
  <2>4. QED
    BY <1>2, <2>1, <2>2, <2>3 DEF StartPersist
<1>3. CASE OpenCube
  <2>1. CASE Raise /\ UNCHANGED files
    BY <1>1, <1>3, <2>1, RaiseType, StepType DEF OpenCube
  <2>2. CASE /\ files' = [files EXCEPT ![0] = Partial]
             /\ run' = [run EXCEPT !.pc = "cubeOpen", !.read = {<<0, changes>>}]
             /\ UNCHANGED ended
    <3>1. {<<0, changes>>} \in Contents
      BY <1>1, Numbers DEF Contents
    <3>2. run' \in Runs /\ run'.pc = "cubeOpen"
      BY <1>1, <2>2, <3>1 DEF Runs
    <3>3. files' \in [Files -> FileRecords]
      BY <1>1, <2>2, FilesType
    <3>4. QED
      BY <1>1, <1>3, <2>2, <3>2, <3>3, StepType DEF OpenCube
  <2>3. QED
    BY <1>3, <2>1, <2>2 DEF OpenCube
<1>4. CASE CloseCube
  <2>1. run.read \in Contents
    BY <1>1 DEF Runs
  <2>2. files' \in [Files -> FileRecords]
    BY <1>1, <1>4, <2>1, FilesType DEF CloseCube
  <2>3. QED
    BY <1>4, <2>2, Numbers, ReturnType, StepType DEF CloseCube
<1>5. CASE OpenPart
  <2>1. CASE run' = [run EXCEPT !.at = @ + 1] /\ UNCHANGED <<files, ended>>
    <3>1. run.at + 1 \in 0..None
      BY <1>5, Numbers DEF OpenPart
    <3>2. run' \in Runs /\ run'.pc = "part"
      BY <1>1, <1>5, <2>1, <3>1 DEF Runs, OpenPart
    <3>3. QED
      BY <1>1, <1>5, <2>1, <3>2, StepType DEF OpenPart
  <2>2. CASE /\ files' = [files EXCEPT ![run.at] = Partial]
             /\ run' = [run EXCEPT !.pc = "partOpen", !.read = @ \cup {<<run.at, changes>>}]
             /\ UNCHANGED ended
    <3>1. <<run.at, changes>> \in Files \X (0..MaxChanges)
      BY <1>1, <1>5, Numbers DEF OpenPart
    <3>2. run' \in Runs /\ run'.pc = "partOpen" /\ run'.at = run.at
      BY <1>1, <2>2, <3>1 DEF Runs, Contents
    <3>3. files' \in [Files -> FileRecords]
      BY <1>1, <2>2, FilesType
    <3>4. QED
      BY <1>1, <1>5, <2>2, <3>2, <3>3, StepType DEF OpenPart
  <2>3. CASE Raise /\ UNCHANGED files
    BY <1>1, <1>5, <2>3, RaiseType, StepType DEF OpenPart
  <2>4. QED
    BY <1>5, <2>1, <2>2, <2>3 DEF OpenPart
<1>6. CASE ClosePart
  <2>1. {c \in run.read : c[1] = run.at} \in Contents
    BY <1>1 DEF Runs, Contents
  <2>2. files' \in [Files -> FileRecords]
    BY <1>1, <1>6, <2>1, FilesType DEF ClosePart
  <2>3. run.at \in Cubes /\ run.at + 1 \in 0..None
    BY <1>6, Numbers DEF ClosePart, TypeInv
  <2>4. run' \in Runs /\ run'.pc = "part"
    BY <1>1, <1>6, <2>3 DEF Runs, ClosePart
  <2>5. QED
    BY <1>1, <1>6, <2>2, <2>4, StepType DEF ClosePart
<1>7. CASE Collect
  <2>1. run.paths \subseteq Files
    BY <1>1, Numbers DEF Runs
  <2>2. CASE Return(None) /\ UNCHANGED files
    BY <1>1, <1>7, <2>2, ReturnType, StepType DEF Collect
  <2>3. ASSUME NEW i \in run.paths, Return(i), UNCHANGED files PROVE TypeInv'
    BY <1>1, <1>7, <2>1, <2>3, ReturnType, StepType DEF Collect
  <2>4. CASE files' = [files EXCEPT ![0] = Partial] /\ Goto("zip") /\ UNCHANGED ended
    <3>1. files' \in [Files -> FileRecords]
      BY <1>1, <2>4, FilesType
    <3>2. QED
      BY <1>1, <1>7, <2>4, <3>1, GotoType, StepType DEF Collect
  <2>5. QED
    BY <1>7, <2>2, <2>3, <2>4 DEF Collect
<1>8. CASE CloseArchive
  <2> DEFINE all == files[0].holds \cup UNION {files[i].holds : i \in run.paths}
  <2>1. \A i \in Files : files[i].holds \in Contents
    BY <1>1 DEF FileRecords
  <2>2. run.paths \subseteq Files
    BY <1>1, Numbers DEF Runs
  <2>3. all \in Contents
    BY <2>1, <2>2, Numbers DEF Contents
  <2>4. files' = [files EXCEPT ![0] = Complete(all)]
    BY <1>1, <1>8, Numbers DEF CloseArchive
  <2> HIDE DEF all
  <2>5. files' \in [Files -> FileRecords]
    BY <1>1, <2>3, <2>4, FilesType
  <2>6. QED
    BY <1>1, <1>8, <2>5, GotoType, StepType DEF CloseArchive
<1>9. CASE RemovePart
  <2> DEFINE i == Min(run.paths)
  <2>1. files' = [files EXCEPT ![i] = NoFile]
    BY <1>9 DEF RemovePart
  <2> HIDE DEF i
  <2>2. files' \in [Files -> FileRecords]
    BY <1>1, <2>1, FilesType
  <2>3. CASE Return(0)
    BY <1>9, <2>2, <2>3, Numbers, ReturnType, StepType DEF RemovePart
  <2>4. CASE run' = [run EXCEPT !.paths = @ \ {i}] /\ UNCHANGED ended
    <3>1. run' \in Runs /\ run'.pc = run.pc
      BY <1>1, <2>4 DEF Runs
    <3>2. QED
      BY <1>1, <1>9, <2>2, <2>4, <3>1, StepType DEF RemovePart
  <2>5. QED
    BY <1>9, <2>3, <2>4 DEF RemovePart, i
<1>10. CASE CommitRow
  <2>1. rows' \subseteq Files \cup {None}
    BY <1>1, <1>10, TypeParts DEF CommitRow, TypeInv, Runs
  <2>2. QED
    BY <1>10, <2>1 DEF CommitRow, TypeInv, TypeOK
<1>11. CASE PersistFails
  BY <1>1, <1>11, FailsType, StepType DEF PersistFails
<1>12. QED
  BY <1>2, <1>3, <1>4, <1>5, <1>6, <1>7, <1>8, <1>9, <1>10, <1>11 DEF PersistStep

LEMMA OthersKeepType ==
    ASSUME TypeInv, [Next]_vars, ~Submission, ~PersistStep
    PROVE  TypeInv'
<1>1. \A k : [NotRunning EXCEPT !.pc = k] = [pc |-> k, at |-> 0, paths |-> {}, read |-> {},
                                             result |-> None]
  BY DEF NotRunning
<1>2. NotRunning \in Runs /\ [NotRunning EXCEPT !.pc = "process"] \in Runs
  BY <1>1, Numbers DEF NotRunning, Runs, Contents
<1>3. ASSUME NEW k \in Kinds, Deliver(k) PROVE TypeInv'
  <2>1. attempts' \in 0..MaxAttempts
    BY <1>3, BoundsAssumption, TypeParts DEF Deliver, TypeInv
  <2>2. run' \in Runs /\ run'.pc = "process"
    BY <1>1, <1>2, <1>3 DEF Deliver
  <2>3. kind' \in Kinds \cup {"none"}
    BY <1>3, TypeParts DEF Deliver, TypeInv
  <2>4. QED
    BY <1>3, <2>1, <2>2, <2>3 DEF Deliver, Nothing, TypeInv, TypeOK, At, Runs, Contents
<1>4. CASE Crash
  <2>1. run' \in Runs /\ run'.pc = "idle"
    BY <1>2, <1>4 DEF Crash, NotRunning
  <2>2. QED
    BY <1>4, <2>1, StepType, TypeParts DEF Crash, TypeInv, At
<1>5. ASSUME NEW i \in Cubes, NEW content \in {"data", "empty"}, ChangeData(i, content)
      PROVE  TypeInv'
  <2>1. changes' \in 0..MaxChanges
    BY <1>5, BoundsAssumption, TypeParts DEF ChangeData, TypeInv
  <2>2. cubes' \in [Cubes -> {"data", "empty"}]
    BY <1>5, TypeParts DEF ChangeData, TypeInv
  <2>3. QED
    BY <1>5, <2>1, <2>2 DEF ChangeData, TypeInv, TypeOK, At
<1>6. CASE UNCHANGED vars
  BY <1>6 DEF vars, TypeInv, TypeOK, At
<1>7. QED
  BY <1>3, <1>4, <1>5, <1>6 DEF Next

(* The state of a request's processing keeps its type (TypeOK).            *)
THEOREM TypeCorrect == Spec => []TypeOK
<1>1. Init => TypeInv
  BY InitType
<1>2. TypeInv /\ [Next]_vars => TypeInv'
  BY SubmissionKeepsType, PersistKeepsType, OthersKeepType
<1>3. TypeInv => TypeOK
  BY DEF TypeInv
<1>4. QED
  BY <1>1, <1>2, <1>3, PTL DEF Spec

------------------------------------------------------------------------------
(* What process() returns.                                                 *)

(* The datacubes of which an attempt has read something, and what it has   *)
(* read of one.                                                            *)
Firsts(read) == {c[1] : c \in read}
PartIn(read, i) == {c \in read : c[1] = i}

(* What persist_dataset and persist_datacube have done by each label.      *)
Written ==
    /\ At("process") => run.paths = {} /\ run.read = {}
    /\ At("part") => run.at \in 1..None /\ Firsts(run.read) = run.paths
    /\ At("partOpen") => run.at \in Cubes /\ Firsts(run.read) = run.paths \cup {run.at}
    /\ run.pc \in {"part", "partOpen"} => \A i \in run.paths : i < run.at
    /\ At("zip") => run.paths # {} /\ Firsts(run.read) = run.paths /\ files[0] = Partial
    /\ run.pc \in {"part", "partOpen", "zip"} =>
          \A i \in run.paths : files[i] = Complete(PartIn(run.read, i))
    /\ At("remove") => run.paths # {} /\ run.read # {} /\ files[0] = Complete(run.read)
    /\ At("cubeOpen") => run.read # {}

LEMMA Below ==
    ASSUME NEW at \in Cubes, NEW S \in SUBSET Cubes, \A i \in S : i < at
    PROVE  /\ at + 1 \in 1..None /\ at \notin S
           /\ \A i \in S \cup {at} : i < at + 1
<1>1. at \in Nat /\ at + 1 \in 1..None /\ \A i \in S : i \in Nat
  BY Numbers
<1>2. \A i \in S : i # at /\ i < at + 1
  BY <1>1
<1>3. at < at + 1
  BY <1>1
<1>4. QED
  BY <1>1, <1>2, <1>3

LEMMA NotWriting ==
    ASSUME run'.pc \in {"new", "sent", "unread", "idle", "cube", "raised", "failed"}
    PROVE  Written' /\ ResultIsComplete'
  BY DEF Written, ResultIsComplete, At

LEMMA Returning ==
    ASSUME TypeInv, NEW path \in Files \cup {None}, Return(path),
           path = None => run.read = {},
           path # None => run.read # {} /\ files'[path] = Complete(run.read)
    PROVE  Written' /\ ResultIsComplete'
<1>1. run'.pc = "returned" /\ run'.result = path /\ run'.read = run.read
  BY ReturnType
<1>2. QED
  BY <1>1 DEF Written, ResultIsComplete, At

LEMMA OpenPartWrites ==
    ASSUME TypeInv, TypeInv', Written, OpenPart
    PROVE  Written' /\ ResultIsComplete'
<1>1. /\ run \in Runs /\ files \in [Files -> FileRecords] /\ run.at \in Cubes
      /\ run.paths \subseteq Cubes /\ run.pc = "part" /\ Firsts(run.read) = run.paths
      /\ \A i \in run.paths : i < run.at
      /\ \A i \in run.paths : files[i] = Complete(PartIn(run.read, i))
  BY TypeParts DEF TypeInv, Written, OpenPart, At, Runs
<1>2. CASE Raise
  BY <1>2, RaiseType, NotWriting
<1>3. CASE run' = [run EXCEPT !.at = @ + 1] /\ UNCHANGED files
  <2>1. /\ run'.pc = "part" /\ run'.at = run.at + 1 /\ run'.paths = run.paths
        /\ run'.read = run.read
    BY <1>1, <1>3 DEF Runs
  <2>2. run.at + 1 \in 1..None /\ \A i \in run.paths : i < run.at + 1
    BY <1>1, Below
  <2>3. QED
    BY <1>1, <1>3, <2>1, <2>2 DEF Written, ResultIsComplete, At
<1>4. CASE /\ files' = [files EXCEPT ![run.at] = Partial]
           /\ run' = [run EXCEPT !.pc = "partOpen", !.read = @ \cup {<<run.at, changes>>}]
  <2> DEFINE new == <<run.at, changes>>
  <2>1. /\ run'.pc = "partOpen" /\ run'.at = run.at /\ run'.paths = run.paths
        /\ run'.read = run.read \cup {new}
    BY <1>1, <1>4 DEF Runs
  <2>2. new[1] = run.at
    OBVIOUS
  <2> HIDE DEF new
  <2>3. Firsts(run'.read) = run.paths \cup {run.at}
    BY <1>1, <2>1, <2>2 DEF Firsts
  <2>4. \A i \in run.paths : i # run.at
    BY <1>1, Below
  <2>5. \A i \in run.paths : PartIn(run'.read, i) = PartIn(run.read, i)
    BY <2>1, <2>2, <2>4 DEF PartIn
  <2>6. \A i \in run.paths : files'[i] = files[i]
    BY <1>1, <1>4, <2>4, Numbers
  <2>7. QED
    BY <1>1, <2>1, <2>3, <2>5, <2>6 DEF Written, ResultIsComplete, At
<1>5. QED
  BY <1>2, <1>3, <1>4 DEF OpenPart

LEMMA ClosePartWrites ==
    ASSUME TypeInv, Written, ClosePart
    PROVE  Written' /\ ResultIsComplete'
<1>1. /\ run \in Runs /\ files \in [Files -> FileRecords] /\ run.at \in Cubes
      /\ run.paths \subseteq Cubes /\ Firsts(run.read) = run.paths \cup {run.at}
      /\ \A i \in run.paths : i < run.at
      /\ \A i \in run.paths : files[i] = Complete(PartIn(run.read, i))
  BY TypeParts DEF TypeInv, Written, ClosePart, At, Runs
<1>2. /\ run'.pc = "part" /\ run'.at = run.at + 1 /\ run'.paths = run.paths \cup {run.at}
      /\ run'.read = run.read
  BY <1>1 DEF ClosePart, Runs
<1>3. files' = [files EXCEPT ![run.at] = Complete(PartIn(run.read, run.at))]
  BY DEF ClosePart, PartIn
<1>4. run.at + 1 \in 1..None /\ \A i \in run.paths \cup {run.at} : i < run.at + 1
  BY <1>1, Below
<1>5. \A i \in run.paths \cup {run.at} : files'[i] = Complete(PartIn(run.read, i))
  BY <1>1, <1>3, Numbers
<1>6. QED
  BY <1>1, <1>2, <1>4, <1>5 DEF Written, ResultIsComplete, At

LEMMA CollectWrites ==
    ASSUME TypeInv, Written, Collect
    PROVE  Written' /\ ResultIsComplete'
<1>1. /\ run \in Runs /\ files \in [Files -> FileRecords]
      /\ run.paths \subseteq Cubes /\ Firsts(run.read) = run.paths
      /\ \A i \in run.paths : files[i] = Complete(PartIn(run.read, i))
  BY TypeParts DEF TypeInv, Written, Collect, At, Runs
<1>2. run.read = {} <=> run.paths = {}
  BY <1>1 DEF Firsts
<1>3. CASE run.paths = {}
  BY <1>2, <1>3, Numbers, Returning DEF Collect
<1>4. ASSUME NEW i \in run.paths, run.paths = {i}, Return(i), UNCHANGED files
      PROVE  Written' /\ ResultIsComplete'
  <2>1. PartIn(run.read, i) = run.read
    BY <1>1, <1>4 DEF PartIn, Firsts
  <2>2. files'[i] = Complete(run.read) /\ i \in Files /\ i # None
    BY <1>1, <1>4, <2>1, Numbers
  <2>3. QED
    BY <1>2, <1>4, <2>2, Returning
<1>5. CASE /\ files' = [files EXCEPT ![0] = Partial] /\ Goto("zip") /\ run.paths # {}
  <2>1. run'.pc = "zip" /\ run'.read = run.read /\ run'.paths = run.paths
    BY <1>5, GotoType
  <2>2. files'[0] = Partial /\ \A i \in run.paths : files'[i] = files[i]
    BY <1>1, <1>5, Numbers
  <2>3. QED
    BY <1>1, <1>5, <2>1, <2>2 DEF Written, ResultIsComplete, At
<1>6. QED
  BY <1>3, <1>4, <1>5 DEF Collect

LEMMA CloseArchiveWrites ==
    ASSUME TypeInv, Written, CloseArchive
    PROVE  Written' /\ ResultIsComplete'
<1>1. /\ files \in [Files -> FileRecords] /\ run.paths # {} /\ Firsts(run.read) = run.paths
      /\ files[0] = Partial
      /\ \A i \in run.paths : files[i] = Complete(PartIn(run.read, i))
  BY TypeParts DEF TypeInv, Written, CloseArchive, At
<1>2. run'.pc = "remove" /\ run'.read = run.read /\ run'.paths = run.paths
  BY GotoType DEF CloseArchive
<1>3. \A i \in run.paths : files[i].holds = PartIn(run.read, i)
  <2>1. \A holds : Complete(holds).holds = holds
    BY DEF Complete
  <2>2. QED
    BY <1>1, <2>1
<1>4. files[0].holds \cup UNION {files[i].holds : i \in run.paths} = run.read
  <2>1. files[0].holds = {}
    BY <1>1 DEF Partial
  <2>2. UNION {files[i].holds : i \in run.paths} = run.read
    BY <1>1, <1>3 DEF PartIn, Firsts
  <2>3. QED
    BY <2>1, <2>2
<1>5. files'[0] = Complete(run.read)
  BY <1>1, <1>4, Numbers DEF CloseArchive
<1>6. run.read # {}
  BY <1>1 DEF Firsts
<1>7. QED
  BY <1>1, <1>2, <1>5, <1>6 DEF Written, ResultIsComplete, At

LEMMA RemovePartWrites ==
    ASSUME TypeInv, Written, RemovePart
    PROVE  Written' /\ ResultIsComplete'
<1> DEFINE i == Min(run.paths)
<1>1. /\ run \in Runs /\ files \in [Files -> FileRecords] /\ run.paths \subseteq Cubes
      /\ run.paths # {} /\ run.read # {} /\ files[0] = Complete(run.read) /\ run.pc = "remove"
  BY TypeParts DEF TypeInv, Written, RemovePart, At, Runs
<1>2. i \in run.paths
  BY <1>1, Numbers, MinIsLeast
<1>3. files' = [files EXCEPT ![i] = NoFile]
  BY DEF RemovePart
<1>4. run.paths = {i} => Return(0)
  BY DEF RemovePart
<1>5. run.paths # {i} => run' = [run EXCEPT !.paths = @ \ {i}]
  BY DEF RemovePart
<1> HIDE DEF i
<1>6. files'[0] = Complete(run.read)
  BY <1>1, <1>2, <1>3, Numbers
<1>7. CASE run.paths = {i}
  BY <1>1, <1>4, <1>6, <1>7, Numbers, Returning
<1>8. CASE run.paths # {i}
  <2>1. run'.pc = "remove" /\ run'.paths = run.paths \ {i} /\ run'.read = run.read
    BY <1>1, <1>5, <1>8 DEF Runs
  <2>2. run.paths \ {i} # {}
    BY <1>1, <1>2, <1>8
  <2>3. QED
    BY <1>1, <1>6, <2>1, <2>2 DEF Written, ResultIsComplete, At
<1>9. QED
  BY <1>7, <1>8

LEMMA CubeWrites ==
    ASSUME TypeInv, Written, StartPersist \/ OpenCube \/ CloseCube
    PROVE  Written' /\ ResultIsComplete'
<1>1. run \in Runs /\ files \in [Files -> FileRecords]
  BY TypeParts DEF TypeInv
<1>2. ASSUME Raise PROVE Written' /\ ResultIsComplete'
  BY <1>2, RaiseType, NotWriting
<1>3. ASSUME Goto("cube") PROVE Written' /\ ResultIsComplete'
  BY <1>3, GotoType, NotWriting
<1>4. CASE StartPersist
  <2>1. CASE run' = [run EXCEPT !.pc = "part", !.at = 1]
    <3>1. run'.pc = "part" /\ run'.at = 1 /\ run'.paths = {} /\ run'.read = {}
      BY <1>1, <1>4, <2>1 DEF Runs, Written, StartPersist, At
    <3>2. Firsts({}) = {}
      BY DEF Firsts
    <3>3. QED
      BY <3>1, <3>2, Numbers DEF Written, ResultIsComplete, At
  <2>2. QED
    BY <1>2, <1>3, <1>4, <2>1 DEF StartPersist
<1>5. CASE OpenCube
  <2>1. CASE run' = [run EXCEPT !.pc = "cubeOpen", !.read = {<<0, changes>>}]
    <3>1. run'.pc = "cubeOpen" /\ run'.read # {}
      BY <1>1, <2>1 DEF Runs
    <3>2. QED
      BY <3>1 DEF Written, ResultIsComplete, At
  <2>2. QED
    BY <1>2, <1>5, <2>1 DEF OpenCube
<1>6. CASE CloseCube
  <2>1. run.read # {} /\ files'[0] = Complete(run.read) /\ Return(0)
    BY <1>1, <1>6, Numbers DEF CloseCube, Written, At
  <2>2. QED
    BY <2>1, Numbers, Returning
<1>7. QED
  BY <1>4, <1>5, <1>6

LEMMA StepWrites ==
    ASSUME TypeInv, TypeInv', Written, ResultIsComplete, [Next]_vars
    PROVE  Written' /\ ResultIsComplete'
<1>1. CASE Submission
  <2>1. run.pc = "new" /\ run \in Runs
    BY <1>1, TypeParts DEF TypeInv, Submission, SubmitBody, SubmitMap, SubmitWorkflow, At
  <2>2. run' = run \/ Goto("sent") \/ Goto("unread")
    BY <1>1, SubmissionGoes
  <2>3. run'.pc \in {"new", "sent", "unread"}
    BY <2>1, <2>2 DEF Goto, Runs
  <2>4. QED
    BY <2>3, NotWriting
<1>2. ASSUME NEW k \in Kinds, Deliver(k) PROVE Written' /\ ResultIsComplete'
  <2>1. run'.pc = "process" /\ run'.paths = {} /\ run'.read = {}
    BY <1>2 DEF Deliver, NotRunning
  <2>2. QED
    BY <2>1 DEF Written, ResultIsComplete, At
<1>3. CASE CommitRow
  BY <1>3 DEF CommitRow, Written, ResultIsComplete, At
<1>4. CASE PersistStep /\ ~CommitRow
  BY <1>4, CubeWrites, OpenPartWrites, ClosePartWrites, CollectWrites, CloseArchiveWrites,
     RemovePartWrites, FailsType, NotWriting DEF PersistStep
<1>5. CASE Crash
  <2>1. run'.pc = "idle"
    BY <1>5 DEF Crash, NotRunning
  <2>2. QED
    BY <2>1, NotWriting
<1>6. ASSUME NEW i \in Cubes, NEW content \in {"data", "empty"}, ChangeData(i, content)
      PROVE  Written' /\ ResultIsComplete'
  BY <1>6 DEF ChangeData, Written, ResultIsComplete, At
<1>7. CASE UNCHANGED vars
  BY <1>7 DEF vars, Written, ResultIsComplete, At
<1>8. QED
  BY <1>1, <1>2, <1>3, <1>4, <1>5, <1>6, <1>7 DEF Next

LEMMA WrittenAlways == Spec => [](TypeInv /\ Written /\ ResultIsComplete)
<1>1. Init => TypeInv /\ Written /\ ResultIsComplete
  <2>1. Init => run.pc = "new"
    BY DEF Init, NotRunning
  <2>2. QED
    BY <2>1, InitType DEF Written, ResultIsComplete, At
<1>2. (TypeInv /\ Written /\ ResultIsComplete) /\ [Next]_vars
         => (TypeInv /\ Written /\ ResultIsComplete)'
  BY SubmissionKeepsType, PersistKeepsType, OthersKeepType, StepWrites
<1>3. QED
  BY <1>1, <1>2, PTL DEF Spec

(* A path process() returns names a complete file with all the attempt has *)
(* read, whatever attempts before it have left behind and however the data *)
(* change meanwhile (ResultIsComplete).                                    *)
THEOREM ResultIsAlwaysComplete == Spec => []ResultIsComplete
  BY WrittenAlways, PTL

------------------------------------------------------------------------------
(* One attempt after another.                                              *)

(* What is fixed by the label, and what the rows are made of.              *)
Kept ==
    /\ run.pc \in {"new", "sent", "unread"} <=> kind = "none"
    /\ kind = "none" => ended = {} /\ \A i \in Files : files[i] = NoFile
    /\ run.pc \in {"part", "partOpen", "zip", "remove"} =>
          kind = "dataset" /\ message.type = "query"
    /\ run.pc \in {"cube", "cubeOpen"} => kind \in DataCubes
    /\ At("returned") => run.result \in ended
    /\ rows \subseteq ended

(* What every attempt comes to while the data stay as they are.            *)
Full == {i \in Cubes : cubes[i] = "data"}

CubeOutcome ==
    IF /\ HasName
       /\ message.format \in Formats
       /\ ~(message.format \in {"png", "jpeg"} /\ message.args = "null")
    THEN 0 ELSE Raised

DatasetOutcome ==
    IF Full = {} THEN None
    ELSE IF message.format \notin Formats \ {"zarr"} THEN Raised
    ELSE IF \E i \in Full : Full = {i} THEN CHOOSE i \in Full : TRUE
    ELSE 0

Outcome ==
    IF kind \in DataCubes THEN CubeOutcome
    ELSE IF kind = "dataset" /\ message.type = "query" THEN DatasetOutcome
    ELSE Raised

(* The files an attempt makes on the way to it.                            *)
MayExist ==
    IF Outcome \in {None, Raised} THEN {}
    ELSE IF kind = "dataset" /\ Outcome = 0 THEN {0} \cup Full
    ELSE {Outcome}

(* The invariant: whatever attempts there were, they came to Outcome,      *)
(* failed or were killed, and have left no other files than the next one   *)
(* makes; and the running attempt is on its way to Outcome.                *)
OnTheWay ==
    /\ run.pc \in {"part", "partOpen"} => run.paths = {i \in Full : i < run.at}
    /\ At("part") /\ run.paths # {} => message.format \in Formats \ {"zarr"}
    /\ At("partOpen") => run.at \in Full /\ message.format \in Formats \ {"zarr"}
    /\ run.pc \in {"zip", "remove", "cubeOpen"} => Outcome = 0
    /\ At("zip") => run.paths = Full
    /\ At("remove") => \A i \in Cubes \ run.paths : files[i].is = "absent"
    /\ At("returned") => run.result = Outcome

LeftByAttempts ==
    /\ ended \subseteq {Outcome, Failed}
    /\ \A i \in Files : files[i].is # "absent" => i \in MayExist

Settled == changes = 0 /\ kind # "none" => LeftByAttempts /\ OnTheWay /\ NothingLeftBehind

LEMMA SameOutcome ==
    ASSUME UNCHANGED <<message, kind, cubes>>
    PROVE  Outcome' = Outcome /\ MayExist' = MayExist /\ Full' = Full
<1>1. Full' = Full
  BY DEF Full
<1>2. CubeOutcome' = CubeOutcome
  BY DEF CubeOutcome, HasName
<1>3. DatasetOutcome' = DatasetOutcome
  BY <1>1 DEF DatasetOutcome
<1>4. Outcome' = Outcome
  BY <1>2, <1>3 DEF Outcome
<1>5. QED
  BY <1>1, <1>4 DEF MayExist

LEMMA DatasetComesTo ==
    ASSUME kind = "dataset", message.type = "query"
    PROVE  /\ Full = {} => Outcome = None
           /\ Full # {} /\ message.format \notin Formats \ {"zarr"} => Outcome = Raised
           /\ message.format \in Formats \ {"zarr"} =>
                 /\ \A i \in Full : Full = {i} => Outcome = i /\ MayExist = {i}
                 /\ Full # {} /\ (\A i \in Full : Full # {i}) =>
                       Outcome = 0 /\ MayExist = {0} \cup Full
                 /\ \A i \in Full : i \in MayExist
<1>1. Outcome = DatasetOutcome
  BY DEF Outcome, DataCubes
<1>2. Full \subseteq Cubes
  BY DEF Full
<1>3. ASSUME message.format \in Formats \ {"zarr"}, NEW i \in Full, Full = {i}
      PROVE  Outcome = i /\ MayExist = {i}
  <2>1. Outcome = i
    BY <1>1, <1>3 DEF DatasetOutcome
  <2>2. i # 0 /\ i # None /\ i # Raised
    BY <1>2, Numbers
  <2>3. QED
    BY <2>1, <2>2 DEF MayExist
<1>4. ASSUME message.format \in Formats \ {"zarr"}, Full # {}, \A i \in Full : Full # {i}
      PROVE  Outcome = 0 /\ MayExist = {0} \cup Full
  <2>1. Outcome = 0
    BY <1>1, <1>4 DEF DatasetOutcome
  <2>2. 0 # None /\ 0 # Raised
    BY Numbers
  <2>3. QED
    BY <2>1, <2>2 DEF MayExist
<1>5. ASSUME message.format \in Formats \ {"zarr"}, NEW i \in Full PROVE i \in MayExist
  BY <1>3, <1>4, <1>5
<1>6. QED
  BY <1>1, <1>3, <1>4, <1>5 DEF DatasetOutcome

LEMMA CubeComesTo ==
    ASSUME kind \in DataCubes
    PROVE  Outcome = CubeOutcome /\ (Outcome = 0 => MayExist = {0})
<1>1. 0 # None /\ 0 # Raised /\ kind # "dataset"
  BY Numbers DEF DataCubes
<1>2. QED
  BY <1>1 DEF Outcome, MayExist

(* The ends of an attempt.                                                 *)
LEMMA RaiseSettles ==
    ASSUME TypeInv, Kept, Settled, Steady, Raise, UNCHANGED files, kind # "none",
           changes = 0 => Outcome = Raised
    PROVE  Kept' /\ Settled'
<1>1. run'.pc = "raised" /\ ended' = ended \cup {Raised}
  BY RaiseType
<1>2. Kept'
  BY <1>1 DEF Kept, Steady, At
<1>3. Outcome' = Outcome /\ MayExist' = MayExist
  BY SameOutcome DEF Steady
<1>4. Settled'
  BY <1>1, <1>3 DEF Settled, LeftByAttempts, OnTheWay, NothingLeftBehind, Steady, At
<1>5. QED
  BY <1>2, <1>4

LEMMA ReturnSettles ==
    ASSUME TypeInv, Kept, Settled, Steady, NEW path \in Files \cup {None}, Return(path),
           kind # "none",
           changes = 0 => Outcome = path,
           changes = 0 => \A i \in Files : files'[i].is # "absent" => i = path /\ i \in MayExist
    PROVE  Kept' /\ Settled'
<1>1. run'.pc = "returned" /\ run'.result = path /\ ended' = ended \cup {path}
  BY ReturnType
<1>2. Kept'
  BY <1>1 DEF Kept, Steady, At
<1>3. Outcome' = Outcome /\ MayExist' = MayExist
  BY SameOutcome DEF Steady
<1>4. ASSUME changes' = 0 PROVE LeftByAttempts' /\ OnTheWay' /\ NothingLeftBehind'
  <2>1. changes = 0
    BY <1>4 DEF Steady
  <2>2. LeftByAttempts'
    BY <1>1, <1>3, <2>1 DEF Settled, LeftByAttempts
  <2>3. OnTheWay' /\ NothingLeftBehind'
    BY <1>1, <1>3, <2>1 DEF OnTheWay, NothingLeftBehind, At
  <2>4. QED
    BY <2>2, <2>3
<1>5. QED
  BY <1>2, <1>4 DEF Settled

LEMMA FailSettles ==
    ASSUME TypeInv, Kept, Settled, PersistFails
    PROVE  Kept' /\ Settled'
<1>1. run'.pc = "failed" /\ ended' = ended \cup {Failed}
  BY FailsType
<1>2. kind # "none" /\ UNCHANGED files /\ Steady
  BY DEF PersistFails, Running, Kept
<1>3. Kept'
  BY <1>1, <1>2 DEF Kept, Steady, At
<1>4. Outcome' = Outcome /\ MayExist' = MayExist
  BY <1>2, SameOutcome DEF Steady
<1>5. Settled'
  BY <1>1, <1>2, <1>4 DEF Settled, LeftByAttempts, OnTheWay, NothingLeftBehind, Steady, At
<1>6. QED
  BY <1>3, <1>5

(* The steps of an attempt that goes on.                                   *)
LEMMA GoingOnSettles ==
    ASSUME TypeInv, Kept, Settled, Steady, UNCHANGED ended, kind # "none",
           run'.pc \notin {"new", "sent", "unread", "returned"},
           run'.pc \in {"part", "partOpen", "zip", "remove"} =>
               kind = "dataset" /\ message.type = "query",
           run'.pc \in {"cube", "cubeOpen"} => kind \in DataCubes,
           changes = 0 => \A i \in Files : files'[i].is # "absent" => i \in MayExist,
           changes = 0 => OnTheWay'
    PROVE  Kept' /\ Settled'
<1>1. Kept'
  BY DEF Kept, Steady, At
<1>2. Outcome' = Outcome /\ MayExist' = MayExist
  BY SameOutcome DEF Steady
<1>3. ASSUME changes' = 0 PROVE LeftByAttempts' /\ NothingLeftBehind' /\ OnTheWay'
  <2>1. changes = 0
    BY <1>3 DEF Steady
  <2>2. LeftByAttempts'
    BY <1>2, <2>1 DEF Settled, LeftByAttempts
  <2>3. NothingLeftBehind'
    BY DEF NothingLeftBehind, At
  <2>4. QED
    BY <2>1, <2>2, <2>3
<1>4. QED
  BY <1>1, <1>3 DEF Settled

LEMMA StartSettles ==
    ASSUME TypeInv, Written, Kept, Settled, StartPersist
    PROVE  Kept' /\ Settled'
<1>1. /\ run \in Runs /\ run.pc = "process" /\ kind # "none" /\ run.paths = {} /\ Steady
      /\ UNCHANGED files
      /\ changes = 0 => \A i \in Files : files'[i].is # "absent" => i \in MayExist
  BY TypeParts DEF TypeInv, StartPersist, At, Kept, Written, Settled, LeftByAttempts
<1>2. CASE kind \in DataCubes
  <2>1. run'.pc = "cube" /\ UNCHANGED ended
    BY <1>1, <1>2, GotoType DEF StartPersist
  <2>2. OnTheWay'
    BY <2>1 DEF OnTheWay, At
  <2>3. QED
    BY <1>1, <1>2, <2>1, <2>2, GoingOnSettles
<1>3. CASE kind = "dataset" /\ message.type = "query"
  <2>1. run'.pc = "part" /\ run'.at = 1 /\ run'.paths = {} /\ UNCHANGED ended
    BY <1>1, <1>3 DEF StartPersist, Runs, DataCubes
  <2>2. {i \in Full : i < 1} = {}
    BY DEF Full, Cubes
  <2>3. Full' = Full
    BY <1>1, SameOutcome DEF Steady
  <2>4. OnTheWay'
    BY <2>1, <2>2, <2>3 DEF OnTheWay, At
  <2>5. QED
    BY <1>1, <1>3, <2>1, <2>4, GoingOnSettles
<1>4. CASE kind \notin DataCubes /\ ~(kind = "dataset" /\ message.type = "query")
  <2>1. Raise /\ Outcome = Raised
    BY <1>4 DEF StartPersist, Outcome
  <2>2. QED
    BY <1>1, <2>1, RaiseSettles
<1>5. QED
  BY <1>2, <1>3, <1>4

LEMMA OpenCubeSettles ==
    ASSUME TypeInv, Written, Kept, Settled, OpenCube
    PROVE  Kept' /\ Settled'
<1> DEFINE Fine == /\ HasName
                   /\ message.format \in Formats
                   /\ ~(message.format \in {"png", "jpeg"} /\ message.args = "null")
<1>1. /\ run \in Runs /\ run.pc = "cube" /\ kind \in DataCubes /\ kind # "none" /\ Steady
      /\ files \in [Files -> FileRecords]
      /\ changes = 0 => \A i \in Files : files[i].is # "absent" => i \in MayExist
  BY TypeParts DEF TypeInv, OpenCube, At, Kept, Settled, LeftByAttempts
<1>2. Outcome = CubeOutcome /\ (Outcome = 0 => MayExist = {0})
  BY <1>1, CubeComesTo
<1>3. CASE Fine
  <2>1. Outcome = 0 /\ MayExist = {0}
    BY <1>2, <1>3 DEF CubeOutcome
  <2>2. files' = [files EXCEPT ![0] = Partial] /\ run'.pc = "cubeOpen" /\ UNCHANGED ended
    BY <1>1, <1>3 DEF OpenCube, Runs
  <2>3. changes = 0 => \A i \in Files : files'[i].is # "absent" => i \in MayExist
    BY <1>1, <2>1, <2>2
  <2>4. Outcome' = 0
    BY <1>1, <2>1, SameOutcome DEF Steady
  <2>5. OnTheWay'
    BY <2>2, <2>4 DEF OnTheWay, At
  <2>6. QED
    BY <1>1, <2>2, <2>3, <2>5, GoingOnSettles
<1>4. CASE ~Fine
  <2>1. Raise /\ UNCHANGED files /\ Outcome = Raised
    BY <1>2, <1>4 DEF OpenCube, CubeOutcome
  <2>2. QED
    BY <1>1, <2>1, RaiseSettles
<1>5. QED
  BY <1>3, <1>4

LEMMA CloseCubeSettles ==
    ASSUME TypeInv, Written, Kept, Settled, CloseCube
    PROVE  Kept' /\ Settled'
<1>1. /\ run.pc = "cubeOpen" /\ kind \in DataCubes /\ kind # "none" /\ Steady /\ Return(0)
      /\ files \in [Files -> FileRecords]
      /\ changes = 0 => \A i \in Files : files[i].is # "absent" => i \in MayExist
      /\ changes = 0 => Outcome = 0
  BY TypeParts DEF TypeInv, CloseCube, At, Kept, Settled, LeftByAttempts, OnTheWay
<1>2. changes = 0 => MayExist = {0}
  BY <1>1, CubeComesTo
<1>3. files' = [files EXCEPT ![0] = Complete(run.read)]
  BY DEF CloseCube
<1>4. changes = 0 => \A i \in Files : files'[i].is # "absent" => i = 0 /\ i \in MayExist
  BY <1>1, <1>2, <1>3
<1>5. QED
  BY <1>1, <1>4, Numbers, ReturnSettles

LEMMA OpenPartSettles ==
    ASSUME TypeInv, Written, Kept, Settled, OpenPart
    PROVE  Kept' /\ Settled'
<1>1. /\ run \in Runs /\ run.pc = "part" /\ kind = "dataset" /\ message.type = "query"
      /\ kind # "none" /\ Steady /\ run.at \in Cubes
      /\ files \in [Files -> FileRecords] /\ cubes \in [Cubes -> {"data", "empty"}]
      /\ changes = 0 => \A i \in Files : files[i].is # "absent" => i \in MayExist
      /\ changes = 0 => run.paths = {i \in Full : i < run.at}
      /\ changes = 0 /\ run.paths # {} => message.format \in Formats \ {"zarr"}
  BY TypeParts DEF TypeInv, OpenPart, At, Kept, Settled, LeftByAttempts, OnTheWay
<1>2. Full' = Full /\ message' = message
  BY <1>1, SameOutcome DEF Steady
<1>3. CASE cubes[run.at] = "empty"
  <2>1. run' = [run EXCEPT !.at = @ + 1] /\ UNCHANGED <<files, ended>>
    BY <1>3 DEF OpenPart
  <2>2. run'.pc = "part" /\ run'.at = run.at + 1 /\ run'.paths = run.paths
    BY <1>1, <2>1 DEF Runs
  <2>3. {i \in Full : i < run.at + 1} = {i \in Full : i < run.at}
    <3>1. run.at \notin Full
      BY <1>3 DEF Full
    <3>2. \A i, j \in Nat : i < j + 1 /\ i # j => i < j
      OBVIOUS
    <3>3. \A i \in Full : i \in Nat /\ run.at \in Nat
      BY <1>1, Numbers DEF Full
    <3>4. \A i, j \in Nat : i < j => i < j + 1
      OBVIOUS
    <3>5. QED
      BY <3>1, <3>2, <3>3, <3>4
  <2>4. changes = 0 => OnTheWay'
    BY <1>1, <1>2, <2>2, <2>3 DEF OnTheWay, At
  <2>5. QED
    BY <1>1, <2>1, <2>2, <2>4, GoingOnSettles
<1>4. CASE cubes[run.at] # "empty" /\ message.format \in Formats \ {"zarr"}
  <2>1. run.at \in Full
    BY <1>1, <1>4 DEF Full
  <2>2. /\ files' = [files EXCEPT ![run.at] = Partial] /\ UNCHANGED ended
        /\ run' = [run EXCEPT !.pc = "partOpen", !.read = @ \cup {<<run.at, changes>>}]
    BY <1>4 DEF OpenPart
  <2>3. run'.pc = "partOpen" /\ run'.at = run.at /\ run'.paths = run.paths
    BY <1>1, <2>2 DEF Runs
  <2>4. run.at \in MayExist
    BY <1>1, <1>4, <2>1, DatasetComesTo
  <2>5. changes = 0 => \A i \in Files : files'[i].is # "absent" => i \in MayExist
    BY <1>1, <2>2, <2>4
  <2>6. changes = 0 => OnTheWay'
    BY <1>1, <1>2, <1>4, <2>1, <2>3 DEF OnTheWay, At
  <2>7. QED
    BY <1>1, <2>2, <2>3, <2>5, <2>6, GoingOnSettles
<1>5. CASE cubes[run.at] # "empty" /\ message.format \notin Formats \ {"zarr"}
  <2>1. Raise /\ UNCHANGED files
    BY <1>5 DEF OpenPart
  <2>2. run.at \in Full
    BY <1>1, <1>5 DEF Full
  <2>3. Outcome = Raised
    BY <1>1, <1>5, <2>2, DatasetComesTo
  <2>4. QED
    BY <1>1, <2>1, <2>3, RaiseSettles
<1>6. QED
  BY <1>3, <1>4, <1>5

LEMMA ClosePartSettles ==
    ASSUME TypeInv, Written, Kept, Settled, ClosePart
    PROVE  Kept' /\ Settled'
<1>1. /\ run \in Runs /\ run.pc = "partOpen" /\ kind = "dataset" /\ message.type = "query"
      /\ kind # "none" /\ Steady /\ run.at \in Cubes /\ UNCHANGED ended
      /\ files \in [Files -> FileRecords]
      /\ changes = 0 => \A i \in Files : files[i].is # "absent" => i \in MayExist
      /\ changes = 0 => run.paths = {i \in Full : i < run.at} /\ run.at \in Full
                           /\ message.format \in Formats \ {"zarr"}
  BY TypeParts DEF TypeInv, ClosePart, At, Kept, Settled, LeftByAttempts, OnTheWay
<1>2. Full' = Full /\ message' = message
  BY <1>1, SameOutcome DEF Steady
<1>3. run'.pc = "part" /\ run'.at = run.at + 1 /\ run'.paths = run.paths \cup {run.at}
  BY <1>1 DEF ClosePart, Runs
<1>4. changes = 0 => {i \in Full : i < run.at + 1} = {i \in Full : i < run.at} \cup {run.at}
  <2>1. \A i, j \in Nat : i < j + 1 <=> i < j \/ i = j
    OBVIOUS
  <2>2. \A i \in Full : i \in Nat /\ run.at \in Nat
    BY <1>1, Numbers DEF Full
  <2>3. QED
    BY <1>1, <2>1, <2>2
<1>5. changes = 0 => run.at \in MayExist
  BY <1>1, DatasetComesTo
<1>6. \E new : files' = [files EXCEPT ![run.at] = new]
  BY DEF ClosePart
<1>7. changes = 0 => \A i \in Files : files'[i].is # "absent" => i \in MayExist
  BY <1>1, <1>5, <1>6
<1>8. changes = 0 => OnTheWay'
  BY <1>1, <1>2, <1>3, <1>4 DEF OnTheWay, At
<1>9. QED
  BY <1>1, <1>3, <1>7, <1>8, GoingOnSettles

LEMMA CollectSettles ==
    ASSUME TypeInv, Written, Kept, Settled, Collect
    PROVE  Kept' /\ Settled'
<1>1. /\ run \in Runs /\ run.pc = "part" /\ kind = "dataset" /\ message.type = "query"
      /\ kind # "none" /\ Steady /\ run.at \in 1..None /\ run.at \notin Cubes
      /\ run.paths \subseteq Files
      /\ files \in [Files -> FileRecords]
      /\ changes = 0 => \A i \in Files : files[i].is # "absent" => i \in MayExist
      /\ changes = 0 => run.paths = {i \in Full : i < run.at}
      /\ changes = 0 /\ run.paths # {} => message.format \in Formats \ {"zarr"}
  BY TypeParts, Numbers DEF TypeInv, Runs, Collect, At, Kept, Written, Settled, LeftByAttempts,
                            OnTheWay
<1>2. changes = 0 => run.paths = Full
  <2>1. run.at = None
    BY <1>1, Numbers
  <2>2. \A i \in Full : i < None
    BY Numbers DEF Full
  <2>3. QED
    BY <1>1, <2>1, <2>2
<1>3. CASE run.paths = {}
  <2>1. Return(None) /\ UNCHANGED files
    BY <1>3 DEF Collect
  <2>2. changes = 0 => Outcome = None /\ MayExist = {}
    BY <1>1, <1>2, <1>3, DatasetComesTo DEF MayExist
  <2>3. QED
    BY <1>1, <2>1, <2>2, ReturnSettles
<1>4. ASSUME NEW i \in run.paths, run.paths = {i}, Return(i), UNCHANGED files
      PROVE  Kept' /\ Settled'
  <2>1. changes = 0 => Outcome = i /\ MayExist = {i}
    BY <1>1, <1>2, <1>4, DatasetComesTo
  <2>2. QED
    BY <1>1, <1>4, <2>1, ReturnSettles
<1>5. CASE /\ run.paths # {} /\ Cardinality(run.paths) > 1
           /\ files' = [files EXCEPT ![0] = Partial]
           /\ Goto("zip") /\ UNCHANGED ended
  <2>1. run'.pc = "zip" /\ run'.paths = run.paths
    BY <1>5, GotoType
  <2>2. \A i \in run.paths : run.paths # {i}
    <3>1. \A i : Cardinality({i}) = 1
      BY FS_Singleton
    <3>2. QED
      BY <1>5, <3>1
  <2>3. changes = 0 => Outcome = 0 /\ MayExist = {0} \cup Full
    BY <1>1, <1>2, <1>5, <2>2, DatasetComesTo
  <2>4. changes = 0 => \A i \in Files : files'[i].is # "absent" => i \in MayExist
    BY <1>1, <1>5, <2>3
  <2>5. Outcome' = Outcome /\ Full' = Full
    BY <1>1, SameOutcome DEF Steady
  <2>6. changes = 0 => OnTheWay'
    BY <1>2, <2>1, <2>3, <2>5 DEF OnTheWay, At
  <2>7. QED
    BY <1>1, <1>5, <2>1, <2>4, <2>6, GoingOnSettles
<1>6. QED
  BY <1>3, <1>4, <1>5 DEF Collect

LEMMA CloseArchiveSettles ==
    ASSUME TypeInv, Written, Kept, Settled, CloseArchive
    PROVE  Kept' /\ Settled'
<1>1. /\ run \in Runs /\ run.pc = "zip" /\ kind = "dataset" /\ message.type = "query"
      /\ kind # "none" /\ Steady /\ UNCHANGED ended /\ run.paths # {}
      /\ files \in [Files -> FileRecords]
      /\ changes = 0 => \A i \in Files : files[i].is # "absent" => i \in MayExist
      /\ changes = 0 => Outcome = 0 /\ run.paths = Full
  BY TypeParts DEF TypeInv, CloseArchive, At, Kept, Written, Settled, LeftByAttempts, OnTheWay
<1>2. run'.pc = "remove" /\ run'.paths = run.paths
  BY GotoType DEF CloseArchive
<1>3. \E new : files' = [files EXCEPT ![0] = new]
  BY DEF CloseArchive
<1>4. changes = 0 => MayExist = {0} \cup Full
  BY <1>1, Numbers DEF MayExist
<1>5. changes = 0 => \A i \in Files : files'[i].is # "absent" => i \in MayExist
  BY <1>1, <1>3, <1>4
<1>6. changes = 0 => \A i \in Cubes \ run.paths : files'[i].is = "absent"
  BY <1>1, <1>3, <1>4, Numbers
<1>7. Outcome' = Outcome
  BY <1>1, SameOutcome DEF Steady
<1>8. changes = 0 => OnTheWay'
  BY <1>1, <1>2, <1>6, <1>7 DEF OnTheWay, At
<1>9. QED
  BY <1>1, <1>2, <1>5, <1>8, GoingOnSettles

LEMMA RemovePartSettles ==
    ASSUME TypeInv, Written, Kept, Settled, RemovePart
    PROVE  Kept' /\ Settled'
<1> DEFINE i == Min(run.paths)
<1>1. /\ run \in Runs /\ run.pc = "remove" /\ kind = "dataset" /\ message.type = "query"
      /\ kind # "none" /\ Steady /\ run.paths # {} /\ run.paths \subseteq Cubes
      /\ files \in [Files -> FileRecords]
      /\ changes = 0 => \A j \in Files : files[j].is # "absent" => j \in MayExist
      /\ changes = 0 => Outcome = 0
      /\ changes = 0 => \A j \in Cubes \ run.paths : files[j].is = "absent"
  BY TypeParts DEF TypeInv, Runs, RemovePart, At, Kept, Written, Settled, LeftByAttempts,
                   OnTheWay
<1>2. i \in run.paths
  BY <1>1, Numbers, MinIsLeast
<1>3. files' = [files EXCEPT ![i] = NoFile]
  BY DEF RemovePart
<1>4. run.paths = {i} => Return(0)
  BY DEF RemovePart
<1>5. run.paths # {i} => run' = [run EXCEPT !.paths = @ \ {i}] /\ UNCHANGED ended
  BY DEF RemovePart
<1> HIDE DEF i
<1>6. i \in Files /\ files'[i].is = "absent" /\ \A j \in Files : j # i => files'[j] = files[j]
  BY <1>1, <1>2, <1>3, Numbers DEF NoFile
<1>7. changes = 0 => \A j \in Files : files'[j].is # "absent" => j \in MayExist
  BY <1>1, <1>6
<1>8. changes = 0 => \A j \in Cubes \ (run.paths \ {i}) : files'[j].is = "absent"
  BY <1>1, <1>6, Numbers
<1>9. CASE run.paths = {i}
  <2>1. changes = 0 => \A j \in Files : files'[j].is # "absent" => j = 0
    <3>1. \A j \in Files : j = 0 \/ j \in Cubes
      BY MaxCubesAssumption DEF Files, Cubes
    <3>2. QED
      BY <1>8, <1>9, <3>1
  <2>2. QED
    BY <1>1, <1>4, <1>7, <1>9, <2>1, Numbers, ReturnSettles
<1>10. CASE run.paths # {i}
  <2>1. run'.pc = "remove" /\ run'.paths = run.paths \ {i} /\ UNCHANGED ended
    BY <1>1, <1>5, <1>10 DEF Runs
  <2>2. Outcome' = Outcome
    BY <1>1, SameOutcome DEF Steady
  <2>3. changes = 0 => OnTheWay'
    BY <1>1, <1>8, <2>1, <2>2 DEF OnTheWay, At
  <2>4. QED
    BY <1>1, <1>7, <2>1, <2>3, GoingOnSettles
<1>11. QED
  BY <1>9, <1>10

LEMMA CommitSettles ==
    ASSUME TypeInv, Kept, Settled, CommitRow
    PROVE  Kept' /\ Settled'
<1>1. Outcome' = Outcome /\ MayExist' = MayExist /\ Full' = Full
  BY SameOutcome DEF CommitRow
<1>2. Kept'
  BY DEF CommitRow, Kept, At
<1>3. Settled'
  BY <1>1 DEF CommitRow, Settled, LeftByAttempts, OnTheWay, NothingLeftBehind, At
<1>4. QED
  BY <1>2, <1>3

LEMMA DeliverySettles ==
    ASSUME TypeInv, Kept, Settled, NEW k \in Kinds, Deliver(k)
    PROVE  Kept' /\ Settled'
<1>1. run'.pc = "process"
  BY DEF Deliver, NotRunning
<1>2. "none" \notin Kinds
  BY DEF Kinds, DataCubes
<1>3. /\ kind' = IF kind = "none" THEN k ELSE kind
      /\ UNCHANGED <<message, cubes, files, ended, rows, changes>>
  BY DEF Deliver
<1>4. Kept'
  BY <1>1, <1>2, <1>3 DEF Kept, At
<1>5. OnTheWay' /\ NothingLeftBehind'
  BY <1>1 DEF OnTheWay, NothingLeftBehind, At
<1>6. CASE kind = "none"
  <2>1. ended' = {} /\ \A i \in Files : files'[i].is = "absent"
    BY <1>3, <1>6 DEF Kept, NoFile
  <2>2. LeftByAttempts'
    BY <2>1 DEF LeftByAttempts
  <2>3. QED
    BY <1>4, <1>5, <2>2 DEF Settled
<1>7. CASE kind # "none"
  <2>1. Outcome' = Outcome /\ MayExist' = MayExist
    BY <1>3, <1>7, SameOutcome
  <2>2. changes' = 0 => LeftByAttempts'
    BY <1>3, <1>7, <2>1 DEF Settled, LeftByAttempts
  <2>3. QED
    BY <1>4, <1>5, <2>2 DEF Settled
<1>8. QED
  BY <1>6, <1>7

LEMMA OthersSettle ==
    ASSUME TypeInv, Kept, Settled, [Next]_vars, ~PersistStep,
           ~\E k \in Kinds : Deliver(k)
    PROVE  Kept' /\ Settled'
<1>1. CASE Submission
  <2>1. run.pc = "new" /\ run \in Runs /\ UNCHANGED Process
    BY <1>1, TypeParts DEF TypeInv, Submission, SubmitBody, SubmitMap, SubmitWorkflow, At
  <2>2. run' = run \/ Goto("sent") \/ Goto("unread")
    BY <1>1, SubmissionGoes
  <2>3. run'.pc \in {"new", "sent", "unread"}
    BY <2>1, <2>2 DEF Goto, Runs
  <2>4. kind' = "none"
    BY <2>1 DEF Kept, Process
  <2>5. QED
    BY <2>1, <2>3, <2>4 DEF Kept, Settled, Process, At
<1>2. CASE Crash
  <2>1. run'.pc = "idle" /\ Steady /\ UNCHANGED <<files, ended>> /\ kind # "none"
    BY <1>2 DEF Crash, Running, NotRunning, Kept
  <2>2. OnTheWay'
    BY <2>1 DEF OnTheWay, At
  <2>3. changes = 0 => \A i \in Files : files'[i].is # "absent" => i \in MayExist
    BY <2>1 DEF Settled, LeftByAttempts
  <2>4. QED
    BY <2>1, <2>2, <2>3, GoingOnSettles
<1>3. ASSUME NEW i \in Cubes, NEW content \in {"data", "empty"}, ChangeData(i, content)
      PROVE  Kept' /\ Settled'
  <2>1. changes' # 0
    BY <1>3, BoundsAssumption, TypeParts DEF ChangeData, TypeInv
  <2>2. QED
    BY <1>3, <2>1 DEF ChangeData, Kept, Settled, At
<1>4. CASE UNCHANGED vars
  <2>1. Outcome' = Outcome /\ MayExist' = MayExist /\ Full' = Full
    BY <1>4, SameOutcome DEF vars
  <2>2. QED
    BY <1>4, <2>1 DEF vars, Kept, Settled, LeftByAttempts, OnTheWay, NothingLeftBehind, At
<1>5. QED
  BY <1>1, <1>2, <1>3, <1>4 DEF Next

AttemptInv == TypeInv /\ Written /\ ResultIsComplete /\ Kept /\ Settled

LEMMA AttemptsAlways == Spec => []AttemptInv
<1>1. Init => Kept /\ Settled
  <2>1. Init => run.pc = "new"
    BY DEF Init, NotRunning
  <2>2. QED
    BY <2>1 DEF Init, Kept, Settled, At
<1>2. TypeInv /\ Written /\ Kept /\ Settled /\ [Next]_vars => (Kept /\ Settled)'
  BY StartSettles, OpenCubeSettles, CloseCubeSettles, OpenPartSettles, ClosePartSettles,
     CollectSettles, CloseArchiveSettles, RemovePartSettles, FailSettles, CommitSettles,
     DeliverySettles,
     OthersSettle DEF PersistStep
<1>3. (TypeInv /\ Written /\ ResultIsComplete) /\ (Kept /\ Settled) <=> AttemptInv
  BY DEF AttemptInv
<1>4. QED
  BY <1>1, <1>2, <1>3, WrittenAlways, PTL DEF Spec

(* Processing a request again is harmless while the data stay as they are: *)
(* every attempt that ends comes to the same or fails, whatever attempts   *)
(* before it were killed or failed, and all rows name one complete file    *)
(* (AttemptsAgree).                                                        *)
THEOREM AttemptsAlwaysAgree == Spec => []AttemptsAgree
<1>1. AttemptInv => AttemptsAgree
  <2> SUFFICES ASSUME AttemptInv, changes = 0
               PROVE  /\ Cardinality(ended \ {Failed}) <= 1 /\ rows \subseteq ended
                      /\ At("returned") =>
                            \A path \in rows \ {None} : files[path].is = "complete"
    BY DEF AttemptsAgree
  <2>1. ended \subseteq {Outcome, Failed} /\ rows \subseteq ended
    BY DEF AttemptInv, Kept, Settled, LeftByAttempts
  <2>2. Cardinality(ended \ {Failed}) <= 1
    <3>1. CASE ended \ {Failed} = {}
      BY <3>1, FS_EmptySet
    <3>2. CASE ended \ {Failed} = {Outcome}
      BY <3>2, FS_Singleton
    <3>3. QED
      BY <2>1, <3>1, <3>2
  <2>3. ASSUME At("returned"), NEW path \in rows, path # None
        PROVE  files[path].is = "complete"
    <3>1. kind # "none"
      BY <2>3 DEF AttemptInv, Kept, At
    <3>2. path # Failed
      BY <2>3, Numbers, TypeParts DEF AttemptInv, TypeInv
    <3>3. path = run.result
      BY <2>1, <2>3, <3>1, <3>2 DEF AttemptInv, Settled, OnTheWay
    <3>4. files[path] = Complete(run.read)
      BY <2>3, <3>3 DEF AttemptInv, ResultIsComplete
    <3>5. QED
      BY <3>4 DEF Complete
  <2>4. QED
    BY <2>1, <2>2, <2>3
<1>2. QED
  BY <1>1, AttemptsAlways, PTL

(* An attempt that returns has removed what attempts that were killed or   *)
(* failed have left (NothingLeftBehind).                                   *)
THEOREM NothingIsLeftBehind == Spec => []NothingLeftBehind
<1>1. AttemptInv => NothingLeftBehind
  BY DEF AttemptInv, Kept, Settled, NothingLeftBehind, At
<1>2. QED
  BY <1>1, AttemptsAlways, PTL
====

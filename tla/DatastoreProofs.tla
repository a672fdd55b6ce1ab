---------------------------- MODULE DatastoreProofs ----------------------------
(***************************************************************************)
(* Theorems about Datastore, for every number of products, workers,        *)
(* changes by the operator, killed processes and failing calls: the cache  *)
(* file of a product is damaged, rewritten or out of step with the cache   *)
(* in memory for no other reasons than those the model records.            *)
(***************************************************************************)
EXTENDS Datastore, TLAPS

(* Why types are kept: what a step uses has been set by the steps before.  *)
ReaderHasProduct ==
    \A x \in Readers : ~Reading(x, "idle") => Product(x) \in Products

WriterHasCube ==
    \A x \in Readers :
        /\ reader[x].pc \in {"open", "write"} => reader[x].caching
        /\ reader[x].pc \in {"open", "write", "done"} => reader[x].cube \in Sizes

ApiHasProduct ==
    api.pc \notin {"down", "loading", "up"} => api.product \in Products

(* The API reads one product at a time, for the call it is in.             *)
ApiReadsForCall ==
    /\ api.pc \in {"down", "loading", "up", "assert", "lookup"} => Reading("api", "idle")
    /\ api.pc = "admit" => reader["api"].pc \in {"idle", "done"}
    /\ api.pc = "loadRead" => reader["api"].caching /\ Product("api") = api.product

TypeInv ==
    /\ TypeOK
    /\ ReaderHasProduct
    /\ WriterHasCube
    /\ ApiHasProduct
    /\ ApiReadsForCall

(* As long as no process has found the file missing while another was      *)
(* making it, a product has one maker, which meets no other writer, and    *)
(* only while there is no whole file.                                      *)
OneMaker ==
    "race" \notin causes =>
        /\ \A x, y \in Readers :
              \A p \in Products : x \in Makers(p) /\ y \in Makers(p) => x = y
        /\ \A x \in Readers : Reading(x, "write") => ~reader[x].clash
        /\ \A x \in Readers :
              \A p \in Products : x \in Makers(p) => pickle[p] \notin Sizes

(* As long as nobody has removed the file either, it holds the cube of     *)
(* every read that has gone through it and of the cache in memory.         *)
OneCube ==
    {"race", "cacheFile"} \cap causes = {} =>
        /\ \A x \in Readers :
              Reading(x, "done") /\ reader[x].caching =>
                  reader[x].cube \in Sizes /\ pickle[Product(x)] = reader[x].cube
        /\ \A p \in Products : cache[p] # "none" => pickle[p] = cache[p]

Inv == TypeInv /\ OneMaker /\ OneCube /\ DamageHasCause

------------------------------------------------------------------------------
(* Types.                                                                  *)

ReaderRecords ==
    [pc : {"idle", "test", "load", "build", "open", "write", "done",
           "ValueError", "error"},
     product : Products \cup {"none"},
     cube : Sizes \cup {"none"}, caching : BOOLEAN, clash : BOOLEAN]

ApiRecords ==
    [pc : {"down", "loading", "loadRead", "up", "assert", "lookup",
           "estimateRead", "detailsRead", "admit"},
     product : Products \cup {"none"},
     sets : SUBSET Datasets, todo : SUBSET Products]

LEMMA InitTypeInv == Init => TypeInv
  BY MaxEditsAssumption, MaxFaultsAssumption
     DEF Init, TypeInv, TypeOK, NotReading, ReaderHasProduct, WriterHasCube,
         ApiHasProduct, ApiReadsForCall, Reading, Product, Sizes, Readers, Causes

(* The steps of one read touch the reader's record, the cache file and the *)
(* causes; ReadStep is the rest.                                           *)
LEMMA DriverStepType ==
    ASSUME TypeInv, NEW x \in Readers, DriverStep(x)
    PROVE  TypeInv'
<1>1. /\ reader \in [Readers -> ReaderRecords]
      /\ ~Reading(x, "idle") /\ Product(x) \in Products
      /\ pickle \in [Products -> Sizes \cup {"absent", "damaged"}]
      /\ data[Product(x)] \in Sizes \cup {"broken"}
      /\ causes \subseteq Causes
  BY DEF TypeInv, TypeOK, ReaderRecords, ReaderHasProduct, DriverStep, TestCache,
         LoadPickle, BuildCube, OpenCacheFile, DumpPickle, Reading
<1>2. ReadStep
  BY DEF DriverStep, TestCache, LoadPickle, BuildCube, OpenCacheFile, DumpPickle
<1>3. /\ reader' \in [Readers -> ReaderRecords]
      /\ pickle' \in [Products -> Sizes \cup {"absent", "damaged"}]
      /\ causes' \subseteq Causes
  <2>1. CASE TestCache(x)
    BY <1>1, <2>1 DEF TestCache, ReaderAt, ReaderRecords, Causes
  <2>2. CASE LoadPickle(x)
    BY <1>1, <2>2 DEF LoadPickle, ReadRaises, ReaderAt, ReaderRecords
  <2>3. CASE BuildCube(x)
    BY <1>1, <2>3 DEF BuildCube, ReadRaises, ReaderAt, ReaderRecords
  <2>4. CASE OpenCacheFile(x)
    BY <1>1, <2>4 DEF OpenCacheFile, ReaderRecords, Writers
  <2>5. CASE DumpPickle(x)
    <3>1. reader[x].cube \in Sizes
      BY <2>5 DEF DumpPickle, TypeInv, WriterHasCube, Reading
    <3>2. QED
      BY <1>1, <2>5, <3>1 DEF DumpPickle, ReaderAt, ReaderRecords
  <2>6. QED
    BY <2>1, <2>2, <2>3, <2>4, <2>5 DEF DriverStep
<1>4. TypeOK'
  BY <1>2, <1>3 DEF TypeInv, TypeOK, ReadStep, ReaderRecords
<1>5. \A y \in Readers :
         /\ reader'[y].product = reader[y].product
         /\ reader'[y].caching = reader[y].caching
         /\ y # x => reader'[y].pc = reader[y].pc /\ reader'[y].cube = reader[y].cube
  <2>1. CASE TestCache(x)
    BY <1>1, <2>1 DEF TestCache, ReaderAt, ReaderRecords
  <2>2. CASE LoadPickle(x)
    BY <1>1, <2>2 DEF LoadPickle, ReadRaises, ReaderAt, ReaderRecords
  <2>3. CASE BuildCube(x)
    BY <1>1, <2>3 DEF BuildCube, ReadRaises, ReaderAt, ReaderRecords
  <2>4. CASE OpenCacheFile(x)
    BY <1>1, <2>4 DEF OpenCacheFile, ReaderRecords
  <2>5. CASE DumpPickle(x)
    BY <1>1, <2>5 DEF DumpPickle, ReaderAt, ReaderRecords
  <2>6. QED
    BY <2>1, <2>2, <2>3, <2>4, <2>5 DEF DriverStep
<1>6. ReaderHasProduct'
  BY <1>1, <1>5 DEF TypeInv, ReaderHasProduct, Reading, Product
<1>7. WriterHasCube'
  <2>1. /\ reader'[x].pc \in {"open", "write"} => reader'[x].caching
        /\ reader'[x].pc \in {"open", "write", "done"} => reader'[x].cube \in Sizes
    <3>1. CASE TestCache(x)
      BY <1>1, <3>1 DEF TestCache, ReaderAt, ReaderRecords
    <3>2. CASE LoadPickle(x)
      BY <1>1, <3>2 DEF LoadPickle, ReadRaises, ReaderAt, ReaderRecords
    <3>3. CASE BuildCube(x)
      BY <1>1, <3>3 DEF BuildCube, ReadRaises, ReaderAt, ReaderRecords
    <3>4. CASE OpenCacheFile(x)
      BY <1>1, <3>4 DEF OpenCacheFile, ReaderRecords, TypeInv, WriterHasCube, Reading
    <3>5. CASE DumpPickle(x)
      BY <1>1, <3>5 DEF DumpPickle, ReaderAt, ReaderRecords, TypeInv, WriterHasCube,
                        Reading
    <3>6. QED
      BY <3>1, <3>2, <3>3, <3>4, <3>5 DEF DriverStep
  <2>2. QED
    BY <1>5, <2>1 DEF TypeInv, WriterHasCube
<1>8. ApiHasProduct'
  BY <1>2 DEF ReadStep, TypeInv, ApiHasProduct
<1>9. ApiReadsForCall'
  <2>1. reader[x].pc \notin {"idle", "done"}
    BY DEF DriverStep, TestCache, LoadPickle, BuildCube, OpenCacheFile,
           DumpPickle, Reading
  <2>2. "api" \in Readers
    BY DEF Readers
  <2>3. QED
    BY <1>2, <1>5, <2>1, <2>2 DEF TypeInv, ApiReadsForCall, ReadStep, Reading, Product
<1>10. QED
  BY <1>4, <1>6, <1>7, <1>8, <1>9 DEF TypeInv

(* All the other steps begin a read, end one or leave it alone.            *)
Began(x) ==
    \E p \in Products :
        /\ reader'[x].pc = IF entry[p] = "cached" THEN "test" ELSE "build"
        /\ reader'[x].product = p
        /\ reader'[x].cube = "none"
        /\ reader'[x].caching = (entry[p] = "cached")

BeginsOrEnds(x) ==
    /\ reader' \in [Readers -> ReaderRecords]
    /\ reader'[x] = NotReading \/ Began(x)
    /\ \A y \in Readers : y # x => reader'[y] = reader[y]

LEMMA ReadProductBegins ==
    ASSUME reader \in [Readers -> ReaderRecords], NEW x \in Readers,
           NEW p \in Products, ReadProduct(x, p)
    PROVE  /\ BeginsOrEnds(x)
           /\ ~Reading(x, "idle")'
           /\ Product(x)' = p
           /\ reader'[x].caching = (entry[p] = "cached")
<1> DEFINE r == [NotReading EXCEPT
                     !.pc = IF entry[p] = "cached" THEN "test" ELSE "build",
                     !.product = p,
                     !.caching = (entry[p] = "cached")]
<1>1. reader' = [reader EXCEPT ![x] = r]
  BY DEF ReadProduct
<1>2. r \in ReaderRecords
  BY DEF ReaderRecords, NotReading
<1>3. /\ r.pc = IF entry[p] = "cached" THEN "test" ELSE "build"
      /\ r.product = p
      /\ r.cube = "none"
      /\ r.caching = (entry[p] = "cached")
  BY DEF NotReading
<1>4. reader'[x] = r /\ \A y \in Readers : y # x => reader'[y] = reader[y]
  BY <1>1
<1>5. reader' \in [Readers -> ReaderRecords]
  BY <1>1, <1>2
<1>6. BeginsOrEnds(x)
  BY <1>3, <1>4, <1>5 DEF BeginsOrEnds, Began
<1> QED
  BY <1>3, <1>4, <1>6 DEF Reading, Product

LEMMA EndReadEnds ==
    ASSUME reader \in [Readers -> ReaderRecords], NEW x \in Readers, EndRead(x)
    PROVE  BeginsOrEnds(x) /\ Reading(x, "idle")'
<1>1. NotReading \in ReaderRecords
  BY DEF NotReading, ReaderRecords
<1>2. NotReading.pc = "idle"
  BY DEF NotReading
<1>3. reader'[x] = NotReading /\ \A y \in Readers : y # x => reader'[y] = reader[y]
  BY DEF EndRead
<1>4. reader' \in [Readers -> ReaderRecords]
  BY <1>1 DEF EndRead
<1> QED
  BY <1>2, <1>3, <1>4 DEF BeginsOrEnds, Reading

(* What a caller's step keeps of the readers.                              *)
LEMMA BeginsOrEndsType ==
    ASSUME TypeInv, NEW x \in Readers, BeginsOrEnds(x)
    PROVE  ReaderHasProduct' /\ WriterHasCube'
<1>1. \/ reader'[x].pc = "idle"
      \/ /\ reader'[x].product \in Products
         /\ reader'[x].pc \notin {"open", "write", "done"}
  <2>1. CASE reader'[x] = NotReading
    BY <2>1 DEF NotReading
  <2>2. CASE Began(x)
    BY <2>2 DEF Began
  <2>3. QED
    BY <2>1, <2>2 DEF BeginsOrEnds
<1>2. ReaderHasProduct'
  BY <1>1 DEF BeginsOrEnds, TypeInv, ReaderHasProduct, Reading, Product
<1>3. WriterHasCube'
  BY <1>1 DEF BeginsOrEnds, TypeInv, WriterHasCube
<1> QED
  BY <1>2, <1>3

(* The API's own read is over or has not begun when the API takes a step.  *)
LEMMA ApiStepType ==
    ASSUME TypeInv,
           ApiNext \/ \E p \in Products, label \in {"assert", "lookup"} : Call(p, label)
    PROVE  /\ TypeInv'
           /\ \/ UNCHANGED reader
              \/ /\ BeginsOrEnds("api")
                 /\ reader["api"].pc \in {"idle", "done", "ValueError", "error"}
           /\ ApiStep
<1>1. /\ reader \in [Readers -> ReaderRecords]
      /\ api \in ApiRecords
      /\ "api" \in Readers
      /\ cache \in [Products -> Sizes \cup {"none"}]
      /\ request \in [Products -> Sizes \cup {"none"}]
      /\ api.pc \notin {"down", "loading", "up"} => api.product \in Products
      /\ api.pc \in {"down", "loading", "up", "assert", "lookup"} => reader["api"].pc = "idle"
      /\ api.pc = "admit" => reader["api"].pc \in {"idle", "done"}
      /\ reader["api"].pc \in {"done", "ValueError", "error"} => Product("api") \in Products
  BY DEF TypeInv, TypeOK, ReaderRecords, ApiRecords, ApiHasProduct, ApiReadsForCall,
         ReaderHasProduct, Reading, Readers
<1> DEFINE Effect ==
        /\ api' \in ApiRecords
        /\ cache' \in [Products -> Sizes \cup {"none"}]
        /\ request' \in [Products -> Sizes \cup {"none"}]
        /\ ApiHasProduct' /\ ApiReadsForCall'
        /\ ApiStep
        /\ \/ UNCHANGED reader
           \/ /\ BeginsOrEnds("api")
              /\ reader["api"].pc \in {"idle", "done", "ValueError", "error"}
<1>2. SUFFICES Effect
  <2>1. reader' \in [Readers -> ReaderRecords]
    BY <1>1, <1>2 DEF BeginsOrEnds
  <2>2. TypeOK'
    BY <1>2, <2>1 DEF TypeInv, TypeOK, ApiStep, ReaderRecords, ApiRecords
  <2>3. ReaderHasProduct' /\ WriterHasCube'
    <3>1. CASE UNCHANGED reader
      BY <3>1 DEF TypeInv, ReaderHasProduct, WriterHasCube, Reading, Product
    <3>2. CASE BeginsOrEnds("api")
      BY <1>1, <3>2, BeginsOrEndsType
    <3>3. QED
      BY <1>2, <3>1, <3>2
  <2>4. QED
    BY <1>2, <2>2, <2>3 DEF TypeInv
<1> DEFINE Quiet == UNCHANGED <<reader, cache, request>> /\ ApiStep
<1>3. CASE StartApi
  BY <1>1, <1>3 DEF StartApi, ApiAt, ApiRecords, ApiHasProduct, ApiReadsForCall, Reading
<1>14. ASSUME NEW d \in Datasets, ListDataset(d) PROVE Effect
  <2>1. /\ api.pc = "loading" /\ ApiStep
        /\ UNCHANGED <<cache, reader, request>>
    BY <1>14 DEF ListDataset, ApiAt
  <2>2. CASE ApiDown
    BY <1>1, <2>1, <2>2 DEF ApiDown, ApiRecords, ApiHasProduct, ApiReadsForCall, Reading
  <2>3. CASE api' = [api EXCEPT !.sets = @ \ {d}, !.todo = d \cap Listed]
    <3>1. d \cap Listed \subseteq Products
      BY DEF Listed
    <3>2. QED
      BY <1>1, <2>1, <2>3, <3>1 DEF ApiRecords, ApiHasProduct, ApiReadsForCall, Reading
  <2>4. QED
    BY <1>14, <2>2, <2>3 DEF ListDataset
<1>4. ASSUME NEW p \in Products, LoadProduct(p) PROVE Effect
  <2>1. /\ api.pc = "loading" /\ p \in Products /\ ApiStep
        /\ UNCHANGED <<cache, request>>
    BY <1>4 DEF LoadProduct, ApiAt
  <2>2. CASE entry[p] = "absent" /\ ApiDown /\ UNCHANGED reader
    BY <1>1, <2>1, <2>2 DEF ApiDown, ApiRecords, ApiHasProduct, ApiReadsForCall, Reading
  <2>3. CASE /\ UNCHANGED reader
             /\ api' = [api EXCEPT !.todo = @ \ {p}]
    BY <1>1, <2>1, <2>3 DEF ApiRecords, ApiHasProduct, ApiReadsForCall, Reading
  <2>4. CASE /\ entry[p] = "cached" /\ ReadProduct("api", p)
             /\ api' = [api EXCEPT !.pc = "loadRead", !.product = p, !.todo = @ \ {p}]
    <3>1. /\ BeginsOrEnds("api") /\ Product("api")' = p
          /\ reader'["api"].caching
      BY <1>1, <2>4, ReadProductBegins
    <3>2. api' \in ApiRecords /\ api'.pc = "loadRead" /\ api'.product = p
      BY <1>1, <2>4 DEF ApiRecords
    <3>3. QED
      BY <1>1, <2>1, <3>1, <3>2 DEF ApiHasProduct, ApiReadsForCall, Reading
  <2>5. QED
    BY <1>4, <2>2, <2>3, <2>4 DEF LoadProduct
<1>5. CASE ProductLoaded
  <2>1. BeginsOrEnds("api") /\ Reading("api", "idle")'
    BY <1>1, <1>5, EndReadEnds DEF ProductLoaded
  <2>2. /\ reader["api"].pc \in {"done", "ValueError", "error"}
        /\ api.product \in Products
    BY <1>1, <1>5 DEF ProductLoaded, ReadReturns, ApiAt
  <2>3. reader["api"].pc = "done" => reader["api"].cube \in Sizes
    BY <1>1 DEF TypeInv, WriterHasCube
  <2>4. QED
    BY <1>1, <1>5, <2>1, <2>2, <2>3 DEF ProductLoaded, ApiDown, ApiGoto, ApiRecords,
        ApiHasProduct, ApiReadsForCall, Reading, ApiAt
<1>6. CASE CacheLoaded
  BY <1>1, <1>6 DEF CacheLoaded, ApiIdle, ApiAt, ApiRecords, ApiHasProduct,
                    ApiReadsForCall, Reading
<1>7. ASSUME NEW p \in Products, NEW label \in {"assert", "lookup"}, Call(p, label)
      PROVE  Effect
  BY <1>1, <1>7 DEF Call, ApiAt, ApiRecords, ApiHasProduct, ApiReadsForCall, Reading
<1>8. CASE Estimate
  <2>1. api.pc = "assert" /\ api.product \in Products /\ reader["api"].pc = "idle"
        /\ UNCHANGED <<cache, request>> /\ ApiStep
    BY <1>1, <1>8 DEF Estimate, ApiAt
  <2>2. CASE UNCHANGED reader /\ (ApiIdle \/ ApiGoto("admit"))
    BY <1>1, <2>1, <2>2 DEF ApiIdle, ApiGoto, ApiRecords, ApiHasProduct,
                            ApiReadsForCall, Reading
  <2>3. CASE ApiGoto("estimateRead") /\ ReadProduct("api", api.product)
    <3>1. BeginsOrEnds("api")
      BY <1>1, <2>1, <2>3, ReadProductBegins
    <3>2. QED
      BY <1>1, <2>1, <2>3, <3>1 DEF ApiGoto, ApiRecords, ApiHasProduct, ApiReadsForCall
  <2>4. QED
    BY <1>8, <2>2, <2>3 DEF Estimate
<1>9. CASE ProductDetails
  <2>1. api.pc = "lookup" /\ api.product \in Products /\ reader["api"].pc = "idle"
        /\ UNCHANGED <<cache, request>> /\ ApiStep
    BY <1>1, <1>9 DEF ProductDetails, ApiAt
  <2>2. CASE UNCHANGED reader /\ ApiIdle
    BY <1>1, <2>1, <2>2 DEF ApiIdle, ApiRecords, ApiHasProduct, ApiReadsForCall, Reading
  <2>3. CASE ApiGoto("detailsRead") /\ ReadProduct("api", api.product)
    <3>1. BeginsOrEnds("api")
      BY <1>1, <2>1, <2>3, ReadProductBegins
    <3>2. QED
      BY <1>1, <2>1, <2>3, <3>1 DEF ApiGoto, ApiRecords, ApiHasProduct, ApiReadsForCall
  <2>4. QED
    BY <1>9, <2>2, <2>3 DEF ProductDetails
<1>10. CASE DetailsRead
  <2>1. BeginsOrEnds("api") /\ Reading("api", "idle")'
    BY <1>1, <1>10, EndReadEnds DEF DetailsRead
  <2>2. QED
    BY <1>1, <1>10, <2>1 DEF DetailsRead, ReadReturns, ApiIdle, ApiRecords,
                             ApiHasProduct, ApiReadsForCall
<1>11. CASE EstimateRead
  <2>1. CASE Reading("api", "done")
    BY <1>1, <1>11, <2>1 DEF EstimateRead, ApiAt, ApiGoto, ApiRecords, ApiHasProduct,
                             ApiReadsForCall, Reading
  <2>2. CASE ~Reading("api", "done")
    <3>1. BeginsOrEnds("api") /\ Reading("api", "idle")'
      BY <1>1, <1>11, <2>2, EndReadEnds DEF EstimateRead
    <3>2. QED
      BY <1>1, <1>11, <2>2, <3>1 DEF EstimateRead, ReadReturns, ApiIdle, ApiRecords,
                                     ApiHasProduct, ApiReadsForCall
  <2>3. QED
    BY <2>1, <2>2
<1>12. CASE Admit
  <2>1. BeginsOrEnds("api") /\ Reading("api", "idle")'
    BY <1>1, <1>12, EndReadEnds DEF Admit
  <2>2. request' \in [Products -> Sizes \cup {"none"}]
    BY <1>1, <1>12 DEF Admit, Sizes
  <2>3. reader["api"].pc \in {"idle", "done"}
    BY <1>1, <1>12 DEF Admit, ApiAt
  <2>4. QED
    BY <1>1, <1>12, <2>1, <2>2, <2>3 DEF Admit, ApiIdle, ApiRecords, ApiHasProduct,
                                         ApiReadsForCall
<1>13. QED
  BY <1>3, <1>4, <1>5, <1>6, <1>7, <1>8, <1>9, <1>10, <1>11, <1>12, <1>14 DEF ApiNext

LEMMA WorkerStepType ==
    ASSUME TypeInv, NEW w \in Workers,
           QueryReturns(w) \/ \E p \in Products : Query(w, p)
    PROVE  /\ TypeInv'
           /\ \/ UNCHANGED reader
              \/ /\ BeginsOrEnds(w)
                 /\ reader[w].pc \in {"idle", "done", "ValueError", "error"}
           /\ WorkerStep
<1>1. /\ reader \in [Readers -> ReaderRecords]
      /\ w \in Readers /\ w # "api"
      /\ request \in [Products -> Sizes \cup {"none"}]
      /\ processed \in [Products -> Sizes \cup {"none", "FAILED"}]
      /\ ReaderHasProduct /\ WriterHasCube
  BY ApiIsNoWorker DEF TypeInv, TypeOK, ReaderRecords, Readers
<1> DEFINE Effect ==
        /\ request' \in [Products -> Sizes \cup {"none"}]
        /\ processed' \in [Products -> Sizes \cup {"none", "FAILED"}]
        /\ WorkerStep
        /\ \/ UNCHANGED reader
           \/ /\ BeginsOrEnds(w)
              /\ reader[w].pc \in {"idle", "done", "ValueError", "error"}
<1>2. SUFFICES Effect
  <2>1. reader' \in [Readers -> ReaderRecords] /\ reader'["api"] = reader["api"]
    BY <1>1, <1>2 DEF BeginsOrEnds, Readers
  <2>2. TypeOK'
    BY <1>2, <2>1 DEF TypeInv, TypeOK, WorkerStep, ReaderRecords
  <2>3. ReaderHasProduct' /\ WriterHasCube'
    <3>1. CASE UNCHANGED reader
      BY <1>1, <3>1 DEF ReaderHasProduct, WriterHasCube, Reading, Product
    <3>2. CASE BeginsOrEnds(w)
      BY <1>1, <3>2, BeginsOrEndsType
    <3>3. QED
      BY <1>2, <3>1, <3>2
  <2>4. ApiHasProduct' /\ ApiReadsForCall'
    BY <1>2, <2>1 DEF WorkerStep, TypeInv, ApiHasProduct, ApiReadsForCall, Reading, Product
  <2>5. QED
    BY <1>2, <2>2, <2>3, <2>4 DEF TypeInv
<1>3. CASE QueryReturns(w)
  <2>1. reader[w].pc \in {"done", "ValueError", "error"} /\ EndRead(w)
    BY <1>3 DEF QueryReturns, ReadReturns
  <2>2. BeginsOrEnds(w)
    BY <1>1, <2>1, EndReadEnds
  <2>3. reader[w].pc = "done" => reader[w].cube \in Sizes
    BY <1>1 DEF WriterHasCube
  <2>4. QED
    BY <1>1, <1>3, <2>1, <2>2, <2>3 DEF QueryReturns, Reading
<1>4. ASSUME NEW p \in Products, Query(w, p) PROVE Effect
  <2>1. /\ reader[w].pc = "idle" /\ WorkerStep
        /\ \/ /\ UNCHANGED reader
              /\ request' = [request EXCEPT ![p] = "none"]
              /\ processed' = [processed EXCEPT ![p] = "FAILED"]
           \/ /\ ReadProduct(w, p)
              /\ UNCHANGED <<processed, request>>
    BY <1>4 DEF Query, Reading
  <2>2. ReadProduct(w, p) => BeginsOrEnds(w)
    BY <1>1, ReadProductBegins
  <2>3. QED
    BY <1>1, <2>1, <2>2
<1> QED
  BY <1>3, <1>4

LEMMA CrashType == ASSUME TypeInv, NEW x \in Readers, Crash(x) PROVE TypeInv'
<1>1. /\ reader \in [Readers -> ReaderRecords] /\ api \in ApiRecords
      /\ faults \in 0..MaxFaults /\ "api" \in Readers
  BY DEF TypeInv, TypeOK, ReaderRecords, ApiRecords, Readers
<1>2. BeginsOrEnds(x) /\ Reading(x, "idle")'
  BY <1>1, EndReadEnds DEF Crash
<1>3. faults' \in 0..MaxFaults /\ causes' \subseteq Causes
  BY <1>1, MaxFaultsAssumption DEF Crash, TypeInv, TypeOK, Causes
<1>4. api' \in ApiRecords /\ (x = "api" => api'.pc = "down")
      /\ (x # "api" => UNCHANGED api)
  BY <1>1 DEF Crash, ApiDown, ApiRecords
<1>5. TypeOK'
  BY <1>2, <1>3, <1>4 DEF Crash, TypeInv, TypeOK, BeginsOrEnds, ReaderRecords, ApiRecords
<1>6. ReaderHasProduct' /\ WriterHasCube'
  BY <1>2, BeginsOrEndsType
<1>7. ApiHasProduct' /\ ApiReadsForCall'
  BY <1>1, <1>2, <1>4 DEF TypeInv, ApiHasProduct, ApiReadsForCall, BeginsOrEnds,
                          Reading, Product
<1> QED
  BY <1>5, <1>6, <1>7 DEF TypeInv

(* A call of the driver that raises ends the read, and damages no file but *)
(* the one that was being written.                                         *)
LEMMA DriverFailsFrame ==
    ASSUME TypeInv, NEW x \in Readers, DriverFails(x)
    PROVE  /\ reader' \in [Readers -> ReaderRecords]
           /\ ~Reading(x, "idle") /\ reader[x].pc # "done"
           /\ reader'[x].pc \in {"ValueError", "error"}
           /\ \A y \in Readers : /\ reader'[y].product = reader[y].product
                                  /\ reader'[y].caching = reader[y].caching
                                  /\ reader'[y].cube = reader[y].cube
                                  /\ reader'[y].clash = reader[y].clash
           /\ \A y \in Readers : y # x => reader'[y].pc = reader[y].pc
           /\ pickle' \in [Products -> Sizes \cup {"absent", "damaged"}]
           /\ \A p \in Products : pickle'[p] # pickle[p] =>
                 Reading(x, "write") /\ p = Product(x) /\ pickle'[p] = "damaged"
           /\ causes \subseteq causes' /\ causes' \subseteq causes \cup {"dump"}
           /\ Reading(x, "write") => "dump" \in causes'
           /\ UNCHANGED <<entry, data, api, cache, request, processed, edits>>
<1>1. /\ reader \in [Readers -> ReaderRecords]
      /\ pickle \in [Products -> Sizes \cup {"absent", "damaged"}]
  BY DEF TypeInv, TypeOK, ReaderRecords
<1>2. PICK err \in {"ValueError", "error"} : reader' = [reader EXCEPT ![x].pc = err]
  BY DEF DriverFails, ReadRaises, ReaderAt
<1>3. reader[x].pc \in {"load", "build", "open", "write"}
  BY DEF DriverFails
<1>4. /\ reader' \in [Readers -> ReaderRecords]
      /\ reader'[x].pc = err
      /\ \A y \in Readers : /\ reader'[y].product = reader[y].product
                             /\ reader'[y].caching = reader[y].caching
                             /\ reader'[y].cube = reader[y].cube
                             /\ reader'[y].clash = reader[y].clash
      /\ \A y \in Readers : y # x => reader'[y].pc = reader[y].pc
  BY <1>1, <1>2 DEF ReaderRecords
<1>5. \/ UNCHANGED <<pickle, causes>> /\ ~Reading(x, "write")
      \/ /\ Reading(x, "write")
         /\ pickle' \in {pickle, [pickle EXCEPT ![Product(x)] = "damaged"]}
         /\ causes' = causes \cup {"dump"}
  BY DEF DriverFails
<1> QED
  BY <1>1, <1>3, <1>4, <1>5 DEF DriverFails, Reading

LEMMA DriverFailsType ==
    ASSUME TypeInv, NEW x \in Readers, DriverFails(x)
    PROVE  TypeInv'
<1>1. faults' \in 0..MaxFaults
  BY MaxFaultsAssumption DEF DriverFails, TypeInv, TypeOK
<1>2. causes' \subseteq Causes
  BY DriverFailsFrame DEF TypeInv, TypeOK, Causes
<1>3. TypeOK'
  BY <1>1, <1>2, DriverFailsFrame DEF TypeInv, TypeOK, ReaderRecords
<1>4. ReaderHasProduct' /\ WriterHasCube'
  BY DriverFailsFrame DEF TypeInv, ReaderHasProduct, WriterHasCube, Reading, Product
<1>5. ApiHasProduct'
  BY DriverFailsFrame DEF TypeInv, ApiHasProduct
<1>6. ApiReadsForCall'
  <2>1. "api" \in Readers
    BY DEF Readers
  <2>2. QED
    BY <2>1, DriverFailsFrame DEF TypeInv, ApiReadsForCall, Reading, Product
<1> QED
  BY <1>3, <1>4, <1>5, <1>6 DEF TypeInv

Operator == \E p \in Products : EditCatalog(p) \/ ChangeData(p) \/ DeleteCacheFile(p)

LEMMA OperatorType ==
    ASSUME TypeInv, Operator
    PROVE  TypeInv' /\ UNCHANGED <<api, cache, reader>>
<1>1. PICK p \in Products : EditCatalog(p) \/ ChangeData(p) \/ DeleteCacheFile(p)
  BY DEF Operator
<1>2. UNCHANGED <<api, cache, reader, request, processed, faults>>
  BY <1>1 DEF EditCatalog, ChangeData, DeleteCacheFile
<1>3. PICK what \in {"catalog", "data", "cacheFile"} : Edit(what)
  BY <1>1 DEF EditCatalog, ChangeData, DeleteCacheFile
<1>4. edits' \in 0..MaxEdits
  BY <1>3, MaxEditsAssumption DEF Edit, TypeInv, TypeOK
<1>5. causes' \subseteq Causes
  BY <1>3 DEF Edit, TypeInv, TypeOK, Causes
<1>6. /\ entry' \in [Products -> {"absent", "plain", "cached"}]
      /\ data' \in [Products -> Sizes \cup {"broken"}]
      /\ pickle' \in [Products -> Sizes \cup {"absent", "damaged"}]
  BY <1>1 DEF EditCatalog, ChangeData, DeleteCacheFile, TypeInv, TypeOK
<1>7. TypeOK'
  BY <1>2, <1>4, <1>5, <1>6 DEF TypeInv, TypeOK
<1>8. QED
  BY <1>2, <1>7 DEF TypeInv, ReaderHasProduct, WriterHasCube, ApiHasProduct,
                    ApiReadsForCall, Reading, Product

LEMMA StutterType == ASSUME TypeInv, UNCHANGED vars PROVE TypeInv'
  BY DEF vars, TypeInv, TypeOK, ReaderHasProduct, WriterHasCube, ApiHasProduct,
         ApiReadsForCall, Reading, Product

LEMMA NextCases ==
    ASSUME [Next]_vars
    PROVE  \/ ApiNext \/ \E p \in Products, label \in {"assert", "lookup"} : Call(p, label)
           \/ \E x \in Readers : DriverStep(x)
           \/ \E x \in Readers : DriverFails(x)
           \/ \E x \in Readers : Crash(x)
           \/ \E w \in Workers : QueryReturns(w) \/ \E p \in Products : Query(w, p)
           \/ Operator
           \/ UNCHANGED vars
  BY DEF Next, Operator

LEMMA TypeInvInductive == ASSUME TypeInv, [Next]_vars PROVE TypeInv'
  BY NextCases, ApiStepType, DriverStepType, DriverFailsType, CrashType, WorkerStepType,
     OperatorType, StutterType

(* Every variable has its type, on every number of products and workers.   *)
THEOREM TypeCorrect == Spec => []TypeOK
<1>1. Spec => []TypeInv
  BY InitTypeInv, TypeInvInductive, PTL DEF Spec
<1>2. TypeInv => TypeOK
  BY DEF TypeInv
<1> QED
  BY <1>1, <1>2, PTL

------------------------------------------------------------------------------
(* The cache file.                                                         *)

(* Nobody takes up the making of a cache file.                             *)
Calm ==
    \A x \in Readers :
        \/ reader'[x] = reader[x]
        \/ reader'[x].pc \in {"idle", "test"}
        \/ reader'[x].pc = "build" /\ ~reader'[x].caching

LEMMA BeginsOrEndsIsCalm ==
    ASSUME NEW x \in Readers, BeginsOrEnds(x)
    PROVE  Calm
<1>1. CASE reader'[x] = NotReading
  <2>1. reader'[x].pc = "idle"
    BY <1>1 DEF NotReading
  <2>2. QED
    BY <2>1 DEF BeginsOrEnds, Calm
<1>2. CASE Began(x)
  <2>1. PICK p \in Products :
            /\ reader'[x].pc = IF entry[p] = "cached" THEN "test" ELSE "build"
            /\ reader'[x].caching = (entry[p] = "cached")
    BY <1>2 DEF Began
  <2>2. reader'[x].pc = "test" \/ (reader'[x].pc = "build" /\ ~reader'[x].caching)
    BY <2>1
  <2>3. QED
    BY <2>2 DEF BeginsOrEnds, Calm
<1>3. QED
  BY <1>1, <1>2 DEF BeginsOrEnds

LEMMA CalmOneMaker ==
    ASSUME OneMaker, Calm, causes \subseteq causes',
           \A p \in Products : pickle'[p] \in {pickle[p], "absent"}
    PROVE  OneMaker'
<1> SUFFICES ASSUME "race" \notin causes'
             PROVE  OneMaker'
  BY DEF OneMaker
<1>1. "race" \notin causes
  OBVIOUS
<1>2. \A x \in Readers, p \in Products : x \in Makers(p)' => x \in Makers(p)
  BY DEF Calm, Makers, Product
<1>3. \A x \in Readers : Reading(x, "write")' => reader'[x] = reader[x]
  BY DEF Calm, Reading
<1>4. "absent" \notin Sizes
  BY DEF Sizes
<1>5. \A x, y \in Readers : \A p \in Products :
          x \in Makers(p)' /\ y \in Makers(p)' => x = y
  BY <1>1, <1>2 DEF OneMaker
<1>6. \A x \in Readers : Reading(x, "write")' => ~reader'[x].clash
  BY <1>1, <1>3 DEF OneMaker, Reading
<1>7. \A x \in Readers : \A p \in Products : x \in Makers(p)' => pickle'[p] \notin Sizes
  BY <1>1, <1>2, <1>4 DEF OneMaker
<1> QED
  BY <1>5, <1>6, <1>7 DEF OneMaker

LEMMA CalmOneCube ==
    ASSUME OneCube, Calm, causes \subseteq causes',
           UNCHANGED pickle \/ "cacheFile" \in causes',
           \A p \in Products :
               {"race", "cacheFile"} \cap causes = {} /\ cache'[p] # "none" =>
                   pickle[p] = cache'[p]
    PROVE  OneCube'
<1> SUFFICES ASSUME "race" \notin causes', "cacheFile" \notin causes'
             PROVE  OneCube'
  BY DEF OneCube
<1>1. {"race", "cacheFile"} \cap causes = {} /\ pickle' = pickle
  OBVIOUS
<1>2. \A x \in Readers : Reading(x, "done")' => reader'[x] = reader[x]
  BY DEF Calm, Reading
<1>3. \A x \in Readers :
          Reading(x, "done")' /\ reader'[x].caching =>
              reader'[x].cube \in Sizes /\ pickle'[Product(x)'] = reader'[x].cube
  BY <1>1, <1>2 DEF OneCube, Reading, Product
<1>4. \A p \in Products : cache'[p] # "none" => pickle'[p] = cache'[p]
  BY <1>1
<1> QED
  BY <1>3, <1>4 DEF OneCube, Product

(* A writer goes on writing, or the file is known to be torn.              *)
LEMMA CalmDamage ==
    ASSUME DamageHasCause, causes \subseteq causes',
           \A x \in Readers :
               Reading(x, "write") => reader'[x] = reader[x] \/ "torn" \in causes',
           \A p \in Products : pickle'[p] \in {pickle[p], "absent"}
    PROVE  DamageHasCause'
<1> SUFFICES ASSUME NEW p \in Products, pickle'[p] = "damaged", Writers(p)' = {},
                    "torn" \notin causes'
             PROVE  causes' \cap {"torn", "dump", "race"} # {}
  BY DEF DamageHasCause
<1>1. pickle[p] = "damaged"
  OBVIOUS
<1>2. ASSUME NEW x \in Writers(p) PROVE FALSE
  <2>1. x \in Readers /\ Reading(x, "write") /\ Product(x) = p
    BY <1>2 DEF Writers
  <2>2. x \in Writers(p)'
    BY <2>1 DEF Writers, Reading, Product
  <2>3. QED
    BY <2>2
<1>3. Writers(p) = {}
  BY <1>2
<1> QED
  BY <1>1, <1>3 DEF DamageHasCause

(* Every step but the driver's: callers begin and end reads, processes are *)
(* killed, the operator edits.                                             *)
LEMMA CallerKeepsInv ==
    ASSUME Inv, TypeInv', NEW x \in Readers,
           UNCHANGED reader
           \/ (BeginsOrEnds(x) /\ (~Reading(x, "write") \/ "torn" \in causes')),
           causes \subseteq causes',
           UNCHANGED pickle
           \/ /\ "cacheFile" \in causes'
              /\ \A p \in Products : pickle'[p] \in {pickle[p], "absent"},
           \A p \in Products :
               {"race", "cacheFile"} \cap causes = {} /\ cache'[p] # "none" =>
                   pickle[p] = cache'[p]
    PROVE  Inv'
<1>1. Calm
  BY BeginsOrEndsIsCalm DEF Calm
<1>2. \A p \in Products : pickle'[p] \in {pickle[p], "absent"}
  OBVIOUS
<1>3. UNCHANGED pickle \/ "cacheFile" \in causes'
  OBVIOUS
<1>4. \A y \in Readers :
          Reading(y, "write") => reader'[y] = reader[y] \/ "torn" \in causes'
  BY DEF BeginsOrEnds
<1>5. OneMaker' /\ OneCube' /\ DamageHasCause'
  BY <1>1, <1>2, <1>3, <1>4, CalmOneMaker, CalmOneCube, CalmDamage DEF Inv
<1> QED
  BY <1>5 DEF Inv

LEMMA ApiKeepsInv ==
    ASSUME Inv,
           ApiNext \/ \E p \in Products, label \in {"assert", "lookup"} : Call(p, label)
    PROVE  Inv'
<1>1. /\ TypeInv' /\ ApiStep
      /\ \/ UNCHANGED reader
         \/ BeginsOrEnds("api") /\ ~Reading("api", "write")
  BY ApiStepType DEF Inv, Reading
<1>2. "api" \in Readers /\ UNCHANGED <<pickle, causes>>
  BY <1>1 DEF Readers, ApiStep
<1>3. \A p \in Products :
          {"race", "cacheFile"} \cap causes = {} /\ cache[p] # "none" => pickle[p] = cache[p]
  BY DEF Inv, OneCube
<1>4. \A p \in Products : cache'[p] \in {cache[p], "none"}
                          \/ /\ ApiAt("loadRead") /\ Reading("api", "done")
                             /\ p = api.product /\ cache'[p] = reader["api"].cube
  <2>1. cache \in [Products -> Sizes \cup {"none"}]
    BY DEF Inv, TypeInv, TypeOK
  <2>2. CASE StartApi
    BY <2>2 DEF StartApi
  <2>3. CASE ProductLoaded
    BY <2>1, <2>3 DEF ProductLoaded
  <2>4. CASE UNCHANGED cache
    BY <2>4
  <2>5. QED
    BY <2>2, <2>3, <2>4
       DEF ApiNext, ListDataset, LoadProduct, CacheLoaded, Estimate, ProductDetails,
           DetailsRead, EstimateRead, Admit, Call
<1>5. ASSUME NEW p \in Products, {"race", "cacheFile"} \cap causes = {}, cache'[p] # "none"
      PROVE  pickle[p] = cache'[p]
  <2>1. CASE cache'[p] = cache[p]
    BY <1>3, <1>5, <2>1
  <2>2. CASE /\ ApiAt("loadRead") /\ Reading("api", "done")
             /\ p = api.product /\ cache'[p] = reader["api"].cube
    <3>1. reader["api"].caching /\ Product("api") = p
      BY <2>2 DEF ApiAt, Inv, TypeInv, ApiReadsForCall
    <3>2. pickle[Product("api")] = reader["api"].cube
      BY <1>2, <1>5, <2>2, <3>1 DEF Inv, OneCube
    <3>3. QED
      BY <2>2, <3>1, <3>2
  <2>3. QED
    BY <1>4, <1>5, <2>1, <2>2
<1> QED
  BY <1>1, <1>2, <1>5, CallerKeepsInv

LEMMA WorkerKeepsInv ==
    ASSUME Inv, NEW w \in Workers,
           QueryReturns(w) \/ \E p \in Products : Query(w, p)
    PROVE  Inv'
<1>1. /\ TypeInv' /\ WorkerStep
      /\ \/ UNCHANGED reader
         \/ BeginsOrEnds(w) /\ ~Reading(w, "write")
  BY WorkerStepType DEF Inv, Reading
<1>2. w \in Readers /\ UNCHANGED <<pickle, cache, causes>>
  BY <1>1 DEF Readers, WorkerStep
<1>3. \A p \in Products :
          {"race", "cacheFile"} \cap causes = {} /\ cache'[p] # "none" => pickle[p] = cache'[p]
  BY <1>2 DEF Inv, OneCube
<1> QED
  BY <1>1, <1>2, <1>3, CallerKeepsInv

LEMMA CrashKeepsInv == ASSUME Inv, NEW x \in Readers, Crash(x) PROVE Inv'
<1>1. TypeInv'
  BY CrashType DEF Inv
<1>2. BeginsOrEnds(x)
  BY EndReadEnds DEF Crash, Inv, TypeInv, TypeOK, ReaderRecords
<1>3. /\ UNCHANGED <<pickle, cache>> /\ causes \subseteq causes'
      /\ Reading(x, "write") => "torn" \in causes'
  BY DEF Crash
<1>4. \A p \in Products :
          {"race", "cacheFile"} \cap causes = {} /\ cache'[p] # "none" => pickle[p] = cache'[p]
  BY <1>3 DEF Inv, OneCube
<1> QED
  BY <1>1, <1>2, <1>3, <1>4, CallerKeepsInv

LEMMA OperatorKeepsInv == ASSUME Inv, Operator PROVE Inv'
<1>1. TypeInv' /\ UNCHANGED <<cache, reader>>
  BY OperatorType DEF Inv
<1>2. PICK p \in Products : EditCatalog(p) \/ ChangeData(p) \/ DeleteCacheFile(p)
  BY DEF Operator
<1>3. causes \subseteq causes'
  BY <1>2 DEF EditCatalog, ChangeData, DeleteCacheFile, Edit
<1>4. UNCHANGED pickle
      \/ /\ "cacheFile" \in causes'
         /\ \A q \in Products : pickle'[q] \in {pickle[q], "absent"}
  BY <1>2 DEF EditCatalog, ChangeData, DeleteCacheFile, Edit, Inv, TypeInv, TypeOK
<1>5. \A q \in Products :
          {"race", "cacheFile"} \cap causes = {} /\ cache'[q] # "none" => pickle[q] = cache'[q]
  BY <1>1 DEF Inv, OneCube
<1>6. "api" \in Readers
  BY DEF Readers
<1> QED
  BY <1>1, <1>3, <1>4, <1>5, <1>6, CallerKeepsInv

(* What a step of the driver at one product leaves of the other readers.   *)
LEMMA DriverFrame ==
    ASSUME TypeInv, NEW x \in Readers, DriverStep(x)
    PROVE  /\ reader \in [Readers -> ReaderRecords]
           /\ reader' \in [Readers -> ReaderRecords]
           /\ Product(x) \in Products
           /\ UNCHANGED cache /\ causes \subseteq causes'
           /\ \A y \in Readers : Product(y)' = Product(y)
                                 /\ reader'[y].caching = reader[y].caching
           /\ \A y \in Readers : y # x => /\ reader'[y].pc = reader[y].pc
                                          /\ reader'[y].cube = reader[y].cube
           /\ \A p \in Products : p # Product(x) => pickle'[p] = pickle[p]
<1>1. /\ reader \in [Readers -> ReaderRecords]
      /\ pickle \in [Products -> Sizes \cup {"absent", "damaged"}]
      /\ Product(x) \in Products
  BY DEF TypeInv, TypeOK, ReaderRecords, ReaderHasProduct, DriverStep, TestCache,
         LoadPickle, BuildCube, OpenCacheFile, DumpPickle, Reading
<1>2. TypeInv'
  BY DriverStepType
<1>3. reader' \in [Readers -> ReaderRecords]
  BY <1>2 DEF TypeInv, TypeOK, ReaderRecords
<1>4. UNCHANGED cache /\ causes \subseteq causes'
  BY DEF DriverStep, TestCache, LoadPickle, BuildCube, OpenCacheFile, DumpPickle, ReadStep
<1>5. \A p \in Products : p # Product(x) => pickle'[p] = pickle[p]
  BY <1>1 DEF DriverStep, TestCache, LoadPickle, BuildCube, OpenCacheFile, DumpPickle
<1>6. \A y \in Readers :
         /\ reader'[y].product = reader[y].product
         /\ reader'[y].caching = reader[y].caching
         /\ y # x => reader'[y].pc = reader[y].pc /\ reader'[y].cube = reader[y].cube
  <2>1. CASE TestCache(x)
    BY <1>1, <2>1 DEF TestCache, ReaderAt, ReaderRecords
  <2>2. CASE LoadPickle(x)
    BY <1>1, <2>2 DEF LoadPickle, ReadRaises, ReaderAt, ReaderRecords
  <2>3. CASE BuildCube(x)
    BY <1>1, <2>3 DEF BuildCube, ReadRaises, ReaderAt, ReaderRecords
  <2>4. CASE OpenCacheFile(x)
    BY <1>1, <2>4 DEF OpenCacheFile, ReaderRecords
  <2>5. CASE DumpPickle(x)
    BY <1>1, <2>5 DEF DumpPickle, ReaderAt, ReaderRecords
  <2>6. QED
    BY <2>1, <2>2, <2>3, <2>4, <2>5 DEF DriverStep
<1> QED
  BY <1>1, <1>3, <1>4, <1>5, <1>6 DEF Product

(* The one who makes a file has tested it when nobody else was making it.  *)
LEMMA DriverKeepsOneMaker ==
    ASSUME TypeInv, OneMaker, NEW x \in Readers, DriverStep(x)
    PROVE  OneMaker'
<1> SUFFICES ASSUME "race" \notin causes'
             PROVE  OneMaker'
  BY DEF OneMaker
<1>1. PICK p \in Products : p = Product(x)
  BY DriverFrame
<1>2. /\ reader \in [Readers -> ReaderRecords]
      /\ p = Product(x) /\ "race" \notin causes
      /\ pickle \in [Products -> Sizes \cup {"absent", "damaged"}]
      /\ \A y \in Readers : Product(y)' = Product(y) /\ reader'[y].caching = reader[y].caching
      /\ \A y \in Readers : y # x => reader'[y].pc = reader[y].pc
      /\ \A q \in Products : q # p => pickle'[q] = pickle[q]
  BY <1>1, DriverFrame DEF TypeInv, TypeOK
<1>3. /\ \A y, z \in Readers : \A q \in Products : y \in Makers(q) /\ z \in Makers(q) => y = z
      /\ \A y \in Readers : Reading(y, "write") => ~reader[y].clash
      /\ \A y \in Readers : \A q \in Products : y \in Makers(q) => pickle[q] \notin Sizes
  BY <1>2 DEF OneMaker
<1>4. \A y \in Readers : y # x => \A q \in Products : y \in Makers(q)' => y \in Makers(q)
  BY <1>2 DEF Makers
<1>5. \A q \in Products : x \in Makers(q)' => q = p
  BY <1>2 DEF Makers
<1>6. CASE TestCache(x)
  <2>1. /\ pickle' = pickle
        /\ reader'[x].pc = IF pickle[p] = "absent" THEN "build" ELSE "load"
        /\ \A y \in Readers : y # x => reader'[y] = reader[y]
        /\ pickle[p] = "absent" => Makers(p) = {}
    BY <1>2, <1>6 DEF TestCache, ReaderAt, ReaderRecords
  <2>2. x \in Makers(p)' => pickle[p] = "absent"
    BY <2>1 DEF Makers
  <2>3. "absent" \notin Sizes
    BY DEF Sizes
  <2>4. \A y \in Readers : Reading(y, "write")' => y # x
    BY <2>1 DEF Reading
  <2>5. \A y, z \in Readers : \A q \in Products :
            y \in Makers(q)' /\ z \in Makers(q)' => y = z
    BY <1>3, <1>4, <1>5, <2>1, <2>2
  <2>6. \A y \in Readers : Reading(y, "write")' => ~reader'[y].clash
    BY <1>3, <2>1, <2>4 DEF Reading
  <2>7. \A y \in Readers : \A q \in Products : y \in Makers(q)' => pickle'[q] \notin Sizes
    BY <1>3, <1>4, <1>5, <2>1, <2>2, <2>3
  <2>8. QED
    BY <2>5, <2>6, <2>7 DEF OneMaker
<1>7. CASE LoadPickle(x) \/ BuildCube(x)
  <2>1. /\ pickle' = pickle
        /\ \A y \in Readers : y # x => reader'[y] = reader[y]
        /\ reader'[x].pc # "write"
    BY <1>2, <1>7 DEF LoadPickle, BuildCube, ReadRaises, ReaderAt, ReaderRecords
  <2>2. x \in Makers(p)' => x \in Makers(p)
    BY <1>2, <1>7 DEF LoadPickle, BuildCube, ReadRaises, ReaderAt, ReaderRecords,
                      Makers, Reading
  <2>3. \A y, z \in Readers : \A q \in Products :
            y \in Makers(q)' /\ z \in Makers(q)' => y = z
    BY <1>3, <1>4, <1>5, <2>2
  <2>4. \A y \in Readers : Reading(y, "write")' => ~reader'[y].clash
    BY <1>3, <2>1 DEF Reading
  <2>5. \A y \in Readers : \A q \in Products : y \in Makers(q)' => pickle'[q] \notin Sizes
    BY <1>3, <1>4, <1>5, <2>1, <2>2
  <2>6. QED
    BY <2>3, <2>4, <2>5 DEF OneMaker
<1>8. CASE OpenCacheFile(x)
  <2>1. reader[x].pc = "open" /\ reader[x].caching /\ x \in Makers(p)
    BY <1>2, <1>8 DEF OpenCacheFile, Reading, TypeInv, WriterHasCube, Makers
  <2>2. \A y \in Writers(p) : y \in Makers(p) /\ y \in Readers /\ y # x
    BY <2>1 DEF Writers, Makers, Reading, TypeInv, WriterHasCube
  <2>3. Writers(p) = {}
    BY <1>2, <1>3, <2>1, <2>2
  <2>4. /\ \A y \in Readers : y # x => reader'[y].clash = reader[y].clash
        /\ ~reader'[x].clash
        /\ pickle'[p] = "damaged"
    BY <1>2, <1>8, <2>3 DEF OpenCacheFile, ReaderRecords
  <2>5. "damaged" \notin Sizes
    BY DEF Sizes
  <2>6. \A y, z \in Readers : \A q \in Products :
            y \in Makers(q)' /\ z \in Makers(q)' => y = z
    BY <1>3, <1>4, <1>5, <2>1
  <2>7. \A y \in Readers : Reading(y, "write")' => ~reader'[y].clash
    BY <1>2, <1>3, <2>4 DEF Reading
  <2>8. \A y \in Readers : \A q \in Products : y \in Makers(q)' => pickle'[q] \notin Sizes
    BY <1>2, <1>3, <1>4, <1>5, <2>4, <2>5
  <2>9. QED
    BY <2>6, <2>7, <2>8 DEF OneMaker
<1>9. CASE DumpPickle(x)
  <2>1. /\ reader'[x].pc = "done" /\ x \in Makers(p)
        /\ \A y \in Readers : y # x => reader'[y] = reader[y]
    BY <1>2, <1>9 DEF DumpPickle, ReaderAt, ReaderRecords, Makers, Reading, TypeInv,
                      WriterHasCube
  <2>2. \A q \in Products : x \notin Makers(q)'
    BY <2>1 DEF Makers
  <2>3. \A y \in Readers : y \notin Makers(p)'
    BY <1>2, <1>3, <1>4, <2>1, <2>2
  <2>4. \A y, z \in Readers : \A q \in Products :
            y \in Makers(q)' /\ z \in Makers(q)' => y = z
    BY <1>3, <1>4, <2>2
  <2>5. \A y \in Readers : Reading(y, "write")' => ~reader'[y].clash
    BY <1>3, <2>1 DEF Reading
  <2>6. \A y \in Readers : \A q \in Products : y \in Makers(q)' => pickle'[q] \notin Sizes
    BY <1>2, <1>3, <1>4, <2>2, <2>3
  <2>7. QED
    BY <2>4, <2>5, <2>6 DEF OneMaker
<1> QED
  BY <1>6, <1>7, <1>8, <1>9 DEF DriverStep

(* Only its maker changes a file, and finds it not whole.                  *)
LEMMA DriverChangesFile ==
    ASSUME TypeInv, OneMaker, NEW x \in Readers, DriverStep(x), "race" \notin causes,
           NEW p \in Products, pickle'[p] # pickle[p]
    PROVE  /\ OpenCacheFile(x) \/ DumpPickle(x)
           /\ Product(x) = p /\ x \in Makers(p)
           /\ pickle[p] \notin Sizes
<1>1. OpenCacheFile(x) \/ DumpPickle(x)
  BY DEF DriverStep, TestCache, LoadPickle, BuildCube
<1>2. Product(x) = p
  BY DriverFrame
<1>3. x \in Makers(p)
  BY <1>1, <1>2 DEF OpenCacheFile, DumpPickle, Makers, Reading, TypeInv, WriterHasCube
<1> QED
  BY <1>1, <1>2, <1>3 DEF OneMaker

LEMMA OpenedIsWritten ==
    ASSUME reader \in [Readers -> ReaderRecords], NEW x \in Readers, OpenCacheFile(x)
    PROVE  reader'[x].pc = "write"
<1>1. reader'[x] = [reader[x] EXCEPT !.pc = "write", !.clash = (Writers(Product(x)) # {})]
  BY DEF OpenCacheFile
<1>2. reader[x] \in ReaderRecords
  OBVIOUS
<1> QED
  BY <1>1, <1>2 DEF ReaderRecords

LEMMA DriverKeepsOneCube ==
    ASSUME Inv, NEW x \in Readers, DriverStep(x)
    PROVE  OneCube'
<1> SUFFICES ASSUME "race" \notin causes', "cacheFile" \notin causes'
             PROVE  OneCube'
  BY DEF OneCube
<1>1. PICK p \in Products : p = Product(x)
  BY DriverFrame DEF Inv
<1>2. /\ reader \in [Readers -> ReaderRecords]
      /\ pickle \in [Products -> Sizes \cup {"absent", "damaged"}]
      /\ cache \in [Products -> Sizes \cup {"none"}] /\ UNCHANGED cache
      /\ "race" \notin causes /\ "cacheFile" \notin causes
      /\ \A y \in Readers : Product(y)' = Product(y) /\ reader'[y].caching = reader[y].caching
      /\ \A y \in Readers : y # x => /\ reader'[y].pc = reader[y].pc
                                     /\ reader'[y].cube = reader[y].cube
  BY DriverFrame DEF Inv, TypeInv, TypeOK
<1>3. /\ \A y \in Readers :
            Reading(y, "done") /\ reader[y].caching =>
                reader[y].cube \in Sizes /\ pickle[Product(y)] = reader[y].cube
      /\ \A q \in Products : cache[q] # "none" => pickle[q] = cache[q]
  BY <1>2 DEF Inv, OneCube
<1>4. \A q \in Products : pickle'[q] # pickle[q] => q = p /\ pickle[q] \notin Sizes
  BY <1>1, <1>2, DriverChangesFile DEF Inv
<1>5. \A q \in Products : cache'[q] # "none" => pickle'[q] = cache'[q]
  BY <1>2, <1>3, <1>4
<1>6. ASSUME NEW y \in Readers, y # x, Reading(y, "done")', reader'[y].caching
      PROVE  reader'[y].cube \in Sizes /\ pickle'[Product(y)'] = reader'[y].cube
  <2>1. Reading(y, "done") /\ reader[y].caching
    BY <1>2, <1>6 DEF Reading
  <2>2. Product(y) \in Products
    BY <2>1 DEF Reading, Inv, TypeInv, ReaderHasProduct
  <2>3. pickle'[Product(y)] = pickle[Product(y)]
    BY <1>3, <1>4, <2>1, <2>2
  <2>4. QED
    BY <1>2, <1>3, <1>6, <2>1, <2>3
<1>7. ASSUME Reading(x, "done")', reader'[x].caching
      PROVE  reader'[x].cube \in Sizes /\ pickle'[p] = reader'[x].cube
  <2>1. reader[x].caching /\ reader'[x].pc = "done"
    BY <1>2, <1>7 DEF Reading
  <2>2. ~TestCache(x) /\ ~BuildCube(x) /\ ~OpenCacheFile(x)
    <3>1. ~TestCache(x)
      BY <1>2, <2>1 DEF TestCache, ReaderAt, ReaderRecords
    <3>2. ~BuildCube(x)
      BY <1>2, <2>1 DEF BuildCube, ReadRaises, ReaderAt, ReaderRecords
    <3>3. ~OpenCacheFile(x)
      BY <1>2, <2>1, OpenedIsWritten
    <3>4. QED
      BY <3>1, <3>2, <3>3
  <2>3. CASE LoadPickle(x)
    BY <1>1, <1>2, <2>1, <2>3 DEF LoadPickle, ReadRaises, ReaderAt, ReaderRecords
  <2>4. CASE DumpPickle(x)
    <3>1. reader[x].cube \in Sizes /\ ~reader[x].clash
      BY <1>2, <2>4 DEF DumpPickle, Reading, Inv, TypeInv, WriterHasCube, OneMaker
    <3>2. pickle'[p] = reader[x].cube
      BY <1>1, <1>2, <2>4, <3>1 DEF DumpPickle
    <3>3. reader'[x].cube = reader[x].cube
      BY <1>2, <2>4 DEF DumpPickle, ReaderAt, ReaderRecords
    <3>4. QED
      BY <3>1, <3>2, <3>3
  <2>5. QED
    BY <2>2, <2>3, <2>4 DEF DriverStep
<1>8. \A y \in Readers :
          Reading(y, "done")' /\ reader'[y].caching =>
              reader'[y].cube \in Sizes /\ pickle'[Product(y)'] = reader'[y].cube
  BY <1>1, <1>2, <1>6, <1>7
<1> QED
  BY <1>5, <1>8 DEF OneCube, Product

LEMMA DriverKeepsDamage ==
    ASSUME Inv, NEW x \in Readers, DriverStep(x)
    PROVE  DamageHasCause'
<1> SUFFICES ASSUME NEW p \in Products, pickle'[p] = "damaged", Writers(p)' = {},
                    causes' \cap {"torn", "dump", "race"} = {}
             PROVE  FALSE
  BY DEF DamageHasCause
<1>1. /\ reader \in [Readers -> ReaderRecords]
      /\ reader' \in [Readers -> ReaderRecords]
      /\ pickle \in [Products -> Sizes \cup {"absent", "damaged"}]
      /\ causes \cap {"torn", "dump", "race"} = {}
      /\ \A y \in Readers : Product(y)' = Product(y)
      /\ \A y \in Readers : y # x => reader'[y].pc = reader[y].pc
  BY DriverFrame DEF Inv, TypeInv, TypeOK
<1>2. CASE OpenCacheFile(x) /\ Product(x) = p
  <2>1. reader'[x].pc = "write"
    BY <1>1, <1>2, OpenedIsWritten
  <2>2. x \in Writers(p)'
    BY <1>1, <1>2, <2>1 DEF Writers, Reading, Product
  <2>3. QED
    BY <2>2
<1>3. CASE DumpPickle(x) /\ Product(x) = p
  <2>1. reader[x].cube \in Sizes /\ ~reader[x].clash
    BY <1>1, <1>3 DEF DumpPickle, Reading, Inv, TypeInv, WriterHasCube, OneMaker
  <2>2. pickle'[p] = reader[x].cube
    BY <1>1, <1>3, <2>1 DEF DumpPickle
  <2>3. QED
    BY <2>1, <2>2 DEF Sizes
<1>4. CASE ~((OpenCacheFile(x) \/ DumpPickle(x)) /\ Product(x) = p)
  <2>1. pickle[p] = "damaged"
    BY <1>1, <1>4, DriverChangesFile DEF Inv
  <2>2. PICK y \in Writers(p) : TRUE
    BY <1>1, <2>1 DEF Inv, DamageHasCause
  <2>3. y \in Readers /\ reader[y].pc = "write" /\ Product(y) = p
    BY <2>2 DEF Writers, Reading
  <2>4. y # x
    BY <1>4, <2>3 DEF DriverStep, TestCache, LoadPickle, BuildCube, OpenCacheFile, Reading
  <2>5. y \in Writers(p)'
    BY <1>1, <2>3, <2>4 DEF Writers, Reading
  <2>6. QED
    BY <2>5
<1> QED
  BY <1>2, <1>3, <1>4

(* A file that a failing call damages was not whole, unless two have been  *)
(* making it.                                                              *)
LEMMA FailureChangesFile ==
    ASSUME TypeInv, OneMaker, NEW x \in Readers, DriverFails(x), "race" \notin causes,
           NEW p \in Products, pickle'[p] # pickle[p]
    PROVE  pickle[p] \notin Sizes
<1>1. Reading(x, "write") /\ p = Product(x)
  BY DriverFailsFrame
<1>2. x \in Makers(p)
  BY <1>1 DEF Makers, Reading, TypeInv, WriterHasCube
<1> QED
  BY <1>2 DEF OneMaker

LEMMA FailureKeepsInv ==
    ASSUME Inv, NEW x \in Readers, DriverFails(x)
    PROVE  Inv'
<1>1. /\ TypeInv /\ OneMaker /\ TypeInv'
      /\ reader'[x].pc \in {"ValueError", "error"}
      /\ \A y \in Readers : Product(y)' = Product(y)
      /\ \A y \in Readers : /\ reader'[y].caching = reader[y].caching
                             /\ reader'[y].cube = reader[y].cube
                             /\ reader'[y].clash = reader[y].clash
      /\ \A y \in Readers : y # x => reader'[y].pc = reader[y].pc
      /\ \A p \in Products : pickle'[p] # pickle[p] =>
            Reading(x, "write") /\ p = Product(x) /\ pickle'[p] = "damaged"
      /\ causes \subseteq causes' /\ causes' \subseteq causes \cup {"dump"}
      /\ Reading(x, "write") => "dump" \in causes'
      /\ UNCHANGED cache
  BY DriverFailsFrame, DriverFailsType DEF Inv, Product
<1>2. \A y \in Readers, p \in Products : y \in Makers(p)' => y \in Makers(p) /\ y # x
  BY <1>1 DEF Makers
<1>3. "damaged" \notin Sizes
  BY DEF Sizes
<1>4. OneMaker'
  <2> SUFFICES ASSUME "race" \notin causes'
               PROVE  OneMaker'
    BY DEF OneMaker
  <2>1. "race" \notin causes
    BY <1>1
  <2>2. \A y, z \in Readers : \A q \in Products :
            y \in Makers(q)' /\ z \in Makers(q)' => y = z
    BY <1>1, <1>2, <2>1 DEF OneMaker
  <2>3. \A y \in Readers : Reading(y, "write")' => ~reader'[y].clash
    BY <1>1, <2>1 DEF OneMaker, Reading
  <2>4. \A y \in Readers : \A q \in Products : y \in Makers(q)' => pickle'[q] \notin Sizes
    BY <1>1, <1>2, <1>3, <2>1 DEF OneMaker
  <2>5. QED
    BY <2>2, <2>3, <2>4 DEF OneMaker
<1>5. OneCube'
  <2> SUFFICES ASSUME "race" \notin causes', "cacheFile" \notin causes'
               PROVE  OneCube'
    BY DEF OneCube
  <2>1. "race" \notin causes /\ "cacheFile" \notin causes
    BY <1>1
  <2>2. \A q \in Products : pickle[q] \in Sizes => pickle'[q] = pickle[q]
    BY <1>1, <2>1, FailureChangesFile
  <2>3. ASSUME NEW y \in Readers, Reading(y, "done")', reader'[y].caching
        PROVE  reader'[y].cube \in Sizes /\ pickle'[Product(y)'] = reader'[y].cube
    <3>1. y # x /\ Reading(y, "done") /\ reader[y].caching
      BY <1>1, <2>3 DEF Reading
    <3>2. Product(y) \in Products
      BY <1>1, <3>1 DEF Reading, TypeInv, ReaderHasProduct
    <3>3. reader[y].cube \in Sizes /\ pickle[Product(y)] = reader[y].cube
      BY <2>1, <3>1 DEF Inv, OneCube
    <3>4. QED
      BY <1>1, <2>2, <3>2, <3>3
  <2>4. \A q \in Products : cache'[q] # "none" => pickle'[q] = cache'[q]
    <3>1. cache \in [Products -> Sizes \cup {"none"}]
      BY <1>1 DEF TypeInv, TypeOK
    <3>2. QED
      BY <1>1, <2>1, <2>2, <3>1 DEF Inv, OneCube
  <2>5. QED
    BY <2>3, <2>4 DEF OneCube, Product
<1>6. DamageHasCause'
  <2> SUFFICES ASSUME NEW p \in Products, pickle'[p] = "damaged", Writers(p)' = {},
                      causes' \cap {"torn", "dump", "race"} = {}
               PROVE  FALSE
    BY DEF DamageHasCause
  <2>1. ~Reading(x, "write") /\ causes \cap {"torn", "dump", "race"} = {}
    BY <1>1
  <2>2. pickle[p] = "damaged"
    BY <1>1, <2>1
  <2>3. PICK y \in Writers(p) : TRUE
    BY <2>1, <2>2 DEF Inv, DamageHasCause
  <2>4. y \in Readers /\ reader[y].pc = "write" /\ Product(y) = p /\ y # x
    BY <2>1, <2>3 DEF Writers, Reading
  <2>5. y \in Writers(p)'
    BY <1>1, <2>4 DEF Writers, Reading
  <2>6. QED
    BY <2>5
<1> QED
  BY <1>1, <1>4, <1>5, <1>6 DEF Inv

LEMMA InvInductive == ASSUME Inv, [Next]_vars PROVE Inv'
<1>1. ASSUME NEW x \in Readers, DriverStep(x) PROVE Inv'
  BY <1>1, DriverStepType, DriverKeepsOneMaker, DriverKeepsOneCube, DriverKeepsDamage DEF Inv
<1>2. CASE UNCHANGED vars
  BY <1>2, StutterType DEF vars, Inv, OneMaker, OneCube, DamageHasCause, Makers, Writers,
                           Reading, Product
<1> QED
  BY <1>1, <1>2, NextCases, FailureKeepsInv, ApiKeepsInv, WorkerKeepsInv, CrashKeepsInv,
     OperatorKeepsInv

LEMMA InitInv == Init => Inv
  BY InitTypeInv DEF Init, Inv, OneMaker, OneCube, DamageHasCause, Makers, Reading,
                     NotReading, Sizes

LEMMA InvAlways == Spec => []Inv
  BY InitInv, InvInductive, PTL DEF Spec

(* A cache file that is no cube while nobody writes it was left so by a    *)
(* writer that was killed or raised, or made by two processes at once:     *)
(* nothing else, on any number of workers and products, damages it.        *)
THEOREM DamageAlwaysHasCause == Spec => []DamageHasCause
<1>1. Inv => DamageHasCause
  BY DEF Inv
<1> QED
  BY <1>1, InvAlways, PTL

(* The API's cache in memory and the cache file differ only after two      *)
(* processes have made the file at once or the operator has removed it.    *)
THEOREM CacheAlwaysAgrees == Spec => []CacheAgreesWithFile
<1>1. Inv => CacheAgreesWithFile
  BY DEF Inv, OneCube, CacheAgreesWithFile
<1> QED
  BY <1>1, InvAlways, PTL

(* A whole cache file is replaced by nobody: it is removed by the operator *)
(* or two processes have made it at once.                                  *)
THEOREM CacheFileWrittenOnce == Spec => CacheFileIsWrittenOnce
<1> DEFINE Kept(p) == pickle[p] \in Sizes /\ pickle'[p] # pickle[p] =>
                          pickle'[p] = "absent" \/ "race" \in causes
<1>1. ASSUME Inv, [Next]_vars, NEW p \in Products PROVE Kept(p)
  <2>1. ASSUME NEW x \in Readers, DriverStep(x) PROVE Kept(p)
    BY <1>1, <2>1, DriverChangesFile DEF Inv
  <2>2. CASE ApiNext \/ \E q \in Products, label \in {"assert", "lookup"} : Call(q, label)
    BY <1>1, <2>2, ApiStepType DEF Inv, ApiStep
  <2>3. ASSUME NEW x \in Readers, Crash(x) PROVE Kept(p)
    BY <2>3 DEF Crash
  <2>8. ASSUME NEW x \in Readers, DriverFails(x) PROVE Kept(p)
    BY <1>1, <2>8, FailureChangesFile DEF Inv
  <2>4. ASSUME NEW w \in Workers, QueryReturns(w) \/ \E q \in Products : Query(w, q)
        PROVE  Kept(p)
    BY <1>1, <2>4, WorkerStepType DEF Inv, WorkerStep
  <2>5. CASE Operator
    <3>1. PICK q \in Products : EditCatalog(q) \/ ChangeData(q) \/ DeleteCacheFile(q)
      BY <2>5 DEF Operator
    <3>2. pickle \in [Products -> Sizes \cup {"absent", "damaged"}]
      BY <1>1 DEF Inv, TypeInv, TypeOK
    <3>3. QED
      BY <3>1, <3>2 DEF EditCatalog, ChangeData, DeleteCacheFile
  <2>6. CASE UNCHANGED vars
    BY <2>6 DEF vars
  <2>7. QED
    BY <1>1, <2>1, <2>2, <2>3, <2>4, <2>5, <2>6, <2>8, NextCases
<1>2. ASSUME Inv, [Next]_vars PROVE [\A p \in Products : Kept(p)]_vars
  BY <1>1, <1>2
<1> QED
  BY <1>2, InvAlways, PTL DEF Spec, CacheFileIsWrittenOnce

------------------------------------------------------------------------------
(* What a request comes to.                                                *)

(* As long as the data have not changed, no read has another cube.         *)
AllFit ==
    "data" \notin causes =>
        /\ \A p \in Products : /\ data[p] = "fits"
                               /\ pickle[p] \notin {"empty", "large"}
                               /\ processed[p] \notin {"empty", "large"}
        /\ \A x \in Readers : reader[x].cube \notin {"empty", "large"}

(* A worker reads for an admitted request, and no other worker for that.   *)
OneWorker ==
    /\ \A w \in Workers : ~Reading(w, "idle") => request[Product(w)] # "none"
    /\ \A v, w \in Workers :
          ~Reading(v, "idle") /\ ~Reading(w, "idle") /\ Product(v) = Product(w) => v = w

(* What the API estimates on is the product of the call.                   *)
EstimateIsOfCall ==
    api.pc \in {"estimateRead", "admit"} /\ ~Reading("api", "idle") =>
        Product("api") = api.product

(* As long as the operator has left entries and cache files alone and no   *)
(* two processes have made a file at once, the cache file an estimate was  *)
(* made on stays and is what the executor reads.                           *)
Fixed == {"race", "cacheFile", "catalog"} \cap causes = {}

FileFits ==
    Fixed =>
        /\ \A x \in Readers :
              ~Reading(x, "idle") => reader[x].caching = (entry[Product(x)] = "cached")
        /\ \A p \in Products : entry[p] # "absent"
        /\ \A p \in Products : entry[p] = "cached" =>
              /\ request[p] # "none" => pickle[p] = "fits"
              /\ processed[p] \notin {"empty", "large"}

FitInv == AllFit /\ OneWorker /\ EstimateIsOfCall /\ FileFits

LEMMA InitFit == Init => FitInv
<1> SUFFICES ASSUME Init PROVE FitInv
  OBVIOUS
<1>1. \A x \in Readers : reader[x].pc = "idle" /\ reader[x].cube = "none"
  BY DEF Init, NotReading
<1>2. AllFit /\ FileFits
  BY <1>1 DEF Init, AllFit, FileFits, Reading
<1>3. OneWorker /\ EstimateIsOfCall
  BY <1>1 DEF Init, OneWorker, EstimateIsOfCall, Readers, Reading
<1>4. QED
  BY <1>2, <1>3 DEF FitInv

(* The operator and the race apart, a whole cache file stays as it is.     *)
LEMMA DriverKeepsWholeFile ==
    ASSUME Inv, NEW x \in Readers, DriverStep(x), NEW p \in Products,
           pickle[p] \in Sizes, "race" \notin causes
    PROVE  pickle'[p] = pickle[p]
  BY DriverChangesFile DEF Inv

LEMMA DriverFits ==
    ASSUME Inv, FitInv, NEW x \in Readers, DriverStep(x)
    PROVE  FitInv'
<1>1. /\ reader \in [Readers -> ReaderRecords]
      /\ reader' \in [Readers -> ReaderRecords]
      /\ pickle \in [Products -> Sizes \cup {"absent", "damaged"}]
      /\ Product(x) \in Products
      /\ causes \subseteq causes'
      /\ \A y \in Readers : Product(y)' = Product(y)
                            /\ reader'[y].caching = reader[y].caching
      /\ \A y \in Readers : y # x => /\ reader'[y].pc = reader[y].pc
                                     /\ reader'[y].cube = reader[y].cube
  BY DriverFrame DEF Inv, TypeInv, TypeOK
<1>2. UNCHANGED <<entry, data, api, request, processed>>
  BY DEF DriverStep, TestCache, LoadPickle, BuildCube, OpenCacheFile, DumpPickle, ReadStep
<1>3. ~Reading(x, "idle")
  BY DEF DriverStep, TestCache, LoadPickle, BuildCube, OpenCacheFile, DumpPickle, Reading
<1>4. \A y \in Readers : ~Reading(y, "idle")' => ~Reading(y, "idle")
  BY <1>1, <1>3 DEF Reading
<1>5. "api" \in Readers /\ \A w \in Workers : w \in Readers
  BY DEF Readers
<1>6. OneWorker' /\ EstimateIsOfCall'
  BY <1>1, <1>2, <1>4, <1>5 DEF FitInv, OneWorker, EstimateIsOfCall
<1>7. ASSUME Fixed' PROVE FileFits'
  <2>1. Fixed /\ "race" \notin causes
    BY <1>1, <1>7 DEF Fixed
  <2>2. \A y \in Readers :
           ~Reading(y, "idle")' => reader'[y].caching = (entry'[Product(y)'] = "cached")
    BY <1>1, <1>2, <1>4, <2>1 DEF FitInv, FileFits
  <2>3. \A p \in Products : pickle[p] = "fits" => pickle'[p] = "fits"
    BY <2>1, DriverKeepsWholeFile DEF Sizes
  <2>4. QED
    BY <1>2, <2>1, <2>2, <2>3 DEF FitInv, FileFits
<1>8. ASSUME "data" \notin causes' PROVE AllFit'
  <2>1. /\ \A p \in Products : data[p] = "fits" /\ pickle[p] \notin {"empty", "large"}
        /\ \A p \in Products : processed[p] \notin {"empty", "large"}
        /\ \A y \in Readers : reader[y].cube \notin {"empty", "large"}
    BY <1>1, <1>8 DEF FitInv, AllFit
  <2>2. /\ reader'[x].cube \notin {"empty", "large"}
        /\ \A p \in Products : pickle'[p] \notin {"empty", "large"}
    <3>1. CASE TestCache(x)
      BY <1>1, <2>1, <3>1 DEF TestCache, ReaderAt, ReaderRecords
    <3>2. CASE LoadPickle(x)
      BY <1>1, <2>1, <3>2 DEF LoadPickle, ReadRaises, ReaderAt, ReaderRecords
    <3>3. CASE BuildCube(x)
      BY <1>1, <2>1, <3>3 DEF BuildCube, ReadRaises, ReaderAt, ReaderRecords
    <3>4. CASE OpenCacheFile(x)
      <4>1. reader'[x].cube = reader[x].cube
        <5>1. reader'[x] = [reader[x] EXCEPT !.pc = "write",
                                             !.clash = (Writers(Product(x)) # {})]
          BY <3>4 DEF OpenCacheFile
        <5>2. reader[x] \in ReaderRecords
          BY <1>1
        <5>3. QED
          BY <5>1, <5>2 DEF ReaderRecords
      <4>2. \A p \in Products : pickle'[p] \in {pickle[p], "damaged"}
        BY <1>1, <3>4 DEF OpenCacheFile
      <4>3. QED
        BY <2>1, <4>1, <4>2
    <3>5. CASE DumpPickle(x)
      BY <1>1, <2>1, <3>5 DEF DumpPickle, ReaderAt, ReaderRecords
    <3>6. QED
      BY <3>1, <3>2, <3>3, <3>4, <3>5 DEF DriverStep
  <2>3. QED
    BY <1>1, <1>2, <2>1, <2>2 DEF AllFit
<1>9. QED
  BY <1>6, <1>7, <1>8 DEF FitInv, FileFits, AllFit

(* The callers' steps: a read that begins has no cube, and goes by the     *)
(* entry; what changes in requests and results is said by the caller.      *)
LEMMA BeginsOrEndsFits ==
    ASSUME Inv, FitInv, NEW x \in Readers, UNCHANGED reader \/ BeginsOrEnds(x),
           UNCHANGED <<entry, pickle>>,
           causes \subseteq causes'
    PROVE  /\ \A y \in Readers :
                 reader[y].cube \notin {"empty", "large"} =>
                     reader'[y].cube \notin {"empty", "large"}
           /\ Fixed' => Fixed
           /\ Fixed => \A y \in Readers : ~Reading(y, "idle")' =>
                 reader'[y].caching = (entry'[Product(y)'] = "cached")
<1>1. Fixed' => Fixed
  BY DEF Fixed
<1>2. CASE UNCHANGED reader
  BY <1>1, <1>2 DEF FitInv, FileFits, Reading, Product
<1>3. CASE BeginsOrEnds(x)
  <2>1. CASE reader'[x] = NotReading
    <3>1. reader'[x].pc = "idle" /\ reader'[x].cube = "none"
      BY <2>1 DEF NotReading
    <3>2. QED
      BY <1>1, <1>3, <3>1 DEF BeginsOrEnds, FitInv, FileFits, Reading, Product
  <2>2. CASE Began(x)
    BY <1>1, <1>3, <2>2 DEF BeginsOrEnds, Began, FitInv, FileFits, Reading, Product
  <2>3. QED
    BY <1>3, <2>1, <2>2 DEF BeginsOrEnds
<1>4. QED
  BY <1>2, <1>3

(* A request is admitted on an estimate that the cache file agrees with.   *)
LEMMA AdmittedFits ==
    ASSUME Inv, FitInv, Admit, Fixed, entry[api.product] = "cached",
           Estimated = "fits"
    PROVE  pickle[api.product] = "fits"
<1>1. /\ api.product \in Products
      /\ {"race", "cacheFile"} \cap causes = {}
      /\ api.pc = "admit" /\ "api" \in Readers
  BY DEF Inv, TypeInv, ApiHasProduct, Admit, ApiAt, Fixed, Readers
<1>2. CASE Reading("api", "done")
  <2>1. Product("api") = api.product /\ ~Reading("api", "idle")
    BY <1>1, <1>2 DEF FitInv, EstimateIsOfCall, Reading
  <2>2. reader["api"].caching
    BY <1>1, <2>1 DEF FitInv, FileFits
  <2>3. pickle[Product("api")] = reader["api"].cube
    BY <1>1, <1>2, <2>2 DEF Inv, OneCube
  <2>4. QED
    BY <1>2, <2>1, <2>3 DEF Estimated
<1>3. CASE ~Reading("api", "done")
  <2>1. cache[api.product] = "fits"
    BY <1>3 DEF Estimated
  <2>2. QED
    BY <1>1, <2>1 DEF Inv, OneCube
<1>4. QED
  BY <1>2, <1>3

LEMMA ApiFits ==
    ASSUME Inv, FitInv,
           ApiNext \/ \E p \in Products, label \in {"assert", "lookup"} : Call(p, label)
    PROVE  FitInv'
<1>1. /\ UNCHANGED reader \/ BeginsOrEnds("api")
      /\ UNCHANGED <<entry, data, pickle, processed, causes>>
      /\ "api" \in Readers
  BY ApiStepType DEF Inv, ApiStep, Readers
<1>2. /\ reader \in [Readers -> ReaderRecords] /\ api \in ApiRecords
      /\ request \in [Products -> Sizes \cup {"none"}]
      /\ TypeInv'
  BY ApiStepType DEF Inv, TypeInv, TypeOK, ReaderRecords, ApiRecords
<1>3. /\ \A y \in Readers :
            reader[y].cube \notin {"empty", "large"} =>
                reader'[y].cube \notin {"empty", "large"}
      /\ Fixed' = Fixed
      /\ Fixed => \A y \in Readers : ~Reading(y, "idle")' =>
            reader'[y].caching = (entry'[Product(y)'] = "cached")
  BY <1>1, BeginsOrEndsFits DEF Fixed
<1>4. \A w \in Workers : w \in Readers /\ reader'[w] = reader[w]
  BY <1>1, ApiIsNoWorker DEF BeginsOrEnds, Readers
<1>5. \/ UNCHANGED request
      \/ Admit /\ Estimated = "fits"
         /\ request' = [request EXCEPT ![api.product] = "fits"]
  BY DEF ApiNext, StartApi, ListDataset, LoadProduct, ProductLoaded, CacheLoaded, Estimate,
         ProductDetails, DetailsRead, EstimateRead, Admit, Call
<1>6. AllFit'
  BY <1>1, <1>3 DEF FitInv, AllFit
<1>7. OneWorker'
  <2>1. \A p \in Products : request[p] # "none" => request'[p] # "none"
    BY <1>2, <1>5
  <2>2. \A w \in Workers : ~Reading(w, "idle") => Product(w) \in Products
    BY <1>4 DEF Inv, TypeInv, ReaderHasProduct
  <2>3. \A w \in Workers : Product(w)' = Product(w)
                           /\ Reading(w, "idle")' = Reading(w, "idle")
    BY <1>4 DEF Product, Reading
  <2>4. \A w \in Workers : ~Reading(w, "idle") => request'[Product(w)] # "none"
    BY <2>1, <2>2 DEF FitInv, OneWorker
  <2>5. QED
    BY <2>3, <2>4 DEF FitInv, OneWorker
<1>8. EstimateIsOfCall'
  <2>1. CASE Estimate
    <3>1. api.pc = "assert" /\ api.product \in Products /\ reader["api"].pc = "idle"
      BY <2>1 DEF Estimate, ApiAt, Inv, TypeInv, ApiHasProduct, ApiReadsForCall, Reading
    <3>2. CASE UNCHANGED reader
      BY <3>1, <3>2 DEF EstimateIsOfCall, Reading
    <3>3. CASE ApiGoto("estimateRead") /\ ReadProduct("api", api.product)
      <4>1. Product("api")' = api.product
        BY <1>1, <1>2, <3>1, <3>3, ReadProductBegins
      <4>2. api'.product = api.product
        BY <1>2, <3>3 DEF ApiGoto, ApiRecords
      <4>3. QED
        BY <4>1, <4>2 DEF EstimateIsOfCall
    <3>4. QED
      BY <2>1, <3>2, <3>3 DEF Estimate
  <2>2. CASE EstimateRead
    <3>1. CASE Reading("api", "done")
      <4>1. /\ api.pc = "estimateRead" /\ UNCHANGED reader
            /\ api' = [api EXCEPT !.pc = "admit"]
        BY <2>2, <3>1 DEF EstimateRead, ApiAt, ApiGoto
      <4>2. api'.product = api.product
        BY <1>2, <4>1 DEF ApiRecords
      <4>3. QED
        BY <4>1, <4>2 DEF FitInv, EstimateIsOfCall, Reading, Product
    <3>2. CASE ~Reading("api", "done")
      BY <2>2, <3>2 DEF EstimateRead, ApiIdle, EstimateIsOfCall
    <3>3. QED
      BY <3>1, <3>2
  <2>3. CASE ProductDetails
    BY <1>2, <2>3 DEF ProductDetails, ApiIdle, ApiGoto, ApiRecords, EstimateIsOfCall
  <2>4. CASE ProductLoaded
    BY <1>2, <2>4 DEF ProductLoaded, ApiDown, ApiGoto, ApiRecords, EstimateIsOfCall
  <2>5. ASSUME NEW p \in Products, LoadProduct(p) PROVE EstimateIsOfCall'
    <3>1. api'.pc \in {"down", "loading", "loadRead"}
      <4>1. CASE ApiDown
        BY <4>1 DEF ApiDown
      <4>2. CASE api' = [api EXCEPT !.todo = @ \ {p}]
        BY <1>2, <2>5, <4>2 DEF LoadProduct, ApiAt, ApiRecords
      <4>3. CASE api' = [api EXCEPT !.pc = "loadRead", !.product = p, !.todo = @ \ {p}]
        BY <1>2, <4>3 DEF ApiRecords
      <4>4. QED
        BY <2>5, <4>1, <4>2, <4>3 DEF LoadProduct
    <3>2. QED
      BY <3>1 DEF EstimateIsOfCall
  <2>9. ASSUME NEW d \in Datasets, ListDataset(d) PROVE EstimateIsOfCall'
    <3>1. api'.pc \in {"down", "loading"}
      <4>1. CASE ApiDown
        BY <4>1 DEF ApiDown
      <4>2. CASE api' = [api EXCEPT !.sets = @ \ {d}, !.todo = d \cap Listed]
        BY <1>2, <2>9, <4>2 DEF ListDataset, ApiAt, ApiRecords
      <4>3. QED
        BY <2>9, <4>1, <4>2 DEF ListDataset
    <3>2. QED
      BY <3>1 DEF EstimateIsOfCall
  <2>6. CASE StartApi \/ CacheLoaded \/ DetailsRead \/ Admit
    BY <2>6 DEF StartApi, CacheLoaded, DetailsRead, Admit, ApiIdle, EstimateIsOfCall
  <2>7. ASSUME NEW p \in Products, NEW label \in {"assert", "lookup"}, Call(p, label)
        PROVE  EstimateIsOfCall'
    BY <2>7 DEF Call, EstimateIsOfCall
  <2>8. QED
    BY <2>1, <2>2, <2>3, <2>4, <2>5, <2>6, <2>7, <2>9 DEF ApiNext
<1>9. ASSUME Fixed PROVE FileFits'
  <2>1. \A p \in Products :
           entry[p] = "cached" /\ request'[p] # "none" => pickle[p] = "fits"
    <3>1. CASE UNCHANGED request
      BY <1>9, <3>1 DEF FitInv, FileFits
    <3>2. CASE /\ Admit /\ Estimated = "fits"
               /\ request' = [request EXCEPT ![api.product] = "fits"]
      BY <1>2, <1>9, <3>2, AdmittedFits DEF FitInv, FileFits
    <3>3. QED
      BY <1>5, <3>1, <3>2
  <2>2. QED
    BY <1>1, <1>3, <1>9, <2>1 DEF FitInv, FileFits
<1>10. QED
  BY <1>3, <1>6, <1>7, <1>8, <1>9 DEF FitInv, FileFits

(* What a worker reads through the cache file is what was estimated.       *)
LEMMA WorkerFits ==
    ASSUME Inv, FitInv, NEW w \in Workers,
           QueryReturns(w) \/ \E p \in Products : Query(w, p)
    PROVE  FitInv'
<1>1. /\ UNCHANGED reader \/ BeginsOrEnds(w)
      /\ UNCHANGED <<entry, data, pickle, api, causes>>
      /\ w \in Readers /\ "api" \in Readers /\ w # "api"
  BY WorkerStepType, ApiIsNoWorker DEF Inv, WorkerStep, Readers
<1>2. /\ reader \in [Readers -> ReaderRecords]
      /\ request \in [Products -> Sizes \cup {"none"}]
      /\ processed \in [Products -> Sizes \cup {"none", "FAILED"}]
      /\ \A v \in Workers : v \in Readers
  BY DEF Inv, TypeInv, TypeOK, ReaderRecords, Readers
<1>3. /\ \A y \in Readers :
            reader[y].cube \notin {"empty", "large"} =>
                reader'[y].cube \notin {"empty", "large"}
      /\ Fixed' = Fixed
      /\ Fixed => \A y \in Readers : ~Reading(y, "idle")' =>
            reader'[y].caching = (entry'[Product(y)'] = "cached")
  BY <1>1, BeginsOrEndsFits DEF Fixed
<1>4. reader'["api"] = reader["api"]
  BY <1>1 DEF BeginsOrEnds
<1>5. EstimateIsOfCall'
  BY <1>1, <1>4 DEF FitInv, EstimateIsOfCall, Reading, Product
<1>6. CASE QueryReturns(w)
  <2>1. PICK p \in Products : p = Product(w)
    BY <1>1, <1>6 DEF QueryReturns, ReadReturns, Inv, TypeInv, ReaderHasProduct, Reading
  <2>2. /\ ~Reading(w, "idle")
        /\ request' = [request EXCEPT ![p] = "none"]
        /\ processed' = [processed EXCEPT ![p] =
              IF Reading(w, "done") THEN reader[w].cube ELSE "FAILED"]
    BY <1>6, <2>1 DEF QueryReturns, ReadReturns, Reading
  <2>3. Reading(w, "idle")' /\ \A v \in Workers : v # w => reader'[v] = reader[v]
    BY <1>1, <1>2, <1>6, EndReadEnds DEF QueryReturns, BeginsOrEnds
  <2>4. AllFit'
    BY <1>1, <1>2, <1>3, <2>2 DEF FitInv, AllFit
  <2>5. \A v \in Workers : ~Reading(v, "idle")' =>
            /\ v # w /\ ~Reading(v, "idle") /\ Product(v)' = Product(v)
            /\ Product(v) \in Products /\ Product(v) # p
    BY <1>2, <2>1, <2>2, <2>3
       DEF FitInv, OneWorker, Reading, Product, Inv, TypeInv, ReaderHasProduct
  <2>6. OneWorker'
    <3>1. \A v \in Workers : ~Reading(v, "idle")' => request'[Product(v)'] # "none"
      BY <1>2, <2>2, <2>5 DEF FitInv, OneWorker
    <3>2. QED
      BY <2>5, <3>1 DEF FitInv, OneWorker
  <2>7. ASSUME Fixed PROVE FileFits'
    <3>1. ASSUME entry[p] = "cached", Reading(w, "done") PROVE reader[w].cube = "fits"
      <4>1. reader[w].caching /\ {"race", "cacheFile"} \cap causes = {}
        BY <1>1, <2>1, <2>2, <2>7, <3>1 DEF FitInv, FileFits, Fixed
      <4>2. pickle[p] = reader[w].cube
        BY <1>1, <2>1, <3>1, <4>1 DEF Inv, OneCube
      <4>3. request[p] # "none"
        BY <2>1, <2>2 DEF FitInv, OneWorker
      <4>4. QED
        BY <2>7, <3>1, <4>2, <4>3 DEF FitInv, FileFits
    <3>2. \A q \in Products : entry[q] = "cached" =>
             /\ request'[q] # "none" => pickle[q] = "fits"
             /\ processed'[q] \notin {"empty", "large"}
      BY <1>2, <2>2, <2>7, <3>1 DEF FitInv, FileFits
    <3>3. QED
      BY <1>1, <1>3, <2>7, <3>2 DEF FitInv, FileFits
  <2>8. QED
    BY <1>3, <1>5, <2>4, <2>6, <2>7 DEF FitInv, FileFits
<1>7. ASSUME NEW p \in Products, Query(w, p) PROVE FitInv'
  <2>1. /\ Reading(w, "idle") /\ request[p] # "none"
        /\ \A v \in Workers : Reading(v, "idle") \/ Product(v) # p
    BY <1>7 DEF Query
  <2>2. CASE /\ UNCHANGED reader
             /\ request' = [request EXCEPT ![p] = "none"]
             /\ processed' = [processed EXCEPT ![p] = "FAILED"]
    <3>1. AllFit'
      BY <1>1, <1>2, <2>2 DEF FitInv, AllFit
    <3>2. OneWorker'
      <4>1. \A v \in Workers : Product(v)' = Product(v)
                               /\ Reading(v, "idle")' = Reading(v, "idle")
        BY <2>2 DEF Product, Reading
      <4>2. \A v \in Workers : ~Reading(v, "idle") => request'[Product(v)] # "none"
        BY <1>2, <2>1, <2>2 DEF FitInv, OneWorker
      <4>3. QED
        BY <4>1, <4>2 DEF FitInv, OneWorker
    <3>3. Fixed => FileFits'
      BY <1>1, <1>2, <1>3, <2>2 DEF FitInv, FileFits
    <3>4. QED
      BY <1>3, <1>5, <3>1, <3>2, <3>3 DEF FitInv, FileFits
  <2>3. CASE ReadProduct(w, p) /\ UNCHANGED <<processed, request>>
    <3>1. /\ Product(w)' = p
          /\ \A v \in Workers : v # w => reader'[v] = reader[v]
      BY <1>1, <1>2, <2>3, ReadProductBegins DEF BeginsOrEnds
    <3>2. AllFit'
      BY <1>1, <1>3, <2>3 DEF FitInv, AllFit
    <3>3. \A v \in Workers : v # w => Product(v)' = Product(v)
                                      /\ Reading(v, "idle")' = Reading(v, "idle")
      BY <3>1 DEF Product, Reading
    <3>4. OneWorker'
      <4>1. \A v \in Workers : ~Reading(v, "idle")' => request[Product(v)'] # "none"
        BY <2>1, <3>1, <3>3 DEF FitInv, OneWorker
      <4>2. ASSUME NEW u \in Workers, NEW v \in Workers, ~Reading(u, "idle")',
                   ~Reading(v, "idle")', Product(u)' = Product(v)'
            PROVE  u = v
        BY <2>1, <3>1, <3>3, <4>2 DEF FitInv, OneWorker
      <4>3. QED
        BY <2>3, <4>1, <4>2 DEF OneWorker
    <3>5. Fixed => FileFits'
      BY <1>1, <1>3, <2>3 DEF FitInv, FileFits
    <3>6. QED
      BY <1>3, <1>5, <3>2, <3>4, <3>5 DEF FitInv, FileFits
  <2>4. QED
    BY <1>7, <2>2, <2>3 DEF Query
<1>8. QED
  BY <1>6, <1>7

LEMMA FailureFits ==
    ASSUME Inv, FitInv, NEW x \in Readers, DriverFails(x)
    PROVE  FitInv'
<1>1. /\ ~Reading(x, "idle") /\ reader'[x].pc \in {"ValueError", "error"}
      /\ \A y \in Readers : Product(y)' = Product(y)
      /\ \A y \in Readers : /\ reader'[y].caching = reader[y].caching
                             /\ reader'[y].cube = reader[y].cube
      /\ \A y \in Readers : y # x => reader'[y].pc = reader[y].pc
      /\ \A p \in Products : pickle'[p] # pickle[p] => pickle'[p] = "damaged"
      /\ causes \subseteq causes' /\ causes' \subseteq causes \cup {"dump"}
      /\ UNCHANGED <<entry, data, api, request, processed>>
  BY DriverFailsFrame DEF Inv, Product
<1>2. \A y \in Readers : Reading(y, "idle")' = Reading(y, "idle")
  BY <1>1 DEF Reading
<1>3. "api" \in Readers /\ \A w \in Workers : w \in Readers
  BY DEF Readers
<1>4. OneWorker' /\ EstimateIsOfCall'
  BY <1>1, <1>2, <1>3 DEF FitInv, OneWorker, EstimateIsOfCall
<1>5. ASSUME "data" \notin causes' PROVE AllFit'
  BY <1>1, <1>5 DEF FitInv, AllFit
<1>6. ASSUME Fixed' PROVE FileFits'
  <2>1. Fixed /\ "race" \notin causes
    BY <1>1, <1>6 DEF Fixed
  <2>2. \A y \in Readers :
           ~Reading(y, "idle")' => reader'[y].caching = (entry'[Product(y)'] = "cached")
    BY <1>1, <1>2, <2>1 DEF FitInv, FileFits
  <2>3. \A p \in Products : pickle[p] = "fits" => pickle'[p] = "fits"
    BY <2>1, FailureChangesFile DEF Inv, Sizes
  <2>4. QED
    BY <1>1, <2>1, <2>2, <2>3 DEF FitInv, FileFits
<1>7. QED
  BY <1>4, <1>5, <1>6 DEF FitInv, FileFits, AllFit

LEMMA CrashFits == ASSUME Inv, FitInv, NEW x \in Readers, Crash(x) PROVE FitInv'
<1>1. /\ UNCHANGED <<entry, data, pickle, request, processed>>
      /\ causes \subseteq causes' /\ EndRead(x)
      /\ Fixed' = Fixed /\ ("data" \notin causes' => "data" \notin causes)
      /\ "api" \in Readers /\ \A v \in Workers : v \in Readers
  BY DEF Crash, Fixed, Readers
<1>2. BeginsOrEnds(x) /\ Reading(x, "idle")'
  BY <1>1, EndReadEnds DEF Inv, TypeInv, TypeOK, ReaderRecords
<1>3. /\ \A y \in Readers :
            reader[y].cube \notin {"empty", "large"} =>
                reader'[y].cube \notin {"empty", "large"}
      /\ Fixed => \A y \in Readers : ~Reading(y, "idle")' =>
            reader'[y].caching = (entry'[Product(y)'] = "cached")
  BY <1>1, <1>2, BeginsOrEndsFits
<1>4. \A y \in Readers : ~Reading(y, "idle")' =>
          y # x /\ ~Reading(y, "idle") /\ Product(y)' = Product(y)
  BY <1>2 DEF BeginsOrEnds, Reading, Product
<1>5. AllFit' /\ FileFits'
  BY <1>1, <1>3 DEF FitInv, AllFit, FileFits
<1>6. OneWorker'
  BY <1>1, <1>4 DEF FitInv, OneWorker
<1>7. EstimateIsOfCall'
  <2>1. CASE x = "api"
    BY <1>2, <2>1 DEF EstimateIsOfCall
  <2>2. CASE x # "api"
    BY <1>1, <1>4, <2>2 DEF Crash, FitInv, EstimateIsOfCall
  <2>3. QED
    BY <2>1, <2>2
<1>8. QED
  BY <1>5, <1>6, <1>7 DEF FitInv

LEMMA OperatorFits == ASSUME Inv, FitInv, Operator PROVE FitInv'
<1>1. PICK p \in Products : EditCatalog(p) \/ ChangeData(p) \/ DeleteCacheFile(p)
  BY DEF Operator
<1>2. UNCHANGED <<api, reader, request, processed>> /\ causes \subseteq causes'
  BY <1>1 DEF EditCatalog, ChangeData, DeleteCacheFile, Edit
<1>3. OneWorker' /\ EstimateIsOfCall'
  BY <1>2 DEF FitInv, OneWorker, EstimateIsOfCall, Reading, Product
<1>4. FileFits'
  <2>1. CASE EditCatalog(p) \/ DeleteCacheFile(p)
    BY <2>1 DEF EditCatalog, DeleteCacheFile, Edit, Fixed, FileFits
  <2>2. CASE ChangeData(p)
    BY <1>2, <2>2 DEF ChangeData, Fixed, FitInv, FileFits, Reading, Product
  <2>3. QED
    BY <1>1, <2>1, <2>2
<1>5. AllFit'
  <2>1. CASE ChangeData(p)
    BY <2>1 DEF ChangeData, Edit, AllFit
  <2>2. CASE EditCatalog(p) \/ DeleteCacheFile(p)
    <3>1. /\ UNCHANGED data
          /\ \A q \in Products : pickle'[q] \in {pickle[q], "absent"}
      BY <2>2 DEF EditCatalog, DeleteCacheFile, Inv, TypeInv, TypeOK
    <3>2. QED
      BY <1>2, <3>1 DEF FitInv, AllFit
  <2>3. QED
    BY <1>1, <2>1, <2>2
<1>6. QED
  BY <1>3, <1>4, <1>5 DEF FitInv

LEMMA FitInductive == ASSUME Inv, FitInv, [Next]_vars PROVE FitInv'
<1>1. CASE UNCHANGED vars
  BY <1>1 DEF vars, FitInv, AllFit, OneWorker, EstimateIsOfCall, FileFits, Fixed,
              Reading, Product
<1>2. QED
  BY <1>1, NextCases, DriverFits, FailureFits, ApiFits, WorkerFits, CrashFits, OperatorFits

(* A request is admitted on an estimate and comes to a result of another   *)
(* size only when the data have changed in between and no cache file held  *)
(* on to them: for every number of products, workers, edits and faults.    *)
THEOREM ResultAlwaysAsEstimated == Spec => []ResultIsAsEstimated
<1>1. Inv /\ FitInv /\ [Next]_vars => FitInv'
  BY FitInductive
<1>2. ASSUME Inv, FitInv PROVE ResultIsAsEstimated
  <2> SUFFICES ASSUME NEW p \in Products, processed[p] \in {"empty", "large"}
               PROVE  /\ "data" \in causes
                      /\ entry[p] = "plain"
                         \/ causes \cap {"race", "cacheFile", "catalog"} # {}
    BY DEF ResultIsAsEstimated
  <2>1. "data" \in causes
    BY <1>2 DEF FitInv, AllFit
  <2>2. ASSUME causes \cap {"race", "cacheFile", "catalog"} = {} PROVE entry[p] = "plain"
    <3>1. Fixed
      BY <2>2 DEF Fixed
    <3>2. entry[p] # "absent" /\ entry[p] # "cached"
      BY <1>2, <3>1 DEF FitInv, FileFits
    <3>3. QED
      BY <1>2, <3>2 DEF Inv, TypeInv, TypeOK
  <2>3. QED
    BY <2>1, <2>2
<1> QED
  BY <1>1, <1>2, InitFit, InvAlways, PTL DEF Spec

================================================================================

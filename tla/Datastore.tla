------------------------------- MODULE Datastore -------------------------------
(***************************************************************************)
(* datastore/datastore/datastore.py and what it stands on: the catalog,    *)
(* the products it names, the cache the API keeps of them in memory, and   *)
(* the metadata cache file of the ancillary driver                         *)
(* (drivers/intake_geokube/netcdf_with_ancillary.py).                      *)
(*                                                                         *)
(* Catalog, data and cache files are directories of the host, mounted by   *)
(* the API and the executor (kubernetes/api-deployment.yaml,               *)
(* executor-deployment.yaml) and changed by their operator while both run. *)
(* Every access by self.catalog(...) reads the catalog anew.  A data cube  *)
(* is abstracted to its size against what may be asked for.  A dataset is  *)
(* the set of its products.                                                *)
(***************************************************************************)
EXTENDS Naturals, FiniteSets

CONSTANTS
    Products,     \* dataset_id and product_id
    Datasets,     \* the catalog's datasets, as sets of products
    Workers,      \* Dask workers
    MaxEdits,     \* bound: changes the operator makes
    MaxFaults     \* bound: processes that are killed, reads that fail

ASSUME DatasetsAssumption == Datasets \subseteq SUBSET Products /\ UNION Datasets = Products
ASSUME MaxEditsAssumption == MaxEdits \in Nat
ASSUME MaxFaultsAssumption == MaxFaults \in Nat
ASSUME ApiIsNoWorker == "api" \notin Workers

VARIABLES
    entry,      \* the catalog's entry: "absent", "plain", or "cached" with
                \* metadata_caching
    data,       \* the product's files: the size of the cube they make
    pickle,     \* the file at metadata_cache_path
    api,        \* the API: its pc, the product at hand, the datasets to
                \* list and, of the one listed, the products to load
    cache,      \* Datastore().cache of the API; "none" for no entry
    reader,     \* per process, the read_chunked() it is in
    request,    \* an admitted request on the product and its estimate
    processed,  \* what the last request on the product came to
    edits, faults,
    causes      \* history: what has happened that nothing repairs

vars == <<entry, data, pickle, api, cache, reader, request, processed,
          edits, faults, causes>>

Sizes == {"empty", "fits", "large"}

Readers == {"api"} \cup Workers

(* "race": a process has found no cache file while another was making it;  *)
(* "torn": one was killed while writing it; "dump": an exception ended its *)
(* writing; the rest is the operator's.                                    *)
Causes == {"race", "torn", "dump", "catalog", "data", "cacheFile"}

NotReading == [pc |-> "idle", product |-> "none", cube |-> "none",
               caching |-> FALSE, clash |-> FALSE]

Init ==
    /\ entry \in [Products -> {"plain", "cached"}]
    /\ data = [p \in Products |-> "fits"]
    /\ pickle = [p \in Products |-> "absent"]
    /\ api = [pc |-> "down", product |-> "none", sets |-> {}, todo |-> {}]
    /\ cache = [p \in Products |-> "none"]
    /\ reader = [x \in Readers |-> NotReading]
    /\ request = [p \in Products |-> "none"]
    /\ processed = [p \in Products |-> "none"]
    /\ edits = 0
    /\ faults = 0
    /\ causes = {}

TypeOK ==
    /\ entry \in [Products -> {"absent", "plain", "cached"}]
    /\ data \in [Products -> Sizes \cup {"broken"}]
    /\ pickle \in [Products -> Sizes \cup {"absent", "damaged"}]
    /\ api \in [pc : {"down", "loading", "loadRead", "up", "assert", "lookup",
                      "estimateRead", "detailsRead", "admit"},
                product : Products \cup {"none"},
                sets : SUBSET Datasets, todo : SUBSET Products]
    /\ cache \in [Products -> Sizes \cup {"none"}]
    /\ reader \in [Readers ->
                     [pc : {"idle", "test", "load", "build", "open", "write",
                            "done", "ValueError", "error"},
                      product : Products \cup {"none"},
                      cube : Sizes \cup {"none"}, caching : BOOLEAN, clash : BOOLEAN]]
    /\ request \in [Products -> Sizes \cup {"none"}]
    /\ processed \in [Products -> Sizes \cup {"none", "FAILED"}]
    /\ edits \in 0..MaxEdits
    /\ faults \in 0..MaxFaults
    /\ causes \subseteq Causes

------------------------------------------------------------------------------
(* One read_chunked() of process x: GeokubeSource.read and, for an entry   *)
(* with metadata_caching, the cache file.                                  *)

ReadProduct(x, p) ==
    reader' = [reader EXCEPT ![x] =
        [NotReading EXCEPT !.pc = IF entry[p] = "cached" THEN "test" ELSE "build",
                           !.product = p,
                           !.caching = (entry[p] = "cached")]]

Reading(x, label) == reader[x].pc = label
Product(x) == reader[x].product
ReaderAt(x, label) == reader' = [reader EXCEPT ![x].pc = label]

(* Reading leaves everything to its caller but the cache file.             *)
ReadStep == UNCHANGED <<entry, data, api, cache, request, processed, edits, faults>>

Writers(p) == {x \in Readers : Reading(x, "write") /\ Product(x) = p}

(* Those that make the cache file of p, from the test on.                  *)
Makers(p) == {x \in Readers : /\ reader[x].pc \in {"build", "open", "write"}
                              /\ reader[x].caching /\ Product(x) = p}

(* An exception, of the one kind _load_cache catches or of another.        *)
ReadRaises(x) == \E err \in {"ValueError", "error"} : ReaderAt(x, err)

\* Mutant: the test is the wrong way round.
TestCacheInverted(x) ==
    /\ Reading(x, "test")
    /\ ReaderAt(x, IF pickle[Product(x)] = "absent" THEN "load" ELSE "build")
    /\ UNCHANGED <<pickle, causes>> /\ ReadStep

\* Mutant: the cache file is built anew by every read.
TestCacheNever(x) ==
    /\ Reading(x, "test")
    /\ ReaderAt(x, "build")
    /\ UNCHANGED <<pickle, causes>> /\ ReadStep

(* os.path.exists ...                                                      *)
TestCache(x) ==
    /\ Reading(x, "test")
    /\ LET p == Product(x) IN
       /\ ReaderAt(x, IF pickle[p] = "absent" THEN "build" ELSE "load")
       /\ causes' = IF pickle[p] = "absent" /\ Makers(p) # {}
                    THEN causes \cup {"race"} ELSE causes
    /\ UNCHANGED pickle /\ ReadStep

\* Mutant: whatever is in the file is taken for a cube.
LoadPickleUnchecked(x) ==
    /\ Reading(x, "load")
    /\ reader' = [reader EXCEPT ![x].pc = "done", ![x].cube = pickle[Product(x)]]
    /\ UNCHANGED <<pickle, causes>> /\ ReadStep

(* ... then open and pickle.load: whatever is there, part of a file too.   *)
LoadPickle(x) ==
    /\ Reading(x, "load")
    /\ LET content == pickle[Product(x)] IN
       IF content \in Sizes
       THEN reader' = [reader EXCEPT ![x].pc = "done", ![x].cube = content]
       ELSE ReadRaises(x)
    /\ UNCHANGED <<pickle, causes>> /\ ReadStep

(* The files are opened and merged.                                        *)
BuildCube(x) ==
    /\ Reading(x, "build")
    /\ LET size == data[Product(x)] IN
       IF size = "broken"
       THEN ReadRaises(x)
       ELSE reader' = [reader EXCEPT
               ![x].pc = IF reader[x].caching THEN "open" ELSE "done",
               ![x].cube = size]
    /\ UNCHANGED <<pickle, causes>> /\ ReadStep

(* open(metadata_cache_path, "wb") truncates, whoever else is writing.     *)
OpenCacheFile(x) ==
    /\ Reading(x, "open")
    /\ LET p == Product(x)
           others == Writers(p) IN
       /\ pickle' = [pickle EXCEPT ![p] = "damaged"]
       /\ reader' = [y \in Readers |->
            IF y = x THEN [reader[x] EXCEPT !.pc = "write", !.clash = (others # {})]
            ELSE [reader[y] EXCEPT !.clash = @ \/ y \in others]]
    /\ UNCHANGED causes /\ ReadStep

\* Mutant: the file is left open, its end unwritten.
DumpPickleUnflushed(x) ==
    /\ Reading(x, "write")
    /\ UNCHANGED <<pickle, causes>>
    /\ ReaderAt(x, "done")
    /\ ReadStep

(* pickle.dump and close.  Of two processes writing at once, each at its   *)
(* own offset, the file is one's cube or neither's.                        *)
DumpPickle(x) ==
    /\ Reading(x, "write")
    /\ \E content \in {reader[x].cube} \cup
                      (IF reader[x].clash THEN {"damaged"} ELSE {}) :
          pickle' = [pickle EXCEPT ![Product(x)] = content]
    /\ ReaderAt(x, "done")
    /\ UNCHANGED causes
    /\ ReadStep

DriverStep(x) ==
    TestCache(x) \/ LoadPickle(x) \/ BuildCube(x) \/ OpenCacheFile(x) \/ DumpPickle(x)

ReadReturns(x) == reader[x].pc \in {"done", "ValueError", "error"}
EndRead(x) == reader' = [reader EXCEPT ![x] = NotReading]

------------------------------------------------------------------------------
(* The API.                                                                *)

ApiAt(label) == api.pc = label
ApiGoto(label) == api' = [api EXCEPT !.pc = label]
ApiIdle == api' = [pc |-> "up", product |-> "none", sets |-> {}, todo |-> {}]
ApiDown == api' = [pc |-> "down", product |-> "none", sets |-> {}, todo |-> {}]

ApiStep == UNCHANGED <<entry, data, pickle, processed, edits, faults, causes>>

(* What product_list finds; "medsea-rea-e3r1", which dataset_list hides,   *)
(* is none of the Datasets.                                                *)
Listed == {p \in Products : entry[p] # "absent"}

(* on_startup calls _load_cache: an empty cache and dataset_list (of which *)
(* a dataset without products matters no further).                         *)
StartApi ==
    /\ ApiAt("down")
    /\ cache' = [p \in Products |-> "none"]
    /\ api' = [pc |-> "loading", product |-> "none",
               sets |-> {d \in Datasets : d \cap Listed # {}}, todo |-> {}]
    /\ UNCHANGED <<reader, request>> /\ ApiStep

(* The turn of dataset d: its product_list, from the catalog as it is now. *)
(* If the dataset has gone since dataset_list, and not only its products,  *)
(* that is a KeyError, which ends the start.                               *)
ListDataset(d) ==
    /\ ApiAt("loading")
    /\ api.todo = {}
    /\ d \in api.sets
    /\ \/ api' = [api EXCEPT !.sets = @ \ {d}, !.todo = d \cap Listed]
       \/ d \cap Listed = {} /\ ApiDown
    /\ UNCHANGED <<cache, reader, request>> /\ ApiStep

(* The turn of product p.  An entry that has gone since the list was read  *)
(* is a KeyError, which ends the start.                                    *)
LoadProduct(p) ==
    /\ ApiAt("loading")
    /\ p \in api.todo
    /\ \/ entry[p] = "absent" /\ ApiDown /\ UNCHANGED reader
       \/ entry[p] = "plain" /\ UNCHANGED reader
          /\ api' = [api EXCEPT !.todo = @ \ {p}]
       \/ entry[p] = "cached" /\ ReadProduct("api", p)
          /\ api' = [api EXCEPT !.pc = "loadRead", !.product = p, !.todo = @ \ {p}]
    /\ UNCHANGED <<cache, request>> /\ ApiStep

(* Its read has returned: a ValueError is logged and the product left out, *)
(* any other exception ends the start.                                     *)
ProductLoaded ==
    /\ ApiAt("loadRead")
    /\ ReadReturns("api")
    /\ cache' = IF Reading("api", "done")
                THEN [cache EXCEPT ![api.product] = reader["api"].cube]
                ELSE cache
    /\ IF Reading("api", "error") THEN ApiDown ELSE ApiGoto("loading")
    /\ EndRead("api")
    /\ UNCHANGED request /\ ApiStep

CacheLoaded ==
    /\ ApiAt("loading")
    /\ api.sets = {} /\ api.todo = {}
    /\ ApiIdle
    /\ UNCHANGED <<cache, reader, request>> /\ ApiStep

(* An execute or estimate call, or one for details: assert_product_exists. *)
Call(p, label) ==
    /\ ApiAt("up")
    /\ p \in Listed
    /\ label = "assert" => request[p] = "none"    \* bound: one at a time
    /\ api' = [pc |-> label, product |-> p, sets |-> {}, todo |-> {}]
    /\ UNCHANGED <<cache, reader, request>> /\ ApiStep

(* get_cached_product_or_read, for estimate: the cache, or a read of what  *)
(* the catalog names now; assert_product_exists of estimate, or a KeyError,*)
(* ends the call when it is gone.                                          *)
Estimate ==
    /\ ApiAt("assert")
    /\ LET p == api.product IN
       \/ entry[p] = "absent" /\ ApiIdle /\ UNCHANGED reader
       \/ entry[p] # "absent" /\ cache[p] # "none" /\ ApiGoto("admit")
          /\ UNCHANGED reader
       \/ entry[p] # "absent" /\ cache[p] = "none" /\ ApiGoto("estimateRead")
          /\ ReadProduct("api", p)
    /\ UNCHANGED <<cache, request>> /\ ApiStep

(* The same for product_details, whose answer is of no further use.        *)
ProductDetails ==
    /\ ApiAt("lookup")
    /\ LET p == api.product IN
       \/ (entry[p] = "absent" \/ cache[p] # "none") /\ ApiIdle /\ UNCHANGED reader
       \/ entry[p] # "absent" /\ cache[p] = "none" /\ ApiGoto("detailsRead")
          /\ ReadProduct("api", p)
    /\ UNCHANGED <<cache, request>> /\ ApiStep

DetailsRead ==
    /\ ApiAt("detailsRead")
    /\ ReadReturns("api")
    /\ EndRead("api")
    /\ ApiIdle
    /\ UNCHANGED <<cache, request>> /\ ApiStep

(* A read that raises is an answer 500.                                    *)
EstimateRead ==
    /\ ApiAt("estimateRead")
    /\ ReadReturns("api")
    /\ IF Reading("api", "done")
       THEN ApiGoto("admit") /\ UNCHANGED reader
       ELSE ApiIdle /\ EndRead("api")
    /\ UNCHANGED <<cache, request>> /\ ApiStep

Estimated == IF Reading("api", "done") THEN reader["api"].cube
             ELSE cache[api.product]

\* Mutant: an estimate of zero is not looked for.
AdmitEmpty ==
    /\ ApiAt("admit")
    /\ LET p == api.product IN
       request' = IF entry[p] # "absent" /\ Estimated # "large"
                  THEN [request EXCEPT ![p] = Estimated] ELSE request
    /\ EndRead("api")
    /\ ApiIdle
    /\ UNCHANGED cache /\ ApiStep

(* async_query creates the request when the estimate is neither more than  *)
(* the product's limit, read from the catalog, nor zero.                   *)
Admit ==
    /\ ApiAt("admit")
    /\ LET p == api.product IN
       request' = IF entry[p] # "absent" /\ Estimated = "fits"
                  THEN [request EXCEPT ![p] = Estimated] ELSE request
    /\ EndRead("api")
    /\ ApiIdle
    /\ UNCHANGED cache /\ ApiStep

ApiNext ==
    \/ StartApi
    \/ \E d \in Datasets : ListDataset(d)
    \/ \E p \in Products : LoadProduct(p)
    \/ ProductLoaded
    \/ CacheLoaded
    \/ Estimate
    \/ ProductDetails
    \/ DetailsRead
    \/ EstimateRead
    \/ Admit

------------------------------------------------------------------------------
(* The Dask workers.                                                       *)

WorkerStep == UNCHANGED <<entry, data, pickle, api, cache, edits, faults, causes>>

(* query: always from the catalog, never from a cache in memory.           *)
Query(w, p) ==
    /\ Reading(w, "idle")
    /\ request[p] # "none"
    /\ \A v \in Workers : Reading(v, "idle") \/ Product(v) # p
    /\ IF entry[p] = "absent"
       THEN /\ processed' = [processed EXCEPT ![p] = "FAILED"]
            /\ request' = [request EXCEPT ![p] = "none"]
            /\ UNCHANGED reader
       ELSE ReadProduct(w, p) /\ UNCHANGED <<processed, request>>
    /\ WorkerStep

(* _process_query and the persisted result, as large as the cube is now.   *)
QueryReturns(w) ==
    /\ ReadReturns(w)
    /\ processed' = [processed EXCEPT ![Product(w)] =
                        IF Reading(w, "done") THEN reader[w].cube ELSE "FAILED"]
    /\ request' = [request EXCEPT ![Product(w)] = "none"]
    /\ EndRead(w)
    /\ WorkerStep

------------------------------------------------------------------------------
(* The operator and the faults.                                            *)

Edit(what) ==
    /\ edits < MaxEdits
    /\ edits' = edits + 1
    /\ causes' = causes \cup {what}

(* A product's entry is added, removed, or given or relieved of a cache    *)
(* file.  (With another path it names other data: ChangeData.)             *)
EditCatalog(p) ==
    /\ Edit("catalog")
    /\ entry' \in {[entry EXCEPT ![p] = e] : e \in {"absent", "plain", "cached"}}
    /\ UNCHANGED <<data, pickle, api, cache, reader, request, processed, faults>>

ChangeData(p) ==
    /\ Edit("data")
    /\ data' \in {[data EXCEPT ![p] = d] : d \in Sizes \cup {"broken"}}
    /\ UNCHANGED <<entry, pickle, api, cache, reader, request, processed, faults>>

DeleteCacheFile(p) ==
    /\ Edit("cacheFile")
    /\ Writers(p) = {}
    /\ pickle' = [pickle EXCEPT ![p] = "absent"]
    /\ UNCHANGED <<entry, data, api, cache, reader, request, processed, faults>>

(* A call of the driver raises: the disk is full, a file is not to be      *)
(* opened, the cube not to be pickled.  The with statement closes a cache  *)
(* file that was being written, with a part of the pickle in it; if two    *)
(* were writing, what the other has written may have outlived it.          *)
DriverFails(x) ==
    /\ faults < MaxFaults
    /\ faults' = faults + 1
    /\ reader[x].pc \in {"load", "build", "open", "write"}
    /\ IF Reading(x, "write")
       THEN /\ pickle' \in {pickle, [pickle EXCEPT ![Product(x)] = "damaged"]}
            /\ causes' = causes \cup {"dump"}
       ELSE UNCHANGED <<pickle, causes>>
    /\ ReadRaises(x)
    /\ UNCHANGED <<entry, data, api, cache, request, processed, edits>>

(* A process is killed: the API in whatever it does, a worker in a read.   *)
Crash(x) ==
    /\ faults < MaxFaults
    /\ faults' = faults + 1
    /\ IF x = "api" THEN ApiDown ELSE ~Reading(x, "idle") /\ UNCHANGED api
    /\ causes' = IF Reading(x, "write") THEN causes \cup {"torn"} ELSE causes
    /\ EndRead(x)
    /\ UNCHANGED <<entry, data, pickle, cache, request, processed, edits>>

Next ==
    \/ ApiNext
    \/ \E p \in Products, label \in {"assert", "lookup"} : Call(p, label)
    \/ \E x \in Readers : DriverStep(x) \/ DriverFails(x) \/ Crash(x)
    \/ \E w \in Workers : QueryReturns(w) \/ \E p \in Products : Query(w, p)
    \/ \E p \in Products : EditCatalog(p) \/ ChangeData(p) \/ DeleteCacheFile(p)

Spec == Init /\ [][Next]_vars

(* Threads and processes run, Kubernetes restarts the API (restartPolicy:  *)
(* Always), a worker that holds a result reports it.  Clients, operator    *)
(* and faults promise nothing.                                             *)
Fairness ==
    /\ WF_vars(ApiNext)
    /\ \A x \in Readers : WF_vars(DriverStep(x))
    /\ \A w \in Workers : WF_vars(QueryReturns(w))

FairSpec == Spec /\ Fairness

------------------------------------------------------------------------------
(* What is at metadata_cache_path when nobody is writing it is a whole     *)
(* cube, unless a writer was killed or its dump raised, or two processes   *)
(* made the file at once (netcdf_with_ancillary.py:60-91 has no lock, no   *)
(* rename and no clean-up).                                                *)
DamageHasCause ==
    \A p \in Products :
        pickle[p] = "damaged" /\ Writers(p) = {} =>
            causes \cap {"torn", "dump", "race"} # {}

(* Once whole, a cache file stays as it is: later changes of the data do   *)
(* not reach it and no reader rewrites it; only the operator removes it,   *)
(* and only a process that found no file replaces it after that.           *)
CacheFileIsWrittenOnce ==
    [][\A p \in Products :
          pickle[p] \in Sizes /\ pickle'[p] # pickle[p] =>
              pickle'[p] = "absent" \/ "race" \in causes]_vars

(* The API estimates on what the executor will read: its cache in memory,  *)
(* loaded at the start and never refreshed (datastore.py:72-73), agrees    *)
(* with the cache file, unless the file was made twice at once or removed. *)
CacheAgreesWithFile ==
    \A p \in Products :
        cache[p] # "none" /\ pickle[p] \in Sizes /\ cache[p] # pickle[p] =>
            "race" \in causes \/ "cacheFile" \in causes

(* A request admitted as not empty and not too large comes to an empty or  *)
(* too large result only when the data has changed, and then only for a    *)
(* product read without cache file or one whose file or entry was touched. *)
ResultIsAsEstimated ==
    \A p \in Products :
        processed[p] \in {"empty", "large"} =>
            /\ "data" \in causes
            /\ entry[p] = "plain" \/ causes \cap {"race", "cacheFile", "catalog"} # {}

(* A product whose read raises whenever it is tried.                       *)
Unreadable(p) ==
    \/ pickle[p] = "damaged" /\ Writers(p) = {}
    \/ data[p] = "broken"

(* The API comes up in the end, however often it starts against a cache    *)
(* file that is being written, a read that fails or a catalog that is      *)
(* being edited, unless a product stays unreadable: _load_cache lets every *)
(* exception but ValueError end the start.                                 *)
ApiComesUp ==
    <>[](\A p \in Products : ~Unreadable(p)) =>
        []<>(api.pc \notin {"down", "loading", "loadRead"})

===============================================================================

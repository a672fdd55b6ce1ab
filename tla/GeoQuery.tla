-------------------------------- MODULE GeoQuery --------------------------------
(***************************************************************************)
(* datastore/geoquery/geoquery.py: what becomes of a query on its way from *)
(* the body of an HTTP request to the row in the database and, through the *)
(* message, to the executor.                                               *)
(*                                                                         *)
(* A JSON object is a function from names to values, with its "filters"    *)
(* member, an object itself, kept apart: [plain, filters, nested] where    *)
(* filters is "absent", "null" or "given".  A value is "null" or anything  *)
(* else; of the anything else only the format is told apart, and "split",  *)
(* a member whose JSON text, name or value, holds MESSAGE_SEPARATOR (a     *)
(* quote or a letter that JSON escapes, when the separator is "\").        *)
(***************************************************************************)
EXTENDS Naturals, Functions

(* The fields of the class that matter here.                               *)
Fields == {"area", "location", "format", "format_args"}

\* Mutant: the format of the items endpoints is not one of them.
FormatsNoGeojson == {"netcdf", "png", "jpeg", "csv", "zarr"}

(* The formats the persist functions have a case for.                      *)
Formats == {"netcdf", "geojson", "png", "jpeg", "csv", "zarr"}

Object(plain, filters, nested) ==
    [plain |-> plain, filters |-> filters, nested |-> nested]

Empty == [name \in {} |-> "null"]

(* f on the names it shares with S, and f overridden by nothing in g.      *)
On(f, S) == Restrict(f, DOMAIN f \cap S)
Join(f, g) ==
    [name \in DOMAIN f \cup DOMAIN g |-> IF name \in DOMAIN f THEN f[name] ELSE g[name]]
Get(f, name) == IF name \in DOMAIN f THEN f[name] ELSE "null"

(* area_locations_mutually_exclusive_validator raises a KeyError, which    *)
(* pydantic does not turn into a ValidationError.                          *)
ParseRaises(o) == Get(o.plain, "area") # "null" /\ Get(o.plain, "location") # "null"

\* Mutant: names that are no fields are dropped, as pydantic does by default.
ParseIgnoresExtra(o) ==
    [fields |-> [name \in Fields |-> Get(o.plain, name)],
     filters |-> IF o.filters = "null" THEN "null" ELSE "given",
     nested |-> o.nested,
     extra |-> Empty]

\* Mutant: what the body has in its filters is replaced by its other names.
ParseReplacesFilters(o) ==
    [fields |-> [name \in Fields |-> Get(o.plain, name)],
     filters |-> "given",
     nested |-> On(o.plain, DOMAIN o.plain \ Fields),
     extra |-> Empty]

(* The constructor.  Without a "filters" member build_filters makes one    *)
(* of the names that are no fields; with one, they stay attributes of the  *)
(* query (extra="allow").                                                  *)
Parse(o) ==
    LET others == On(o.plain, DOMAIN o.plain \ Fields) IN
    [fields |-> [name \in Fields |-> Get(o.plain, name)],
     filters |-> IF o.filters = "null" THEN "null" ELSE "given",
     nested |-> IF o.filters = "absent" THEN others ELSE o.nested,
     extra |-> IF o.filters = "absent" THEN Empty ELSE others]

(* query.json(), the content of the message: every field, the filters and  *)
(* the extra attributes.                                                   *)
Json(q) == Object(Join(q.fields, q.extra), q.filters, q.nested)

(* Message() splits what it receives at the separator, which async_query   *)
(* put between the parts only: with one more in the JSON there are too     *)
(* many parts, and the length assertion fails.                             *)
Splits(o) == "split" \in Range(o.plain) \cup Range(o.nested)
MessageRaises(o) == Splits(o) \/ ParseRaises(o)

(* original_query_json(), the query column of the row: the filters, the    *)
(* fields and the extra attributes in one object, given as keyword         *)
(* arguments to dict(): a name that comes twice, or filters that are None, *)
(* is a TypeError ...                                                      *)
OriginalRaises(q) ==
    \/ q.filters = "null"
    \/ DOMAIN q.nested \cap (Fields \cup DOMAIN q.extra) # {}

(* ... then the values that are None are left out.  A filter that is named *)
(* "filters" is the filters member of what is written.                     *)
OriginalJson(q) ==
    LET all == Join(q.nested, Join(q.fields, q.extra))
        some == {name \in DOMAIN all : all[name] # "null"} IN
    IF "filters" \in some
    THEN Object(On(all, some \ {"filters"}), "given", [inner |-> all["filters"]])
    ELSE Object(On(all, some), "absent", Empty)

------------------------------------------------------------------------------
(* The queries the map and items endpoints make (api/app/main.py).         *)

(* The names of the path's filters come from the product's metadata, in    *)
(* their order: more values than names are an IndexError.  (The endpoints  *)
(* know the one name of two datasets themselves and take the first value   *)
(* only.)                                                                  *)
FilterRaises(values, names) == values > names

(* map_to_geoquery: GeoQuery(...) with keyword arguments, so with a        *)
(* "filters" member exactly when there are some.                           *)
MapToGeoquery(format, bbox, filters) ==
    Parse(Object([area |-> IF bbox THEN "value" ELSE "null",
                  format |-> format, format_args |-> "value"],
                 IF filters = Empty THEN "absent" ELSE "given", filters))

===============================================================================

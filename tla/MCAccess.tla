------------------------------ MODULE MCAccess ------------------------------
(***************************************************************************)
(* Small catalogs for Access: one dataset with two products, another with  *)
(* one.                                                                    *)
(***************************************************************************)
EXTENDS Access

MCDatasets == {"era5", "iot"}
MCMaxProduct == [d \in MCDatasets |-> IF d = "era5" THEN 2 ELSE 1]

===============================================================================

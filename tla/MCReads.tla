------------------------------ MODULE MCReads ------------------------------
(***************************************************************************)
(* Instance of the paged reads (FetchAll) and of the cache that keeps some *)
(* of them (SchemaCache) for TLC.  They share no variable, and each        *)
(* property is about one of them.  So every behaviour of the one is        *)
(* covered by those in which the other stays where it began, which for a   *)
(* paged read is the start of some read of an empty table.                 *)
(***************************************************************************)
EXTENDS FetchAll, SchemaCache, TLC

CONSTANTS k1, k2, k3, k4, r1, r2

Symmetry == Permutations(Keys) \cup Permutations(Readers)

SomeRead == CHOOSE h \in Reads : TRUE

ReadsInit == FetchInit /\ CacheInit

ReadsNext ==
    \/ CacheInit /\ UNCHANGED cacheVars /\ FetchNext
    \/ rows = {} /\ how = SomeRead /\ FetchInit /\ UNCHANGED fetchVars /\ CacheNext

ReadsSpec == ReadsInit /\ [][ReadsNext]_<<fetchVars, cacheVars>>
=============================================================================

------------------------------ MODULE MCReads ------------------------------
(***************************************************************************)
(* The five modules of the read paths in one model.  They share no state,  *)
(* so a behaviour is about one of them: `part' says which, and the others  *)
(* stay as they began.                                                     *)
(***************************************************************************)
EXTENDS Rooms, ReadCaches, Listings, Cypher, SearchRanking, TLC

VARIABLE part

readsVars == <<part, roomsVars, cachesVars, listingsVars, cypherVars, searchVars>>

ReadsSymmetry == Permutations(Caller) \cup Permutations(Lookups) \cup Permutations(RankCaller)

ReadsInit ==
    /\ RoomsInit /\ CachesInit /\ ListingsInit /\ CypherInit /\ SearchInit
    /\ part \in {"rooms", "caches", "listings", "cypher", "search"}
    /\ part # "rooms" => foreign
    /\ part # "caches" => which = "kg"

ReadsNext ==
    /\ UNCHANGED part
    /\ \/ part = "rooms" /\ RoomsNext
            /\ UNCHANGED <<cachesVars, listingsVars, cypherVars, searchVars>>
       \/ part = "caches" /\ CachesNext
            /\ UNCHANGED <<roomsVars, listingsVars, cypherVars, searchVars>>
       \/ part = "listings" /\ ListingsNext
            /\ UNCHANGED <<roomsVars, cachesVars, cypherVars, searchVars>>
       \/ part = "cypher" /\ CypherNext
            /\ UNCHANGED <<roomsVars, cachesVars, listingsVars, searchVars>>
       \/ part = "search" /\ SearchNext
            /\ UNCHANGED <<roomsVars, cachesVars, listingsVars, cypherVars>>

ReadsSpec == ReadsInit /\ [][ReadsNext]_readsVars
=============================================================================

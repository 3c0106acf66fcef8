------------------------------- MODULE Fabrics -------------------------------
(***************************************************************************)
(* The fabric table and its copy in the key-value store                    *)
(* (rs-matter/src/fabric.rs and rs-matter/src/persist.rs).                 *)
(*                                                                         *)
(* A fabric is what the fail-safe and the clusters change of it: which     *)
(* fabric it is (fabric id and root certificate), its operational          *)
(* certificate as a bit that an update flips, and whether its credentials  *)
(* were made for it (ghost).                                               *)
(***************************************************************************)
EXTENDS Integers, FiniteSets, FiniteSetsExt, Functions

CONSTANTS MAX_FABRICS,  \* capacity of the table
          MAX_FAB_IDX,  \* u8::MAX - 1, the largest index ever given out
          Identities    \* fabric id and root public key of a fabric

ASSUME FabricsAssumption ==
    /\ MAX_FABRICS \in Nat \ {0} /\ MAX_FAB_IDX \in Nat
    /\ MAX_FABRICS <= MAX_FAB_IDX

VARIABLES fabrics,  \* the table, by fabric index
          stored    \* the fabrics in the key-value store, by fabric index

FabIdx == 1 .. MAX_FAB_IDX

Fabric == [identity : Identities, noc : {0, 1}, fresh : BOOLEAN]

\* The partial functions from indices to fabrics.
FabricTable == UNION {[S -> Fabric] : S \in SUBSET FabIdx}

With(f, i, fabric) == [j \in DOMAIN f \cup {i} |-> IF j = i THEN fabric ELSE f[j]]

Without(f, i) == Restrict(f, DOMAIN f \ {i})

\* Fabrics::add_with_post_init: one more than the largest index in use, or the
\* first one unused when the largest is taken.
next_fab_idx ==
    IF DOMAIN fabrics = {} THEN 1
    ELSE IF Max(DOMAIN fabrics) < MAX_FAB_IDX THEN Max(DOMAIN fabrics) + 1
    ELSE Min(FabIdx \ DOMAIN fabrics)

\* Fabrics::add succeeds.
has_room == Cardinality(DOMAIN fabrics) < MAX_FABRICS

\* Fabrics::add_load of what the store holds at an index, if anything.
add_load(f, i) == IF i \in DOMAIN stored THEN With(f, i, stored[i]) ELSE f

\* Fabrics::load_persist.
load_persist == stored
===============================================================================

--------------------------- MODULE DurableCatalog ---------------------------
(***************************************************************************)
(* What the catalog manager promises of persistence, without the files     *)
(* (catalog_manager.hpp: a committed change is stored durably and          *)
(* atomically before it is visible, so memory and disk never disagree and a*)
(* crash cannot leave a half-applied schema).                              *)
(*                                                                         *)
(* There is a stored catalog and the one the process shows.  A change is   *)
(* stored in one step and shown afterwards; the process can end at any time*)
(* and always starts again from what is stored.                            *)
(***************************************************************************)
EXTENDS Naturals

CONSTANTS
  Objects,  \* the tables and indexes a catalog can hold
  Closed    \* what a process that is not running shows

Catalog == [version : Nat, objects : SUBSET Objects]

EmptyCatalog == [version |-> 0, objects |-> {}]

VARIABLES
  stored,  \* the catalog on disk
  shown    \* the catalog the process shows

vars == <<stored, shown>>

Init == stored = EmptyCatalog /\ shown = Closed

Open == shown = Closed /\ shown' = stored /\ UNCHANGED stored

\* A change of the catalog shown, which nothing else has changed meanwhile.
Store ==
  /\ shown = stored
  /\ stored' \in Catalog
  /\ stored'.version = stored.version + 1
  /\ UNCHANGED shown

Show == shown # Closed /\ shown' = stored /\ UNCHANGED stored

Close == shown # Closed /\ shown' = Closed /\ UNCHANGED stored

Next == Open \/ Store \/ Show \/ Close

Spec == Init /\ [][Next]_vars

=============================================================================

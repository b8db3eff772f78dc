-------------------------- MODULE MCCatalogClient --------------------------
EXTENDS CatalogClient, TLC
CONSTANTS food, pets, home, base, mine, lake, red, simple

\* One category that a start with release 1 retires.
OneTemplate ==
    simple :> [groups |-> {home},
               place |-> food :> [group |-> home, visible |-> TRUE, name |-> base]]
OneRelease ==
    0 :> [vocabulary |-> {food}, templates |-> {simple}] @@
    1 :> [vocabulary |-> {}, templates |-> {simple}]
=============================================================================

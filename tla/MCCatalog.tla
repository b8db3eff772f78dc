----------------------------- MODULE MCCatalog -----------------------------
EXTENDS Catalog, TLC
CONSTANTS food, fruit, utilities, pets, home, fun, base, mine, lake, red, blue, simple, family

Place(g, v) == [group |-> g, visible |-> v, name |-> base]
MCTemplates ==
    simple :> [groups |-> {home},
               place |-> food :> Place(home, TRUE) @@ fruit :> Place(home, FALSE)
                        @@ utilities :> Place(home, FALSE)] @@
    family :> [groups |-> {home, fun},
               place |-> food :> Place(home, FALSE) @@ fruit :> Place(fun, TRUE)
                        @@ utilities :> Place(fun, FALSE)]
MCReleases ==
    0 :> [vocabulary |-> {food, fruit, utilities}, templates |-> {simple, family}] @@
    1 :> [vocabulary |-> {food}, templates |-> {simple}]
=============================================================================

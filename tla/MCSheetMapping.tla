---------------------------- MODULE MCSheetMapping ----------------------------
EXTENDS SheetMapping, TLC
CONSTANTS food, fun, trip, holiday, other, shop, envelope

MCNames == {food, fun, trip, holiday, other}
MCFirstName == food :> food @@ fun :> fun @@ trip :> trip @@ holiday :> holiday

Line(c, e, ts, sc, sg) == [category |-> c, event |-> e, tags |-> ts,
                           sheet_category |-> sc, sheet_group |-> sg]

\* A row for a trip above one for every food, with a blank row between; a row for every
\* food with a tag below; and a name only a rename of the catalog provides.
MCTabs == {
    << Line(Wild, trip, {}, Wild, envelope), Line(Wild, Wild, {}, Wild, Wild),
       Line(food, Wild, {}, shop, shop) >>,
    << Line(food, Wild, {}, Wild, shop), Line(Wild, Wild, {holiday}, shop, envelope) >>,
    << Line(other, Wild, {}, shop, Wild) >> }
=============================================================================

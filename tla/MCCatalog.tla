---- MODULE MCCatalog ----
EXTENDS Catalog, TLC

CONSTANTS h1v1, h1v2, paper, trial, venueA, x1, x2

\* Two checkouts of one line of migrations, and one with an edited second file.
File(n, c) == [name |-> n, checksum |-> c]
MCDirectories == {<<File(1, "a"), File(2, "b")>>,
                  <<File(1, "a"), File(2, "b"), File(3, "c")>>,
                  <<File(1, "a"), File(2, "edited"), File(3, "c")>>}
ASSUME OneLine

MCHypothesisOf == (h1v1 :> "h1") @@ (h1v2 :> "h1")
MCSeedOf == (h1v1 :> 1) @@ (h1v2 :> 2)
MCVenueOf == (x1 :> venueA) @@ (x2 :> "global")
====

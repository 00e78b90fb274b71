--------------------------- MODULE MCRunStorageGC ---------------------------
(* Three runs: quiet worlds of many shapes, and contended ones of a few.    *)
EXTENDS RunStorageGC

MCWeight == [k \in Kinds |-> IF k = "report" THEN 3 ELSE 1]

Dir(files, age) == [files |-> files, mtime |-> Now - age]
World(d, refd, ok, n) ==
    [disk |-> d, refs |-> [r \in Runs |-> IF r \in refd THEN "text" ELSE "none"],
     scannable |-> ok, edits |-> n]

Shapes == {Absent, Dir({}, 2), Dir({"close"}, 2), Dir({"close"}, 0),
           Dir({"close", "report"}, 2), Dir({"close", "report"}, 1),
           Dir({"close", "marker"}, 2), Dir({"running"}, 1), Dir({"report"}, 2),
           Dir({"seal"}, 2), Dir({"close", "authority"}, 2)}

Quiet == {World(d, refd, TRUE, 0) : d \in [Runs -> Shapes], refd \in {{}, {2}}}
            \cup {World([r \in Runs |-> d], {}, FALSE, 0) : d \in Shapes}

Contended == {World([r \in Runs |-> IF r = 1 THEN a ELSE IF r = 2 THEN b ELSE c], {}, TRUE, 2) :
                a \in {Dir({"close"}, 2), Dir({"close", "report"}, 2)},
                b \in {Dir({"close", "report"}, 1), Dir({"close", "marker"}, 2)},
                c \in {Dir({"close"}, 0)}}

MCWorlds == Quiet \cup Contended
=============================================================================

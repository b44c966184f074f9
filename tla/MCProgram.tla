----------------------------- MODULE MCProgram ------------------------------
(* The order of the tags in the files that scripts/gen_configs.py writes,  *)
(* and after them those it never writes; and node files: two plain ones,   *)
(* all bodies of up to three lines, bodies of four lines of complete nodes *)
(* and comments, and headers that are not as they should be.               *)
EXTENDS Program

MCLines ==
  <<"NAME", "SIZE", "DISTRIBUTION", "CLUSTERS", "DENSITY", "NODE-FILE",
    "TIME-WINDOW", "SERVICE-TIME", "DEPOT", "ROUTE-TIME", "CAPACITY", "SEED",
    "OSRM-FILE", "TYPE", "LOCATION", "LAND-FILE", "LIMITS">>

Location   == <<"0", "real", "real">>
WideSpaced == <<"0", "real", "real", "sp">>
Garbled    == <<"0", "word", "real">>
Complete(pick, dev) == <<"0", "real", "real", "1", "0", pick, dev>>
Pickup     == Complete("0", "1")
Delivery   == Complete("1", "0")
Plain      == Complete("0", "0")
Negative   == Complete("neg", "0")
Fractional == <<"0", "real", "real", "real", "0", "0", "1">>
Remark     == <<"#", "word", "word">>

Bodies ==
  LET Of(Kinds, n) == [1 .. n -> Kinds] IN
    Of({Location, WideSpaced, Garbled, Plain, Negative, Pickup, Delivery, Fractional, Remark,
        << >>}, 2)
    \cup Of({Location, Pickup, Delivery, Plain, Negative, Remark}, 3)
    \cup Of({Pickup, Delivery, Plain, Remark}, 4)

Tagged(body) == <<<<"NODES">>>> \o body \o <<<<"EOF">>>>

(* Each with and without a newline at the end.                             *)
Both(files) == files \cup {Append(f, << >>) : f \in files}

MCPlainFiles == Both({Tagged(<<Location, Location>>), Tagged(<<Pickup, Delivery>>)})

MCFiles == Both(
  {Tagged(body) : body \in Bodies}
    \cup {<<<<"NODES">>>> \o body : body \in [1 .. 2 -> {Location, Pickup, Remark}] \cup {<< >>}}
    \cup {<<first>> \o Tagged(<<Location>>) : first \in {Remark, <<"EOF">>, <<"word">>, Location}}
    \cup {<<<<"NODES", "#", "word">>, Location, <<"EOF">>>>, <<Remark>>, <<<<"EOF">>>>,
          <<<<"NODES", "word", "word">>>>, << << >> >>})
=============================================================================

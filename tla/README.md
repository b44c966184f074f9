# OVIG in TLA+

OVIG generates instances of vehicle routing problems: it picks places on a map,
asks OSRM for the travel times between them, invents requests, demands and time
windows, and writes a file. It is one thread that runs once. There are no
processes and no messages here; what is hard is different:

* algorithms that work **in place** on data they still read (the permutation of
  the matrix, the repair of the triangular inequality, the parity repair of the
  clusters, windows that push one another);
* loops without a bound that end only by a property of the data (searching a
  pickup, a depot, an unused location, an even cluster);
* steps that **rely on each other's results** without testing them (an even number
  of nodes, a triangular matrix, a pickup next to its delivery);
* a test at the end that announces "Instance is feasible", and error paths of the
  configuration reader that overwrite each other;
* a reader that goes by the **state of a stream** and guesses the format of a file
  from one of its lines.

Random choices are nondeterminism: a property that TLC checks or TLAPS proves
holds for every seed.

## 1. Inventory

| Part | Source | State it keeps | Operations | What makes it correct |
|---|---|---|---|---|
| main, read_parameters | `src/src/main.cpp` | `con`, `inst`, exit code | command line, create, write | success if and only if the output file was touched |
| Configuration reader | `src/src/configurations.cpp` | `con`, `checker_t` flags, the stream's state | one branch per tag, `has_everything` | nothing required is missing, no flawed line is accepted |
| Node file reader | the same, 23-124 | `con.nodes`, `con.full_nodes`, the stream's state | header, the guess of the format, records, comments | nodes as they are written, couples of neighbours; it ends |
| InstanceCreator | `src/src/instance_creator.cpp` | locations, matrix, `inst` | distribute, route, build | errors are passed on |
| Distributer, locations | `src/src/distributer.cpp` 81-287 | `used`, `selected` | three distributions, two depots, from a file or from limits | the size asked for, no location twice, it ends |
| Distributer, complete nodes | the same, 290-389 | `used`, `selected`, `tries` | attractor, selection, depot search | whole requests, a valid depot is found |
| Router | `src/src/router.cpp` | the matrix | table, `triangular_inequality` | zero diagonal, no entry below a real route, triangular inequality |
| Pairing | `src/src/pdptw_builder.cpp` 133-142, 239-386 | `clusters`, `sizes`, pairs, demands | random pairing, k-means, parity repair, pairing in clusters | couples, within clusters, no undefined behaviour on good input |
| Time windows and test | the same, 100-236 | `etw`, `ltw`, `stw` | random windows, windows around given centers, feasibility test | an accepted instance can be served |
| order_nodes | the same, 389-480 | `nodes`, `moves`, the matrix, saved lines | renumber, permute in place | the matrix follows the nodes |
| CVRP builder | `src/src/cvrp_builder.cpp` | demands | draw | nothing depends on the draws |
| Writing | `src/src/instance.cpp` | the file | round windows, print | rounding keeps an instance servable |
| GeoLocation | `src/src/geolocation.cpp` | | degrees to radians and back, haversine distance | what is printed is in degrees |
| GDAL check, scripts, address extractors | | | | not modelled, see 8 |

The parts call each other in a chain and share the vectors they pass on:
`main` reads the configuration, `InstanceCreator::create` gets locations (or
complete nodes) from the Distributer, hands them to the Router, and its matrix to
a builder; the PDPTW builder pairs, draws windows and demands, orders nodes and
matrix, tests, and hands all to the writer. What one part promises is the initial
condition of the next one's module:

* `Pairing`'s `ReadyToOrder` is the input of `OrderNodes`, whose module takes more: any
  demands of the two ends of a request, as a node file may give them, and no request at
  all, as SIZE 1 does;
* the zero diagonal of `TriangleRepair`'s `TypeOK` is the assumption
  `RoutedAssumption` of `OrderNodes`;
* the alternation of `NodeFile`'s `CouplesIffAlternating` is the `IsPickup` and
  `Pair` of `SelectNodes` and, with the first delivery mistyped and the demands whatever
  the file says, an input of `OrderNodes`;
* `SelectNodes`' result, with any times of the road, is the input of
  `FullTimeWindows`: `CompleteNodes` composes the two;
* `OrderNodes`' `MatrixFollowsNodes` is why a request of `TimeWindows` can carry
  its own travel times through the renumbering;
* what `TriangleRepair` does **not** promise (the triangular inequality) is what
  breaks `FullTimeWindows`; `MCRoutedWindows` composes the two.

## 2. Modules

| Module | Models | Abstraction |
|---|---|---|
| `OrderNodes` | `order_nodes`, one action per loop round | coordinates and windows of a node are its old index (`home`); any demands |
| `Renumbering` | what its caller may expect: one atomic renumbering | |
| `TriangleRepair` | `Router::route`: the table in minutes and the pass, one action per innermost round | OSRM is any table of durations, negative ones included, or an exception |
| `Pairing` | `pair_random_nodes`, `clusterize`, `demand_random_nodes` | either k-means may assign anything, or the nodes are on a meridian and it runs on them; any candidate may be closest in the repair and the pairing |
| `Matching` | what pairing promises: couples formed one by one | |
| `Feasibility` | the test of one request, rounding, and `Servable`, the definition the test is measured by | times in tenths of a minute |
| `TimeWindows` | build for locations, from the draws of windows to the file | `radd` takes a few values; whichever requests have windows |
| `FullTimeWindows` | build for complete nodes | travel times of a request are free; centers of windows from a set |
| `SelectNodes` | `select_nodes` with both kinds of depot | places on a line; nodes without service time, as the reader makes them |
| `CompleteNodes` | `create` for complete nodes: `SelectNodes`, the road, `FullTimeWindows` | the roads of a request are any whole minutes that need neither agree with the estimates nor with one another; half minutes become tenths of a minute |
| `Locations` | `select_locations`, `generate_locations` | of a location of the file which one and how far from the others, of a generated one its longitude, a plain number of degrees or radians; rejected draws are no steps |
| `NodeFile` | `read_node_file`, `count_words`, `read_keyword` | a file is lines of words, the stream stands before a word of a line; of a number only its sign and whether it has a fraction |
| `Program` | main, configuration reader, `has_everything`, dispatch, exit codes; `NODE-FILE` runs `NodeFile` | a line per tag that is sound, absent or flawed in one of the ways the code tells apart; a value that is missing swallows the next keyword, a word too many is read as one |

An action is a round of a loop or a function call, its guard the loop's condition
and the `if`s before it, and a variable has the name of the program's variable
where there is one. The comments name the lines. `X_Slip` is a plausible slip in
`X`, kept beside it to show which property notices; it is not part of any
specification.

`OrderNodesProofs`, `TriangleRepairProofs`, `TimeWindowsProofs`, `FullTimeWindowsProofs`,
`SelectNodesProofs` (which covers `CompleteNodes`, too), `LocationsProofs`,
`PairingProofs` and `ProgramProofs` (which covers `NodeFile`, too) hold theorems, the
`MC` modules the constants TLC needs.

## 3. Runs

| Run | Question | Bounds |
|---|---|---|
| `OrderNodes.cfg` | Does the in-place permutation carry the matrix with the nodes, and implement `Renumbering`? | 3 requests: all 15 pairings, all demands of {-2, 0, 2} at either end, so cycles of length 1 to 6, fixed points, requests with two pickups or none; each delivery mistyped in turn; all entries of the matrix differ |
| `TriangleRepair.cfg` | What does one pass achieve on any table? | 4 locations, durations of 61 and 481 seconds, and -60 for two pairs: 4 is the first size with detours of three legs, and no duration is whole minutes |
| `TriangleNotRepaired.cfg` | Does it establish the triangular inequality? **No** | the same |
| `Pairing.cfg` | Are requests complete couples, within clusters, when is behaviour undefined, and do k-means and the repair end? | 0 to 6 nodes, 0 to 3 clusters: three odd clusters, more clusters than nodes, odd numbers; on a meridian up to 5 nodes on 3 latitudes, where clusters run empty and their mean goes elsewhere; capacities that turn the bounds of the demand round |
| `TimeWindows.cfg` | Can what the test accepts be served, also after rounding? | 2 requests, symmetric; trips of 1 and 4 minutes in a day of 10, so that windows are clipped at both ends, fall apart and are bent by `radd` |
| `FullTimeWindows.cfg` | The same for windows around given centers | 2 requests; a day of 12 minutes, half windows of half minutes |
| `RoutedWindows.cfg` | Without the triangular inequality? **No** | one table of 5 places through the router's real loops |
| `CompleteNodes.cfg` | Are whole requests selected, is a depot found, and does the builder accept what was selected? | 3 requests on 2 places with early or late windows of one minute, so that they open at half minutes and a return may miss the end of the day by half a minute; SIZE 0, 1, 3 and 4; stops of no time or a minute; the limits 100 and 10000 on tries become 1 and 2, 2^64 becomes 8, more than the file has; four roads: the three ways in which depot, pickup and delivery lie on the 2 places, and one that is slower back and whose direct way is the longer one |
| `Locations.cfg` | No location twice, right size, within the limits, do the draws end? | files of 2, 3 and 6 locations in towns 400 to 1000 km apart, SIZE 0, 1 and 4, 0, 1 and 3 clusters, densities 0.6 and 1.2, of which the one reaches all towns and the other does not: too small files, too many clusters and towns out of reach included; limits in the middle of the map and across its border; a memory of 6 locations and 2^64 as 8 |
| `RandomDepot.cfg` | Does the random depot lie within the limits? **No** | generated locations, SIZE 4, the same limits |
| `Program.cfg` | What do exit code, messages and file say of each other, and are node files read as they are written? | every configuration with at most 2 flaws: a flaw that hides another one needs two; every node file with a body of 2 lines of 10 kinds, 3 of 6 kinds and 4 of 4 kinds, negative numbers among them, and broken headers, with and without a last newline, and empty files; 4 nodes of an endless reading, which is the only one that is cut off |
| `MissingTag.cfg` | Has everything required been read? **No** | the same |

Deadlock checking is off everywhere, as the program ends; where a loop of the code
would go on drawing in vain, the model stops, and a liveness property says when
that cannot happen.

A few properties that say more than they seem to:

* `TwoLegsRepaired` is the strongest thing true of the pass with the loops in this
  order: no entry is beaten by a detour through one location *of the table*.
* `NeverBelowShortest` measures the answer of the router, in seconds, by the shortest
  routes of what OSRM answered, also in seconds, so that the rounding to minutes is
  part of what it judges. Its reference `Shortest` is Floyd and Warshall's loops in
  the right order. That this reference is the right one is a theorem
  (`ShortestIsGreatest`) and not a matter of reading it.
* `FaultIffNoPickup`: demands that a node file brings are taken verbatim, so a request
  may have two pickups or none. With none the scan runs past the vector, or the chase
  meets a node that was not placed. With two, it depends on where the scan meets
  them: sometimes the function returns all the same, which is why only one direction
  is claimed for them. SIZE 1 leads here without any request, and `moves[1]` is no
  element. `PickupThenDelivery` says that the other end is a delivery where the input
  says so; otherwise it has the number of one.
* `NeverInVain` has three parts, one for each way in which the loops of `select_nodes`
  might not end. `OneStillFits`: while requests are missing, one that fits is unused, if
  enough of them fit. `FewTries`: the search for a depot is over at the latest with
  the try at the attractor. `AttractorIsValid` says why, and connects two
  reckonings: selecting a request (line 310 and on) and trying a depot (line 361 and
  on) compute the time back home differently; the search for a depot ends because
  the first bounds the second.
* `WholeRequests` covers SIZE 0, too: `num_points - 1` wraps around, and the
  selection is left only by running out of nodes, which is no end.
* `SelectedIsAccepted` says that the estimate of `select_nodes` is on the safe side
  of the test of the builder, although the one forgets that the vehicle waits and
  the other moves windows twice. Its provisos are the assumptions one has to make:
  no service times (they are set after the selection), a road that is no slower
  than the estimate, centers in the file that leave time for the ride. One case
  remains, and the property names it: `select_nodes` rounds the time of the return
  down to whole minutes (line 373), the builder does not. With an odd `TIME-WINDOW`
  windows start at half minutes, and a request that is back half a minute after the
  end of the day is selected and then rejected. Attempting the proof brought this
  case to light; the run's bounds now contain it.
* `NothingInVain` is as much about distances as about numbers: a clustered draw takes a
  location with a probability that is a sum of e^-(density * km) over the seeds, and a
  double rounds that to 0 beyond 745.1. Of a location that is so far from all seeds
  every draw is in vain. `Enough` therefore asks for enough locations around whichever
  location becomes a seed, and the run has a file of two towns for which one of the
  two densities is too large.
* `WithinLimits` names two exceptions: the central depot of limits across the 180th
  meridian, and the random depot, of which `RandomDepotWithinLimits` is refuted.
  A generated longitude is a plain number: whether it is within the limits follows from
  what the conversions did to it, and a depot that escaped one may be inside by chance.
* `NodesAsWritten` compares the reader, which goes from word to word, with what the
  lines of the file say: the nth record, wherever comments stand, is the nth node, and
  its kth word the kth number (`Rank`). The lines it needs as a proviso (the first
  line below `NODES` is a record, without superfluous blanks) are exactly what the
  guess of the format relies on.
* `CouplesIffAlternating`: the numbers of pickup and delivery in a file say nothing beyond
  their sign; neighbours become couples if and only if pickups and deliveries
  alternate. A negative pickup number is kept as the pair, and couples with nobody.
* `FileIffSuccess` is about whether the file was touched, whatever became of the parts
  of `create`, their aborts and hangs included. It is not about the file being
  whole: nobody asks the stream once it is open.
* `LacksOnlyAfterGap` is what `has_everything` does guarantee.
* `ChaseMovesOn` is the reason for `Terminates`: a round of the chase carries a node or
  leaves fewer rounds to the next carried one (`RoundsLeft`), so that there are at most
  `2N` of them for each node. Two such reasons are stated beside the liveness
  properties that TLC checks and are theorems only, see 6: `TwoBecomeEven` (a move of
  the parity repair makes two odd clusters even and none odd) and `ReaderMovesOn` (a read of a
  well-formed node file takes a word or a line off it).
* `Pairing`'s `TypeOK` contains `SizesCountClusters`: the repair decides by counts and
  moves nodes, and the counts stay those of the clusters.

## 4. Disagreements with the source's own words

1. `triangular_inequality` (`router.cpp:41`) does not correct "any inconsistency":
   Floyd and Warshall's loops have the intermediate location outermost.
2. `time_window_full_nodes` (`pdptw_builder.cpp:152`) moves the start of a pickup's
   window after its end was fixed, and the test does not notice a window that ends
   before it starts. It takes a matrix as in 1: a run of the program prints
   "Instance is feasible." for a window of [70, 20].
3. `generate_locations` (`distributer.cpp:274`, `278`) passes the density as the
   number of clusters; below 1 there is no seed and the draws never end. The run
   `locations` shows it by what it needs: `LocationsFound` has the proviso `Seeds > 0`,
   and `Seeds` of generated locations is the density.
4. `has_everything` (`configurations.cpp:285`) stops at the first missing tag, also
   if that one is optional. The shipped `cvrp-n100-ber.txt` is a case: it has no
   `ROUTE-TIME`, so nothing after it is checked.
5. `generate_random_depot` (`distributer.cpp:77`, `283`) hands degrees to
   `random_location_rectangle`, whose comment (line 43) says "rectangle limits are in
   radians", and converts nothing back. The depot is not drawn from within the limits,
   against `configurations.cpp:140`; for limits close to 0 it may lie there by chance.
6. `write_instance_file` (`instance.cpp:30`) never looks at the stream it writes to:
   "DONE: Instance written to file." (`main.cpp:39`) and exit code 0 also go with a
   file that was cut off. In `Program` a success may have such a file.

1, 2, 4 and 5 have a run of their own that breaks what the source says.

## 5. Fairness

One thread runs the code, so `WF_vars(Next)` says no more than that it is not
stopped; no action is fair on its own. `CompleteSpec` has the same, over the
variables of both parts. The properties `Terminates` (`OrderNodes`), `PairingEnds`
(`Pairing`), `Returns` (`SelectNodes`, `CompleteNodes`), `LocationsFound`
(`Locations`) and `ReadingEnds` (`NodeFile`, `Program`) use it. Draws that change
nothing are not steps of the model, which assumes that a generator that draws from
finitely many candidates for ever meets each of them: `mt19937_64` with `%` does.
A clustered draw rejects a candidate with a probability below 1 or, if it is too far
from all seeds, always; only the candidates of the first kind are steps
(`Takable`), so that fairness is claimed of no draw that the code can never make.
Generated locations are never too far: they go by the default density and may lie
next to a seed.

Three of them have a proviso, which says when the code does not end: too few
requests fit around the attractor (`EnoughFit`), the file has too few locations
or too few of them around a seed, or there is no seed (`Enough`), the node file is not
well formed (`WellFormed`). `OneStillFits`, `NothingInVain` and `ReaderMovesOn`
are the safety behind these three, under the same provisos: no draw is in vain, no
read stands still. That k-means ends is claimed for nodes on a meridian and exact
averages: elsewhere an average of latitudes and longitudes is not what minimises
the distances, and doubles round.

## 6. Proofs

TLAPS proves, for all values of the constants:

* **`order_nodes`** (any number of requests, none included, any pairing, any demands of
  both ends, any matrix with a zero diagonal): `TypeCorrect`, `MatrixCorrect`, `OrderCorrect`,
  `FaultCharacterised`, `ChaseCorrect`, `Refinement`. The invariant is
  `TypeOK /\ PlaceInv /\ ChaseInv /\ FaultIffNoPickup /\ MatrixFollowsNodes`.
  `MatrixFollowsNodes` speaks of the end only; the placement must be known to be a
  bijection whose inverse is `moves` (`PlaceInv`), which needs that an injection
  of a finite set into itself is onto. A request with two pickups may be placed twice,
  and then `moves` is no inverse; but a node is then left without a move
  (`MovesCounted`: fewer moves than numbers), and the chase does not begin. The chase
  must be described halfway (`ChaseInv`), where the count of carried nodes says that the loop ends with every
  node carried. `ChaseCorrect` is the argument for its end: as long as the count is
  short, a node other than the one in hand waits to be carried, and a round that
  carries nothing leaves it there while `old` gets closer to it (`ChaseStep`).
  `AbstractInit` and `AbstractNext` map every step to a step of
  `Renumbering` or a stutter.
* **The router** (any number of locations, any integers for durations):
  `TypeCorrect` (with the zero diagonal), `TwoLegsCorrect`, `NoShortcutInvented`,
  `ShortestIsGreatest`, `NeverBelowCorrect`, `ConsistentUntouched`. The invariant says that the matrix is
  below the table and that the detours of the rounds that are over have been taken.
  `NoShortcutInvented`: every matrix below the table that satisfies the triangular
  inequality stays below the result. `Shortest` is such a matrix, and the greatest
  one: by the time the loops of the definition have gone through the locations up to
  `k`, no detour through any of them is shorter (`RoundsExist`, `ShortestRounds`).
  The two, applied to the table in seconds, and a rounding that goes up give
  `NeverBelowCorrect`. With the table itself for the matrix
  without shortcuts, `ConsistentUntouched` follows: a table without inconsistencies
  is returned as it is, and then the proviso of `FullTimeWindows` holds.
* **The test of a request** (any times): `CheckComplete`, `CheckSound`,
  `FloorKeepsServable`. The test is complete; it is sound if no window ends before
  it starts; rounding down is harmless as travel and service times are whole.
* **Windows for locations** (any number of requests): `TypeCorrect`,
  `TimedFitsCorrect`, `AcceptedCorrect`, `WrittenCorrect` and, of the two together,
  `ServableCorrect`. The windows drawn may be
  bad, so `CheckSound` does not apply to all; the invariant `Bent` says that a bad
  delivery window was cut where the way home starts, and then the test of the way
  home fails. `TimedFitsCorrect` needs an invariant of its own (`DrawnInvariance`):
  the center of a pickup's window leaves time for the ride and the way home, and the
  delivery's window opens when a vehicle that leaves the pickup at its opening, or
  at its closing, arrives; so both stops are reached in time and, unless `radd` moved
  the window, home is, too (`DrawnFits`).
* **Windows for complete nodes** (any number of requests, travel times, centers):
  `TypeCorrect`, `OpensCorrect`, `AcceptedCorrect`. The visit of a
  delivery raises the start of its pickup's window by some `x` after the end of
  that window was computed, and nothing bounds `x` when that happens. But then the
  delivery's window opens exactly when the vehicle can be there by the direct way
  (`Visited`), and the test of the way to the delivery, with the triangular
  inequality, leaves `x` no more than the width of a window. `AcceptedCorrect`
  covers the written file, too.
* **`select_nodes`** (a file of any number of requests anywhere on the line, any
  windows, SIZE 0 included): `TypeCorrect`, `WholeCorrect`, and `AttractorCorrect`,
  `TriesCorrect`, `DrawsCorrect` for the parts of `SearchCorrect`. A
  request that fits was reckoned to be back at the attractor no earlier than the
  trial of a depot there reckons (`AttractorServes`, the two formulas compared
  term by term, windows first). Of the search it must be known that the attractor's
  node is free until it is tried and the last one that is tried, so that the depot
  meets no selected node, and of the selection that each request takes two of the
  `2 * Requests` nodes and none of the attractor's, so that SIZE 0 never gets through
  (`NotLonger`, a counting argument). `DrawsCorrect` needs one invariant more, that a
  fitting request is used only by being selected (`FittingSelected`): while the
  selection is short, fewer are used than fit (`OneIsLeft`).
* **From the selection to the test** (`CompleteSpec`: the same, and any times of the
  road, each request's its own): `CompleteInvariance`, `CompleteSelection`,
  `CompleteSearch`, `SelectedCorrect`. `CompleteInv` joins the selection's
  invariant with what is known of each request while the builder visits the nodes:
  behind the current one, a request that keeps to the estimates has the windows
  that the visit of its pickup gave it, as the delivery's window opens no earlier
  than the vehicle can be there (`NotMovedAgain`); ahead of it, the centers of the
  file. A request that is rejected nevertheless is back too late by the reckoning
  of `select_nodes`, too (`RejectedIsLate`), and the depot was tested with that but
  for the rounding.
* **Locations** (any files, distances, density, SIZE, clusters, limits and unit of
  angles): `TypeCorrect`, `NoneTwice`, `WithinCorrect`, `SizeCorrect`, `DrawsCorrect`. The central depot goes by the marks
  alone, so marks and vector must be known to agree, also in number: where the
  answer is a used location, all others are used and the file is too small. The
  lengths of the two stages add up as a share is no more than the whole
  (`SharesFit`), and what SIZE 0 asks for is more than there is memory. `DrawsCorrect`
  is `NothingInVain`: what is drawn before the end of each stage is less than SIZE and the
  seeds (`DrawnSoFar`), and as many locations are marked, so that one is unused
  (`OneUnused`), and one near the first seed while the clusters are drawn
  (`OneInReach`). `WithinCorrect` follows the longitude through the conversions
  (`Degrees`, `Radians`) and around the border (`WrappedWithin`).
* **Pairing** (any number of nodes and clusters, any assignment by k-means):
  `TypeCorrect`, `CouplesCorrect`, `WithinCorrect`, `FaultCorrect`, `RepairCorrect`,
  `Refinement`. A node that moves changes two counts by one (`OneMoves`); behind the current
  cluster everybody has a partner, who has the other type and is in the same
  cluster (`CoupledAt`); each step forms one couple of two single nodes or none, as
  `Matching` does. `FaultCorrect` rests on parity: the clusters with odd counts are as
  many, modulo 2, as the nodes (`Parity`), so the repair, which starts with an odd
  cluster and an even number of nodes, finds another one behind it.
  `RepairCorrect` is `TwoBecomeEven`: donor and receiver are both odd, and their counts
  change by one, all others not at all (`RepairStep`).
* **The program** (any configuration, any number of flaws in any order, lines swallowed
  by the one above included, any node file): `TypeCorrect`, `FileIffSuccessCorrect`,
  `ComplaintsStopCorrect`,
  `LacksOnlyAfterGapCorrect`, `CouplesCorrect`, `WrittenCorrect`, `ReaderCorrect`. The
  invariant says which complaints a
  running program may carry with it (`Quiet`), that the file is touched last
  (`Unwritten`) and what having passed `has_everything` says of the tags read
  (`Passed`). That check is a chain of 14 alternatives (`ChainFacts`); what passes
  has no gap or a first one that is optional (`FirstGap`), and what may lie behind
  is read off the chain. `CouplesCorrect` needs what the reader has made of the
  nodes so far: the partner of a pickup is the next one, of a delivery the one
  before, of the mistyped delivery the node 0, and of a node with a negative number
  nobody (`Formed`). `WrittenCorrect` needs
  to know what the stream's next word is: the first one that is no superfluous blank, in
  the first line from here on that has any (`NextWordIs`). `WrittenInv` then says, at
  every stop of the reader, how many lines are behind it, that the records among
  them are the nodes so far, and that the words of a record before the stream are the
  numbers so far; that the next word of a line has the next rank (`RankNext`,
  `RankStays`) is counting members of finite sets. The guess of the format is right
  as the line below `NODES` is a record. `ReaderCorrect` is `ReaderMovesOn` and follows
  from the same invariant: the word that a read takes is ahead of the stream
  (`NextIsAhead`), and in a well-formed file no read fails (`NoReadFails`).

Some of these are inductions over data (the counts of the clusters, the loops of
Floyd and Warshall). The library's induction theorems are out of reach, as they take
an operator as a parameter; the proofs take the least counterexample instead:
a set of natural numbers has a least element (`LeastNat`, from the library's theorem
that `<` on `Nat` is well-founded), and a least number for which a statement fails is
refuted by its predecessor.

They rest on the named assumptions about constants (`RequestsAssumption`,
`LoadsAssumption`, `RoutedAssumption`, `SizeAssumption`, `SecondsAssumption`,
`HorizonAssumption`, `TimesAssumption`, `SelectAssumption`, `MinutesAssumption`,
`LocationsAssumption`, `LinesAssumption`, `FilesAssumption`, and `BoundsAssumption`,
`PlacesAssumption` and the `LoadsAssumption` of `Pairing`), which the code justifies and
TLC evaluates.

`PlaceInv` and `ChaseInv`, the parts of an inductive invariant that say nothing by
themselves, are in `OrderNodes` and not properties of a run: `TypeOK` and
`MatrixFollowsNodes` are.

## 7. What is only model-checked

* Liveness (`Terminates`, `PairingEnds`, `Returns`, `LocationsFound`, `ReadingEnds`):
  fairness is outside TLAPS. What the code contributes to it is proved as safety, in
  `ChaseCorrect`, `RepairCorrect`, `SearchCorrect`, `DrawsCorrect` and
  `ReaderCorrect`; the step from a measure that falls, or a draw that can succeed, to
  an end that is reached is not. For k-means there is no such theorem: that its
  assignments do not come back is part of `PairingEnds`, on a meridian, and of
  nothing else.
* The refuted properties of section 4, each by a run that breaks it.

Every other property of a passing run is a theorem.

## 8. Not modelled

* The haversine distance of `geolocation.cpp`: floating-point trigonometry without
  state. The conversions of units are operators of `Locations`. Rounding of doubles
  is not modelled anywhere: times are whole tenths of a minute, coordinates whole steps.
* The probability with which a location is close enough to a cluster (`exp` of a
  distance against a random number): what is modelled is whether it is 0.
* The latitude of a generated location (`asin` of a number between two sines): of the
  unit square of `random_location_rectangle` only the longitude, the one that wraps.
* The value of a `double` that was never read (`DENSITY` missing): `LacksOnlyAfterGap` says
  that such a configuration passes, and `Locations` takes any density, but the two
  are not joined.
* OSRM: external; any table or an exception.
* GDAL's land areas: compiled out in `common.hpp`.
* The layout of the output file, messages, verbosity, `holds_triangular` and
  `is_assymmetric` (diagnostics that change nothing).
* Of the configuration reader: a tag that is not known (an error like that of a
  checked value), `COMMENT` lines (skipped), a `LIMITS` with fewer than four words whose
  next tags start with N, S, E or W and are taken for limits, a second `NODE-FILE` (its nodes would be
  appended to those of the first).
* `preproc.sh`, the extractors under `addresses/`: pure I/O. The two generator
  scripts: batch runs of the program over files whose shape `MCProgram` has. The
  balanced sampling of `gen_configs.py` has no counterpart in the program.

What hazards remain beyond the properties named with them is said in the notes of
`PROJECT.json`.

## 9. Running

    tlc -workers 2 -config OrderNodes.cfg MCOrderNodes.tla
    tlapm OrderNodesProofs.tla

and in the same way for the pairs of module and configuration in `PROJECT.json`.
The longest run takes about two minutes.

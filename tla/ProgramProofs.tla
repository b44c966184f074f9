--------------------------- MODULE ProgramProofs ----------------------------
(***************************************************************************)
(* The run of the program, for any order of the lines of a configuration,  *)
(* any number of flaws and any node files.  What the run has read so far,  *)
(* where it stands and what it has complained about determine how it may   *)
(* end; the argument about the chain of has_everything is separate, as it  *)
(* is about one state only.                                                *)
(***************************************************************************)
EXTENDS Program, FiniteSetTheorems, SequenceTheorems, WellFoundedInduction, TLAPS

(* A set of natural numbers has a least element, which Min chooses.        *)
LEMMA LeastNat ==
  ASSUME NEW S, S \subseteq Nat, S # {}
  PROVE  \E m \in S : \A n \in S : m <= n
<1>. DEFINE R == OpToRel(<, Nat)
<1>1. IsWellFoundedOn(R, Nat)
  BY NatLessThanWellFounded
<1>. HIDE DEF R
<1>2. PICK m \in S : \A n \in S : <<n, m>> \notin R
  BY <1>1, WFMin, Zenon
<1>3. \A n \in S : m <= n
  <2>1. \A n, k \in Nat : n < k => <<n, k>> \in R
    BY DEF R, OpToRel
  <2>. TAKE n \in S
  <2>2. n \in Nat /\ m \in Nat
    OBVIOUS
  <2>3. ~(n < m)
    BY <2>1, <2>2, <1>2, Zenon
  <2>. QED  BY <2>2, <2>3
<1>. QED  BY <1>3

(* The least element is in the set and below the others.                   *)
LEMMA MinFacts ==
  ASSUME NEW S, S \subseteq Nat, S # {}
  PROVE  Min(S) \in S /\ \A n \in S : Min(S) <= n
BY LeastNat DEF Min

-----------------------------------------------------------------------------
(* The alternatives of has_everything, written out.                        *)
LEMMA ChainFacts ==
  /\ DOMAIN Chain = 1 .. 14
  /\ Chain[1].missing = Lacks("NAME") /\ Chain[1].required
  /\ Chain[2].missing = Lacks("TYPE") /\ Chain[2].required
  /\ Chain[3].missing = Lacks("SIZE") /\ Chain[3].required
  /\ Chain[4].missing = Lacks("DISTRIBUTION") /\ Chain[4].required
  /\ Chain[5].missing = (dist = "cluster" /\ Lacks("CLUSTERS")) /\ Chain[5].required
  /\ Chain[6].missing = (dist = "cluster" /\ Lacks("DENSITY"))
  /\ Chain[7].missing = Lacks("ROUTE-TIME") /\ Chain[7].required = (type # "CVRP")
  /\ Chain[8].missing = Lacks("CAPACITY") /\ Chain[8].required
  /\ Chain[9].missing = Lacks("DEPOT") /\ Chain[9].required
  /\ Chain[10].missing = Lacks("TIME-WINDOW") /\ Chain[10].required = (type # "CVRP")
  /\ Chain[11].missing = Lacks("SERVICE-TIME") /\ Chain[11].required = (type # "CVRP")
  /\ Chain[12].missing = Lacks("OSRM-FILE") /\ Chain[12].required
  /\ Chain[13].missing = (Lacks("NODE-FILE") /\ Lacks("LAND-FILE"))
  /\ Chain[14].missing = (Lacks("NODE-FILE") /\ Lacks("LIMITS")) /\ Chain[14].required
BY DEF Chain

(* What passes: nothing is missing, or what is missing first is optional.  *)
LEMMA FirstGap ==
  ASSUME HasEverything
  PROVE  \/ \A x \in 1 .. 14 : ~Chain[x].missing
         \/ \E m \in {6, 7, 10, 11, 13} :
              /\ Chain[m].missing /\ ~Chain[m].required
              /\ \A x \in 1 .. m - 1 : ~Chain[x].missing
<1>1. Applying = {x \in 1 .. 14 : Chain[x].missing}
  BY ChainFacts DEF Applying
<1>2. CASE Applying = {}
  BY <1>1, <1>2
<1>3. CASE Applying # {}
  <2>. DEFINE m == Min(Applying)
  <2>1. Applying \subseteq Nat
    BY <1>1
  <2>2. m \in Applying /\ \A x \in Applying : m <= x
    BY <2>1, <1>3, MinFacts
  <2>3. ~Chain[m].required
    BY <1>3 DEF HasEverything
  <2>. HIDE DEF m
  <2>4. m \in 1 .. 14 /\ Chain[m].missing
    BY <1>1, <2>2
  <2>5. \A x \in 1 .. m - 1 : ~Chain[x].missing
    <3>. SUFFICES ASSUME NEW x \in 1 .. m - 1 PROVE x \notin Applying
      BY <1>1, <2>4
    <3>1. ~(m <= x)
      BY <2>4
    <3>. QED  BY <2>2, <3>1
  <2>6. m \in {6, 7, 10, 11, 13}
    <3>1. m \notin {1, 2, 3, 4, 5, 8, 9, 12, 14}
      BY <2>3, ChainFacts
    <3>. QED  BY <2>4, <3>1
  <2>. QED  BY <2>3, <2>4, <2>5, <2>6
<1>. QED  BY <1>2, <1>3

(* The type and the distribution come before everything optional.          *)
LEMMA PassesKnown ==
  ASSUME HasEverything
  PROVE  {"NAME", "TYPE", "SIZE", "DISTRIBUTION"} \subseteq seen
         /\ (dist = "cluster" => "CLUSTERS" \in seen)
<1>1. \A x \in 1 .. 5 : ~Chain[x].missing
  <2>1. CASE \A x \in 1 .. 14 : ~Chain[x].missing
    BY <2>1
  <2>2. CASE \E m \in {6, 7, 10, 11, 13} : \A x \in 1 .. m - 1 : ~Chain[x].missing
    BY <2>2
  <2>. QED  BY <2>1, <2>2, FirstGap
<1>2. /\ ~Chain[1].missing /\ ~Chain[2].missing /\ ~Chain[3].missing
      /\ ~Chain[4].missing /\ ~Chain[5].missing
  BY <1>1
<1>. QED  BY <1>2, ChainFacts DEF Lacks

(* What is missing behind the first gap, for each gap there can be.        *)
LEMMA PassesGap ==
  ASSUME HasEverything, type \in {"PDPTW", "CVRP"},
         "NODE-FILE" \in seen => full # 0
  PROVE  LET lacking == RequiredFor(Kind) \ seen IN
         lacking # {} =>
           \/ dist = "cluster" /\ Lacks("DENSITY")
           \/ type = "CVRP" /\ \E t \in {"ROUTE-TIME", "TIME-WINDOW", "SERVICE-TIME"} : Lacks(t)
           \/ lacking = {"LIMITS"} /\ Lacks("LAND-FILE")
<1>. DEFINE lacking == RequiredFor(Kind) \ seen
<1>1. {"NAME", "TYPE", "SIZE", "DISTRIBUTION"} \subseteq seen
      /\ (dist = "cluster" => "CLUSTERS" \in seen)
  BY PassesKnown
<1>2. CASE \A x \in 1 .. 14 : ~Chain[x].missing
  <2>1. /\ ~Chain[7].missing /\ ~Chain[8].missing /\ ~Chain[9].missing /\ ~Chain[10].missing
        /\ ~Chain[11].missing /\ ~Chain[12].missing /\ ~Chain[14].missing
    BY <1>2
  <2>2. {"ROUTE-TIME", "CAPACITY", "DEPOT", "TIME-WINDOW", "SERVICE-TIME", "OSRM-FILE"} \subseteq seen
        /\ ("NODE-FILE" \in seen \/ "LIMITS" \in seen)
    BY <2>1, ChainFacts DEF Lacks
  <2>3. lacking = {}
    BY <1>1, <2>2 DEF RequiredFor
  <2>. QED  BY <2>3
<1>3. CASE Chain[6].missing
  BY <1>3, ChainFacts
<1>4. CASE \E m \in {7, 10, 11} : Chain[m].missing /\ ~Chain[m].required
  BY <1>4, ChainFacts
<1>5. CASE Chain[13].missing /\ \A x \in 1 .. 12 : ~Chain[x].missing
  <2>1. /\ ~Chain[7].missing /\ ~Chain[8].missing /\ ~Chain[9].missing /\ ~Chain[10].missing
        /\ ~Chain[11].missing /\ ~Chain[12].missing
    BY <1>5
  <2>2. {"ROUTE-TIME", "CAPACITY", "DEPOT", "TIME-WINDOW", "SERVICE-TIME", "OSRM-FILE"} \subseteq seen
    BY <2>1, ChainFacts DEF Lacks
  <2>3. lacking \subseteq {"LIMITS"}
    BY <1>1, <2>2 DEF RequiredFor
  <2>4. Lacks("LAND-FILE")
    BY <1>5, ChainFacts
  <2>. HIDE DEF lacking
  <2>5. lacking # {} => lacking = {"LIMITS"}
    BY <2>3
  <2>. QED  BY <2>4, <2>5 DEF lacking
<1>. QED
  <2>1. ASSUME NEW m \in {6, 7, 10, 11, 13}, Chain[m].missing, ~Chain[m].required,
               \A x \in 1 .. m - 1 : ~Chain[x].missing
        PROVE  \/ Chain[6].missing
               \/ \E n \in {7, 10, 11} : Chain[n].missing /\ ~Chain[n].required
               \/ Chain[13].missing /\ \A x \in 1 .. 12 : ~Chain[x].missing
    BY <2>1
  <2>. QED  BY <2>1, <1>2, <1>3, <1>4, <1>5, FirstGap

-----------------------------------------------------------------------------
(***************************************************************************)
(* The invariant.  A run that goes on has known what it read: no type      *)
(* without TYPE, no format without the node file; it has complained only   *)
(* about separators of checked values, and the file is written last.       *)
(***************************************************************************)
Types == {"PDPTW", "CVRP"}
Dists == {"cluster", "random"}
Decided == {"records", "fields", "ok"}

Typed ==
  /\ pc \in {"args", "read", "nodes", "check", "create", "route", "build", "write", "end"}
  /\ status \in {"running", "success", "failure", "abort", "hang"}
  /\ pc = "end" <=> status # "running"
  /\ line \in 1 .. Len(Lines) + 1
  /\ seen \subseteq Tag /\ ahead \in {"tag", "taken", "stray"}
  /\ pc = "nodes" <=> phase # "closed"
  /\ file \in {"none", "PDPTW", "CVRP", "cut off"} /\ built \in {"nothing", "PDPTW", "CVRP"}
  /\ full \in 0 .. 2

Known ==
  pc # "end" =>
    /\ "TYPE" \in seen => type \in Types
    /\ "DISTRIBUTION" \in seen => dist \in Dists
    /\ pc \in {"args", "read", "check", "create"} /\ "NODE-FILE" \in seen => full # 0
    /\ phase \in Decided => full # 0

Passed == pc \in {"create", "route", "build", "write"} => HasEverything

Unwritten ==
  /\ pc # "end" => file = "none"
  /\ pc \notin {"args", "end"} => args = "run"
  /\ FileIffSuccess

Quiet == pc # "end" \/ file # "none" => complaints \subseteq Checked \X {"nosep"}

IndInv == Typed /\ Known /\ Passed /\ Unwritten /\ Quiet

(* Nothing has been read, nothing is written.                              *)
LEMMA InitInv == Init => IndInv
<1>. SUFFICES ASSUME Init PROVE IndInv
  OBVIOUS
<1>1. 1 \in 1 .. Len(Lines) + 1
  BY LinesAssumption, LenProperties
<1>2. Typed
  <2>1. line \in 1 .. Len(Lines) + 1 /\ full \in 0 .. 2
    <3>1. line = 1 /\ full = 0
      BY DEF Init
    <3>. QED  BY <3>1, <1>1
  <2>2. /\ pc = "args" /\ status = "running" /\ seen = {} /\ ahead = "tag" /\ phase = "closed"
        /\ file = "none" /\ built = "nothing"
    BY DEF Init
  <2>. QED  BY <2>1, <2>2 DEF Typed
<1>3. Known
  BY DEF Init, Known, Decided
<1>4. Passed
  BY DEF Init, Passed
<1>5. Unwritten
  BY DEF Init, Unwritten, FileIffSuccess
<1>6. Quiet
  BY DEF Init, Quiet
<1>. QED  BY <1>2, <1>3, <1>4, <1>5, <1>6 DEF IndInv

(* has_everything looks at the type, the distribution and the tags.        *)
LEMMA HasEverythingStays ==
  ASSUME UNCHANGED <<type, dist, seen>>
  PROVE  HasEverything' <=> HasEverything
BY DEF HasEverything, Applying, Chain, Lacks

(* The configuration is read.                                              *)
LEMMA ReadParametersInv == IndInv /\ ReadParameters => IndInv'
<1>. SUFFICES ASSUME IndInv, ReadParameters PROVE IndInv'
  OBVIOUS
<1>. USE DEF IndInv, ReadParameters, End, conf, known, inst, reader
<1>1. Typed'
  BY DEF Typed
<1>2. Known'
  BY DEF Known
<1>3. Passed'
  BY DEF Passed
<1>4. Unwritten'
  BY DEF Unwritten, FileIffSuccess
<1>5. Quiet'
  BY DEF Quiet
<1>. QED  BY <1>1, <1>2, <1>3, <1>4, <1>5

(* A line sets its own tag with its field, or ends the run.                *)
LEMMA ReadLineInv == IndInv /\ ReadLine => IndInv'
<1>. SUFFICES ASSUME IndInv, ReadLine PROVE IndInv'
  OBVIOUS
<1>. DEFINE t == Lines[line]
<1>1. PICK c \in Content(t) :
        LET opened == t = "NODE-FILE" /\ c \in {"ok", "nosep"} IN
        /\ line' = line + 1
        /\ IF c \in {"absent", "short"} \/ (c = "bad" /\ t \in Checked)
           THEN UNCHANGED known ELSE Fields(t)
        /\ seen' = IF c = "absent" THEN seen ELSE seen \cup {t}
        /\ complaints' = IF c = "nosep" \/ (c = "bad" /\ t \in Checked)
                         THEN complaints \cup {<<t, c>>} ELSE complaints
        /\ IF ReadError(t, c) THEN End("failure")
           ELSE IF c = "short" THEN End("abort")
           ELSE pc' = (IF opened THEN "nodes" ELSE pc) /\ UNCHANGED status
        /\ IF opened THEN \E f \in (IF flaws' = 0 THEN Files ELSE PlainFiles) : N!Open(f)
                     ELSE UNCHANGED reader
  BY DEF ReadLine
<1>15. ahead' \in {"tag", "taken", "stray"}
  <2>1. \E c0 \in Content(t) :
          ahead' = CASE c0 = "empty" -> "taken" [] c0 = "more" -> "stray" [] OTHER -> "tag"
    BY DEF ReadLine
  <2>. QED  BY <2>1
<1>2. /\ pc = "read" /\ line <= Len(Lines)
      /\ UNCHANGED <<args, full, pool, built, file>>
  BY DEF ReadLine, inst
<1>3. line \in 1 .. Len(Lines) /\ Len(Lines) \in Nat /\ t \in Tag
  <2>1. Len(Lines) \in Nat /\ DOMAIN Lines = 1 .. Len(Lines)
    BY LinesAssumption, LenProperties
  <2>2. line \in 1 .. Len(Lines)
    <3>1. line \in 1 .. Len(Lines) + 1
      BY DEF IndInv, Typed
    <3>2. line <= Len(Lines)
      BY <1>2
    <3>. QED  BY <3>1, <3>2, <2>1
  <2>. QED  BY <2>1, <2>2, LinesAssumption
<1>. HIDE DEF t
<1>. DEFINE opened == t = "NODE-FILE" /\ c \in {"ok", "nosep"}
<1>4. status = "running" /\ file = "none" /\ args = "run" /\ phase = "closed"
      /\ complaints \subseteq Checked \X {"nosep"}
  BY <1>2 DEF IndInv, Typed, Unwritten, Quiet
<1>5. opened => phase' = "header"
  BY <1>1 DEF N!Open
<1>6. ~opened => phase' = phase
  BY <1>1 DEF reader
<1>7. c \in {"ok", "absent", "nosep", "empty", "bad", "short", "more"}
      /\ (c = "short" => t = "LIMITS") /\ (c = "bad" => t \notin Words)
      /\ (c = "empty" => t \in Words) /\ (c = "more" => t # "NODE-FILE")
  BY DEF Content
<1>8. \/ pc' = "end" /\ status' \in {"failure", "abort"}
      \/ ~ReadError(t, c) /\ c # "short" /\ status' = "running"
         /\ pc' = IF opened THEN "nodes" ELSE "read"
  BY <1>1, <1>2, <1>4 DEF End
<1>9. opened => ~ReadError(t, c)
  BY DEF ReadError, Checked
<1>10. Typed'
  <2>1. line' \in 1 .. Len(Lines) + 1
    BY <1>1, <1>3
  <2>2. seen' \subseteq Tag
    BY <1>1, <1>3 DEF IndInv, Typed
  <2>3. pc' \in {"read", "nodes", "end"} /\ status' \in {"running", "failure", "abort"}
        /\ (pc' = "end" <=> status' # "running")
    BY <1>8
  <2>4. pc' = "nodes" <=> phase' # "closed"
    <3>1. CASE opened
      <4>1. pc' = "nodes"
        BY <3>1, <1>1, <1>9
      <4>. QED  BY <4>1, <3>1, <1>5
    <3>2. CASE ~opened
      BY <3>2, <1>4, <1>6, <1>8
    <3>. QED  BY <3>1, <3>2
  <2>. QED  BY <2>1, <2>2, <2>3, <2>4, <1>2, <1>15 DEF IndInv, Typed
<1>11. ASSUME pc' # "end" PROVE complaints' \subseteq Checked \X {"nosep"}
  <2>1. ~ReadError(t, c)
    BY <1>8, <1>11
  <2>. QED  BY <2>1, <1>1, <1>4 DEF ReadError
<1>12. Known'
  <2>. SUFFICES ASSUME pc' # "end" PROVE Known'
    BY DEF Known
  <2>1. ~ReadError(t, c) /\ c # "short" /\ pc' = IF opened THEN "nodes" ELSE "read"
    BY <1>8
  <2>2. ~(c = "bad" /\ t \in Checked)
    BY <2>1 DEF ReadError
  <2>3. /\ "TYPE" \in seen => type \in Types
        /\ "DISTRIBUTION" \in seen => dist \in Dists
        /\ "NODE-FILE" \in seen => full # 0
    BY <1>2 DEF IndInv, Known
  <2>4. CASE c = "absent"
    <3>1. UNCHANGED <<type, dist, seen>>
      BY <2>4, <1>1 DEF known
    <3>2. ~opened
      BY <2>4
    <3>. QED  BY <3>1, <3>2, <2>3, <1>2, <1>4, <1>6 DEF Known, Decided
  <2>5. CASE c # "absent"
    <3>1. Fields(t) /\ seen' = seen \cup {t}
      BY <2>1, <2>2, <2>5, <1>1
    <3>2. "TYPE" \in seen' => type' \in Types
      BY <3>1, <2>3 DEF Fields, Types
    <3>3. "DISTRIBUTION" \in seen' => dist' \in Dists
      BY <3>1, <2>3 DEF Fields, Dists
    <3>4. pc' \in {"args", "read", "check", "create"} /\ "NODE-FILE" \in seen' => full' # 0
      <4>. SUFFICES ASSUME pc' = "read", "NODE-FILE" \in seen', t = "NODE-FILE" PROVE FALSE
        BY <3>1, <2>1, <2>3, <1>2
      <4>1. c \in {"ok", "nosep"}
        BY <1>7, <2>1, <2>2, <2>5 DEF Checked, Words
      <4>. QED  BY <4>1, <2>1
    <3>5. phase' \notin Decided
      BY <1>4, <1>5, <1>6 DEF Decided
    <3>. QED  BY <3>2, <3>3, <3>4, <3>5 DEF Known
  <2>. QED  BY <2>4, <2>5
<1>13. Passed' /\ Unwritten' /\ Quiet'
  <2>1. pc' \in {"read", "nodes", "end"} /\ status' # "success" /\ file' = "none" /\ args' = "run"
    BY <1>2, <1>4, <1>8
  <2>2. Passed'
    BY <2>1 DEF Passed
  <2>3. Unwritten'
    BY <2>1 DEF Unwritten, FileIffSuccess
  <2>4. Quiet'
    BY <2>1, <1>11 DEF Quiet
  <2>. QED  BY <2>2, <2>3, <2>4
<1>. QED  BY <1>10, <1>12, <1>13 DEF IndInv

(* The format is decided before the first record is read.                  *)
LEMMA ReadNodeFileInv == IndInv /\ ReadNodeFile => IndInv'
<1>. SUFFICES ASSUME IndInv, ReadNodeFile PROVE IndInv'
  OBVIOUS
<1>1. pc = "nodes" /\ N!Next
      /\ UNCHANGED <<pc, args, line, ahead, seen, type, dist, complaints, built, file, status>>
  BY DEF ReadNodeFile, conf, known, inst
<1>2. phase' # "closed" /\ full' \in 0 .. 2 /\ (phase' \in Decided => full' # 0)
  <2>1. phase # "closed" /\ full \in 0 .. 2 /\ (phase \in Decided => full # 0)
    BY <1>1 DEF IndInv, Typed, Known
  <2>2. CASE N!ReadHeader
    BY <2>1, <2>2 DEF N!ReadHeader, Decided
  <2>3. CASE N!DecideFormat
    BY <2>1, <2>3 DEF N!DecideFormat, N!Format, Decided
  <2>4. CASE N!ReadRecord
    <3>1. phase = "records" /\ full' = full
      BY <2>4 DEF N!ReadRecord
    <3>2. phase' \in {"ok", "error", "records", "fields"}
      BY <2>4 DEF N!ReadRecord
    <3>. QED  BY <3>1, <3>2, <2>1 DEF Decided
  <2>5. CASE N!ReadNumber
    BY <2>1, <2>5 DEF N!ReadNumber, Decided
  <2>6. CASE N!AppendNode
    BY <2>1, <2>6 DEF N!AppendNode, Decided
  <2>. QED  BY <1>1, <2>2, <2>3, <2>4, <2>5, <2>6 DEF N!Next
<1>3. Typed'
  BY <1>1, <1>2 DEF IndInv, Typed
<1>4. Known'
  BY <1>1, <1>2 DEF IndInv, Known
<1>5. Passed' /\ Unwritten' /\ Quiet'
  BY <1>1 DEF IndInv, Passed, Unwritten, Quiet, FileIffSuccess
<1>. QED  BY <1>3, <1>4, <1>5 DEF IndInv

(* A file that was read has a format.                                      *)
LEMMA CloseNodeFileInv == IndInv /\ CloseNodeFile => IndInv'
<1>. SUFFICES ASSUME IndInv, CloseNodeFile PROVE IndInv'
  OBVIOUS
<1>1. /\ pc = "nodes" /\ phase' = "closed"
      /\ UNCHANGED <<args, line, ahead, seen, type, dist, full, built, file>>
  BY DEF CloseNodeFile, Closed, known, inst
<1>2. \/ pc' = "read" /\ status' = status /\ phase = "ok" /\ complaints' = complaints
      \/ pc' = "end" /\ status' \in {"failure", "abort"}
  BY DEF CloseNodeFile, End
<1>3. status = "running" /\ file = "none" /\ args = "run"
  BY <1>1 DEF IndInv, Typed, Unwritten
<1>4. Typed'
  BY <1>1, <1>2, <1>3 DEF IndInv, Typed
<1>5. Known'
  BY <1>1, <1>2 DEF IndInv, Known, Decided
<1>6. Passed'
  BY <1>2 DEF Passed
<1>7. Unwritten'
  BY <1>1, <1>2, <1>3 DEF Unwritten, FileIffSuccess
<1>8. Quiet'
  BY <1>1, <1>2, <1>3 DEF IndInv, Quiet
<1>. QED  BY <1>4, <1>5, <1>6, <1>7, <1>8 DEF IndInv

(* A line that is lost sets nothing, a keyword that is no tag ends the     *)
(* run.                                                                    *)
LEMMA LostInv == IndInv /\ (LoseLine \/ UnknownTag) => IndInv'
<1>. SUFFICES ASSUME IndInv, LoseLine \/ UnknownTag PROVE IndInv'
  OBVIOUS
<1>1. /\ UNCHANGED <<args, seen, type, dist, full, built, file, phase>>
      /\ pc = "read"
      /\ \/ pc' = "read" /\ status' = status /\ complaints' = complaints
         \/ pc' = "end" /\ status' = "failure"
  BY DEF LoseLine, UnknownTag, End, known, inst, reader
<1>2. line' \in 1 .. Len(Lines) + 1
  <2>1. line \in 1 .. Len(Lines) + 1 /\ Len(Lines) \in Nat
    BY LinesAssumption, LenProperties DEF IndInv, Typed
  <2>2. line' = line \/ (line' = line + 1 /\ line <= Len(Lines))
    BY DEF LoseLine, UnknownTag
  <2>. QED  BY <2>1, <2>2
<1>3. ahead' \in {"tag", "taken", "stray"}
  <2>1. CASE LoseLine
    <3>1. \E c \in Content(Lines[line]) :
            ahead' = CASE c = "absent" -> "taken" [] c = "empty" -> "tag" [] OTHER -> "stray"
      BY <2>1 DEF LoseLine
    <3>. QED  BY <3>1
  <2>2. CASE UnknownTag
    BY <2>2 DEF UnknownTag, IndInv, Typed
  <2>. QED  BY <2>1, <2>2
<1>4. status = "running" /\ file = "none" /\ args = "run" /\ phase = "closed"
  BY <1>1 DEF IndInv, Typed, Unwritten
<1>5. Typed'
  BY <1>1, <1>2, <1>3, <1>4 DEF IndInv, Typed
<1>6. Known' /\ Passed'
  BY <1>1 DEF IndInv, Known, Passed
<1>7. Unwritten'
  BY <1>1, <1>4 DEF Unwritten, FileIffSuccess
<1>8. Quiet'
  BY <1>1, <1>4 DEF IndInv, Quiet
<1>. QED  BY <1>5, <1>6, <1>7, <1>8 DEF IndInv

(* What follows looks at what was read and changes none of it.             *)
LEMMA LaterInv ==
  IndInv /\ (NoKeyword \/ ReadEof \/ CheckConfiguration \/ Distribute \/ Route
             \/ BuildPDPTW \/ BuildCVRP \/ Write) => IndInv'
<1>. SUFFICES ASSUME IndInv, NoKeyword \/ ReadEof \/ CheckConfiguration \/ Distribute \/ Route
                            \/ BuildPDPTW \/ BuildCVRP \/ Write
              PROVE IndInv'
  OBVIOUS
<1>. DEFINE Later == {"check", "create", "route", "build", "write"}
<1>1. UNCHANGED <<args, line, ahead, seen, type, dist, full, complaints, phase>>
  BY DEF NoKeyword, ReadEof, CheckConfiguration, Distribute, Route, BuildPDPTW, BuildCVRP, Write,
         conf, known, reader
<1>2. pc \in {"read"} \cup Later
  BY DEF NoKeyword, ReadEof, CheckConfiguration, Distribute, Route, BuildPDPTW, BuildCVRP, Write
<1>3. status = "running" /\ file = "none" /\ args = "run" /\ phase = "closed"
  BY <1>2 DEF IndInv, Typed, Unwritten
<1>4. ASSUME Write PROVE IndInv'
  <2>1. PICK opened \in BOOLEAN :
          /\ file' \in IF opened THEN {type, "cut off"} ELSE {"none"}
          /\ End(Exit(opened))
    BY <1>4 DEF Write
  <2>2. pc = "write" /\ built' = built
    BY <1>4 DEF Write
  <2>3. type \in Types
    <3>1. "TYPE" \in seen
      BY <2>2, PassesKnown DEF IndInv, Passed
    <3>. QED  BY <3>1, <2>2 DEF IndInv, Known
  <2>4. pc' = "end" /\ status' = (IF opened THEN "success" ELSE "failure")
    BY <2>1 DEF End, Exit
  <2>5. file' \in IF opened THEN {"PDPTW", "CVRP", "cut off"} ELSE {"none"}
    BY <2>1, <2>3 DEF Types
  <2>6. Typed'
    BY <2>2, <2>4, <2>5, <1>1, <1>3 DEF IndInv, Typed
  <2>7. Known' /\ Passed'
    BY <2>4 DEF Known, Passed
  <2>8. Unwritten'
    BY <2>4, <2>5, <1>1, <1>3 DEF Unwritten, FileIffSuccess
  <2>9. Quiet'
    BY <2>2, <1>1 DEF IndInv, Quiet
  <2>. QED  BY <2>6, <2>7, <2>8, <2>9 DEF IndInv
<1>5. ASSUME ~Write PROVE IndInv'
  <2>1. \/ pc' \in Later /\ status' = "running" /\ ("read" = pc => pc' = "check")
           /\ (pc' \in {"check", "create"} => pc \in {"read", "check"})
           /\ (pc' \in {"route", "build", "write"} => pc \in {"create", "route", "build"})
           /\ (pc' = "create" => pc = "check" /\ HasEverything)
        \/ pc' = "end" /\ status' \in {"failure", "abort", "hang"}
    BY <1>3, <1>5 DEF NoKeyword, ReadEof, CheckConfiguration, Distribute, Route, BuildPDPTW,
                 BuildCVRP, End
  <2>2. file' = "none" /\ built' \in {"nothing", "PDPTW", "CVRP"}
    BY <1>3, <1>5 DEF IndInv, Typed, NoKeyword, ReadEof, CheckConfiguration, Distribute, Route,
                 BuildPDPTW, BuildCVRP, inst
  <2>3. Typed'
    BY <2>1, <2>2, <1>1, <1>3 DEF IndInv, Typed
  <2>4. Known'
    BY <2>1, <1>1, <1>2, <1>3 DEF IndInv, Known, Decided
  <2>5. Passed'
    <3>1. pc' \in {"create", "route", "build", "write"} => HasEverything
      BY <2>1 DEF IndInv, Passed
    <3>. QED  BY <3>1, <1>1, HasEverythingStays DEF Passed
  <2>6. Unwritten'
    BY <2>1, <2>2, <1>1, <1>3 DEF Unwritten, FileIffSuccess
  <2>7. Quiet'
    BY <2>1, <2>2, <1>1, <1>2 DEF IndInv, Quiet
  <2>. QED  BY <2>3, <2>4, <2>5, <2>6, <2>7 DEF IndInv
<1>. QED  BY <1>4, <1>5

(* Every step keeps the invariant.                                         *)
LEMMA NextInv == IndInv /\ [Next]_vars => IndInv'
<1>1. ASSUME IndInv, UNCHANGED vars PROVE IndInv'
  <2>1. UNCHANGED <<pc, args, line, ahead, seen, type, dist, full, complaints, built, file, status, phase>>
    BY <1>1 DEF vars, conf, known, inst, reader
  <2>2. Typed'
    BY <2>1, <1>1 DEF IndInv, Typed
  <2>3. Known'
    BY <2>1, <1>1 DEF IndInv, Known
  <2>4. Passed'
    BY <2>1, <1>1, HasEverythingStays DEF IndInv, Passed
  <2>5. Unwritten' /\ Quiet'
    BY <2>1, <1>1 DEF IndInv, Unwritten, FileIffSuccess, Quiet
  <2>. QED  BY <2>2, <2>3, <2>4, <2>5 DEF IndInv
<1>. QED  BY <1>1, ReadParametersInv, ReadLineInv, LostInv, ReadNodeFileInv, CloseNodeFileInv, LaterInv
          DEF Next

(* The invariant of every run.                                             *)
THEOREM Invariance == Spec => []IndInv
BY InitInv, NextInv, PTL DEF Spec

-----------------------------------------------------------------------------
(* The parts of create find a type, a distribution and a format that the   *)
(* configuration set, whatever the order of the lines and the flaws.       *)
THEOREM TypeCorrect == Spec => []TypeOK
<1>1. IndInv => TypeOK
  <2>. SUFFICES ASSUME IndInv PROVE TypeOK
    OBVIOUS
  <2>1. ASSUME pc \in {"create", "route", "build", "write"}
        PROVE  type \in Types /\ dist \in Dists
    <3>1. "TYPE" \in seen /\ "DISTRIBUTION" \in seen
      BY <2>1, PassesKnown DEF IndInv, Passed
    <3>. QED  BY <3>1, <2>1 DEF IndInv, Known
  <2>. QED  BY <2>1 DEF IndInv, Typed, TypeOK, Types, Dists
<1>. QED  BY <1>1, Invariance, PTL

(* The exit code says whether the output file was touched, for every       *)
(* command line, configuration and node file, and however the parts of     *)
(* create end (write_instance_file and main).                              *)
THEOREM FileIffSuccessCorrect == Spec => []FileIffSuccess
<1>1. IndInv => FileIffSuccess
  BY DEF IndInv, Unwritten
<1>. QED  BY <1>1, Invariance, PTL

(* What was complained about ends the run before create, but for the       *)
(* separators of read_configurations, line 221.                            *)
THEOREM ComplaintsStopCorrect == Spec => []ComplaintsStop
<1>1. IndInv => ComplaintsStop
  BY DEF IndInv, Quiet, ComplaintsStop
<1>. QED  BY <1>1, Invariance, PTL

(* A configuration that has_everything lets pass lacks a required tag only *)
(* behind an optional one that is absent, for every set of tags read.      *)
THEOREM LacksOnlyAfterGapCorrect == Spec => []LacksOnlyAfterGap
<1>1. IndInv => LacksOnlyAfterGap
  <2>. SUFFICES ASSUME IndInv, pc = "create" PROVE LacksOnlyAfterGap
    BY DEF LacksOnlyAfterGap
  <2>1. HasEverything
    BY DEF IndInv, Passed
  <2>2. {"NAME", "TYPE", "SIZE", "DISTRIBUTION"} \subseteq seen
        /\ (dist = "cluster" => "CLUSTERS" \in seen)
    BY <2>1, PassesKnown
  <2>3. type \in {"PDPTW", "CVRP"} /\ ("NODE-FILE" \in seen => full # 0)
    BY <2>2 DEF IndInv, Known, Types
  <2>4. (RequiredFor(Kind) \ seen) \cap {"NAME", "TYPE", "SIZE", "DISTRIBUTION", "CLUSTERS"} = {}
    BY <2>2 DEF RequiredFor
  <2>. QED  BY <2>1, <2>3, <2>4, PassesGap DEF LacksOnlyAfterGap
<1>. QED  BY <1>1, Invariance, PTL

-----------------------------------------------------------------------------
(***************************************************************************)
(* The nodes of a file.  What a node is typed as decides who its partner   *)
(* is: the next one, the one before, or the node 0 or none.                *)
(***************************************************************************)
Forms(x) ==
  {[type |-> "Pickup", pair |-> x], [type |-> "Delivery", pair |-> x - 2],
   [type |-> "Depot", pair |-> 0], [type |-> "Depot", pair |-> -1]}

NodeRecord == [type : {"Pickup", "Delivery", "Depot"}, pair : Int]

Formed == nodes \in Seq(NodeRecord) /\ \A x \in 1 .. Len(nodes) : nodes[x] \in Forms(x)

(* No nodes are well formed.                                               *)
LEMMA FormedNone == ASSUME nodes' = << >> PROVE Formed'
<1>1. << >> \in Seq(NodeRecord) /\ Len(<< >>) = 0
  OBVIOUS
<1>. QED  BY <1>1 DEF Formed

LEMMA FormedInit == Init => Formed
<1>. SUFFICES ASSUME Init PROVE Formed
  OBVIOUS
<1>1. nodes = << >>
  BY DEF Init
<1>2. << >> \in Seq(NodeRecord) /\ Len(<< >>) = 0
  OBVIOUS
<1>. QED  BY <1>1, <1>2 DEF Formed

(* Whatever the numbers of a record are, the node is of one of the forms.  *)
LEMMA FormedNode ==
  ASSUME NEW id \in Nat, NEW got
  PROVE  N!Node(id, got) \in Forms(id + 1) /\ N!Node(id, got) \in NodeRecord
<1>1. \A pick, dev : N!NodeOf(id, pick, dev) \in
        {[type |-> "Pickup", pair |-> id + 1], [type |-> "Delivery", pair |-> id - 1],
         [type |-> "Depot", pair |-> 0], [type |-> "Depot", pair |-> -1]}
  BY DEF N!NodeOf, N!Kept
<1>2. N!Node(id, got) \in
        {[type |-> "Pickup", pair |-> id + 1], [type |-> "Delivery", pair |-> id - 1],
         [type |-> "Depot", pair |-> 0], [type |-> "Depot", pair |-> -1]}
  BY <1>1 DEF N!Node
<1>3. id + 1 \in Int /\ id - 1 \in Int /\ 0 \in Int /\ -1 \in Int /\ (id + 1) - 2 = id - 1
  OBVIOUS
<1>4. N!Node(id, got) \in Forms(id + 1)
  BY <1>2, <1>3 DEF Forms
<1>5. N!Node(id, got) \in NodeRecord
  BY <1>2, <1>3 DEF NodeRecord
<1>. QED  BY <1>4, <1>5

(* Steps of the reader append a node or none.                              *)
LEMMA FormedNext == Formed /\ [Next]_vars => Formed'
<1>. SUFFICES ASSUME Formed, [Next]_vars PROVE Formed'
  OBVIOUS
<1>1. ASSUME nodes' = nodes PROVE Formed'
  BY <1>1 DEF Formed
<1>2. CASE ReadLine
  <2>1. nodes' = nodes \/ nodes' = << >>
    BY <1>2 DEF ReadLine, reader, N!Open
  <2>. QED  BY <2>1, <1>1, FormedNone
<1>3. CASE ReadNodeFile
  <2>1. CASE N!AppendNode
    <3>1. CASE nodes' = nodes
      BY <3>1, <1>1
    <3>2. CASE nodes' = Append(nodes, N!Node(Len(nodes), numbers))
      <4>. DEFINE node == N!Node(Len(nodes), numbers)
      <4>1. nodes \in Seq(NodeRecord) /\ Len(nodes) \in Nat
        BY LenProperties DEF Formed
      <4>2. node \in Forms(Len(nodes) + 1) /\ node \in NodeRecord
        BY <4>1, FormedNode
      <4>. HIDE DEF node
      <4>3. /\ Append(nodes, node) \in Seq(NodeRecord)
            /\ Len(Append(nodes, node)) = Len(nodes) + 1
            /\ \A x \in 1 .. Len(nodes) : Append(nodes, node)[x] = nodes[x]
            /\ Append(nodes, node)[Len(nodes) + 1] = node
        BY <4>1, <4>2, AppendProperties
      <4>4. nodes' = Append(nodes, node)
        BY <3>2 DEF node
      <4>5. \A x \in 1 .. Len(nodes) + 1 : x \in 1 .. Len(nodes) \/ x = Len(nodes) + 1
        BY <4>1
      <4>6. \A x \in 1 .. Len(nodes) + 1 : Append(nodes, node)[x] \in Forms(x)
        BY <4>2, <4>3, <4>5 DEF Formed
      <4>. QED  BY <4>3, <4>4, <4>6 DEF Formed
    <3>. QED  BY <2>1, <3>1, <3>2 DEF N!AppendNode
  <2>2. CASE ~N!AppendNode
    <3>1. nodes' = nodes
      BY <1>3, <2>2 DEF ReadNodeFile, N!Next, N!ReadHeader, N!DecideFormat, N!ReadRecord, N!ReadNumber
    <3>. QED  BY <3>1, <1>1
  <2>. QED  BY <2>1, <2>2
<1>4. CASE CloseNodeFile
  <2>1. nodes' = << >>
    BY <1>4 DEF CloseNodeFile, Closed
  <2>. QED  BY <2>1, FormedNone
<1>5. CASE ~(ReadLine \/ ReadNodeFile \/ CloseNodeFile)
  <2>1. nodes' = nodes
    BY <1>5 DEF Next, vars, reader, ReadParameters, LoseLine, UnknownTag, NoKeyword, ReadEof, CheckConfiguration,
           Distribute, Route, BuildPDPTW, BuildCVRP, Write
  <2>. QED  BY <2>1, <1>1
<1>. QED  BY <1>2, <1>3, <1>4, <1>5

(* A node looks at the partner its type names.                             *)
LEMMA PartnerFacts ==
  ASSUME Formed, NEW x \in 1 .. Len(nodes)
  PROVE  \/ nodes[x].type = "Pickup" /\ nodes[x].pair + 1 = x + 1
         \/ nodes[x].type = "Delivery" /\ nodes[x].pair + 1 = x - 1
         \/ nodes[x].type = "Depot" /\ nodes[x].pair + 1 \in {0, 1}
<1>1. nodes[x] \in Forms(x) /\ x \in Int
  BY DEF Formed
<1>2. \/ nodes[x].type = "Pickup" /\ nodes[x].pair = x
      \/ nodes[x].type = "Delivery" /\ nodes[x].pair = x - 2
      \/ nodes[x].type = "Depot" /\ nodes[x].pair \in {0, -1}
  BY <1>1 DEF Forms
<1>. QED  BY <1>1, <1>2

Alternating ==
  /\ Len(nodes) % 2 = 0
  /\ \A x \in DOMAIN nodes :
       IF x % 2 = 1 THEN nodes[x].type = "Pickup"
       ELSE \/ nodes[x].type = "Delivery"
            \/ x = 2 /\ nodes[x].type = "Depot" /\ nodes[x].pair = 0

(* In couples every node at an odd place is a pickup: the first that is    *)
(* not would look for a partner who already looks at the one before.       *)
LEMMA CouplesPickups ==
  ASSUME Formed, N!Couples
  PROVE  \A x \in 1 .. Len(nodes) : x % 2 = 1 => nodes[x].type = "Pickup"
<1>. DEFINE L == Len(nodes)
            Bad == {x \in 1 .. L : x % 2 = 1 /\ nodes[x].type # "Pickup"}
<1>1. L \in Nat /\ DOMAIN nodes = 1 .. L
  BY LenProperties DEF Formed
<1>2. \A x \in 1 .. L : LET y == nodes[x].pair + 1 IN
        y \in 1 .. L /\ y # x /\ nodes[y].pair + 1 = x
  BY <1>1 DEF N!Couples
<1>. HIDE DEF L
<1>3. ASSUME Bad # {} PROVE FALSE
  <2>1. PICK m \in Bad : \A n \in Bad : m <= n
    <3>1. Bad \subseteq Nat
      BY <1>1
    <3>. HIDE DEF Bad
    <3>. QED  BY <3>1, <1>3, LeastNat
  <2>2. m \in 1 .. L /\ m % 2 = 1 /\ nodes[m].type # "Pickup"
    OBVIOUS
  <2>3. \A x \in 1 .. L : x < m /\ x % 2 = 1 => nodes[x].type = "Pickup"
    <3>. SUFFICES ASSUME NEW x \in 1 .. L, x < m, x % 2 = 1, nodes[x].type # "Pickup" PROVE FALSE
      OBVIOUS
    <3>1. x \in Bad
      OBVIOUS
    <3>2. ~(m <= x)
      BY <2>2
    <3>. QED  BY <2>1, <3>1, <3>2
  <2>. HIDE DEF Bad
  <2>4. \A x \in 1 .. L :
          \/ nodes[x].type = "Pickup" /\ nodes[x].pair + 1 = x + 1
          \/ nodes[x].type = "Delivery" /\ nodes[x].pair + 1 = x - 1
          \/ nodes[x].type = "Depot" /\ nodes[x].pair + 1 \in {0, 1}
    BY PartnerFacts DEF L
  <2>5. CASE m = 1
    <3>1. nodes[m].pair + 1 \in 1 .. L /\ nodes[m].pair + 1 # m
      BY <2>2, <1>2
    <3>2. nodes[m].pair + 1 = 0 \/ nodes[m].pair + 1 = 1
      BY <2>2, <2>4, <2>5
    <3>. QED  BY <3>1, <3>2, <2>5
  <2>6. CASE m # 1
    <3>1. m >= 3 /\ m - 2 \in 1 .. L /\ (m - 2) % 2 = 1 /\ 1 \in 1 .. L /\ 1 < m /\ m - 2 < m
      BY <2>2, <2>6, <1>1
    <3>2. nodes[m - 2].type = "Pickup" /\ nodes[1].type = "Pickup"
      BY <3>1, <2>3
    <3>3. nodes[m - 2].pair + 1 = m - 1 /\ nodes[1].pair + 1 = 2
      <4>1. nodes[m - 2].pair + 1 = (m - 2) + 1 /\ nodes[1].pair + 1 = 1 + 1
        BY <3>1, <3>2, <2>4
      <4>. QED  BY <4>1, <2>2
    <3>4. nodes[m - 1].pair + 1 = m - 2
      BY <3>1, <3>3, <1>2
    <3>5. \E y \in {m - 1, 1} : nodes[y].pair + 1 = m
      <4>1. nodes[nodes[m].pair + 1].pair + 1 = m
        BY <2>2, <1>2
      <4>2. nodes[m].pair + 1 \in {m - 1, 1}
        BY <2>2, <2>4, <1>2
      <4>. QED  BY <4>1, <4>2
    <3>6. m - 2 # m /\ 2 # m
      BY <3>1
    <3>. QED  BY <3>3, <3>4, <3>5, <3>6
  <2>. QED  BY <2>5, <2>6
<1>. QED  BY <1>3 DEF L

(* Couples are pickups and deliveries in turn.                             *)
LEMMA CouplesAlternate == ASSUME Formed, N!Couples PROVE Alternating
<1>. DEFINE L == Len(nodes)
<1>1. L \in Nat /\ DOMAIN nodes = 1 .. L
  BY LenProperties DEF Formed
<1>2. \A x \in 1 .. L : LET y == nodes[x].pair + 1 IN
        y \in 1 .. L /\ y # x /\ nodes[y].pair + 1 = x
  BY <1>1 DEF N!Couples
<1>3. \A x \in 1 .. L : x % 2 = 1 => nodes[x].type = "Pickup"
  BY CouplesPickups
<1>4. \A x \in 1 .. L :
        \/ nodes[x].type = "Pickup" /\ nodes[x].pair + 1 = x + 1
        \/ nodes[x].type = "Delivery" /\ nodes[x].pair + 1 = x - 1
        \/ nodes[x].type = "Depot" /\ nodes[x].pair + 1 \in {0, 1}
  BY PartnerFacts
<1>. HIDE DEF L
<1>5. \A x \in 1 .. L : x % 2 = 1 => x + 1 \in 1 .. L /\ nodes[x + 1].pair + 1 = x
  <2>. TAKE x \in 1 .. L
  <2>. HAVE x % 2 = 1
  <2>1. nodes[x].pair + 1 = x + 1
    BY <1>3, <1>4
  <2>. QED  BY <2>1, <1>2
<1>6. L % 2 = 0
  <2>. SUFFICES ASSUME L % 2 # 0 PROVE FALSE
    OBVIOUS
  <2>1. L % 2 = 1 /\ L \in 1 .. L /\ L + 1 \notin 1 .. L
    BY <1>1
  <2>. QED  BY <2>1, <1>5
<1>7. ASSUME NEW x \in 1 .. L, x % 2 # 1
      PROVE  \/ nodes[x].type = "Delivery"
             \/ x = 2 /\ nodes[x].type = "Depot" /\ nodes[x].pair = 0
  <2>1. x - 1 \in 1 .. L /\ (x - 1) % 2 = 1 /\ (x - 1) + 1 = x /\ x >= 2
    BY <1>7, <1>1
  <2>2. nodes[x].pair + 1 = x - 1
    BY <2>1, <1>5
  <2>3. x - 1 # x + 1 /\ x - 1 # 0 /\ (x - 1 = 1 => x = 2)
    BY <2>1
  <2>4. CASE nodes[x].type = "Depot"
    <3>1. nodes[x].pair \in Int
      <4>1. nodes[x] \in Forms(x) /\ x \in Int
        BY <1>1 DEF Formed, L
      <4>. QED  BY <4>1 DEF Forms
    <3>2. nodes[x].pair + 1 \in {0, 1}
      BY <2>4, <1>4
    <3>3. nodes[x].pair + 1 = 1
      BY <2>2, <2>3, <3>2
    <3>. QED  BY <2>2, <2>3, <2>4, <3>1, <3>3
  <2>. QED  BY <2>2, <2>3, <2>4, <1>4
<1>. QED  BY <1>1, <1>3, <1>6, <1>7 DEF Alternating, L

(* Pickups and deliveries in turn are couples.                             *)
LEMMA AlternateCouples == ASSUME Formed, Alternating PROVE N!Couples
<1>. DEFINE L == Len(nodes)
<1>1. L \in Nat /\ DOMAIN nodes = 1 .. L
  BY LenProperties DEF Formed
<1>2. L % 2 = 0 /\ \A x \in 1 .. L :
        IF x % 2 = 1 THEN nodes[x].type = "Pickup"
        ELSE \/ nodes[x].type = "Delivery"
             \/ x = 2 /\ nodes[x].type = "Depot" /\ nodes[x].pair = 0
  BY <1>1 DEF Alternating
<1>3. \A x \in 1 .. L :
        \/ nodes[x].type = "Pickup" /\ nodes[x].pair + 1 = x + 1
        \/ nodes[x].type = "Delivery" /\ nodes[x].pair + 1 = x - 1
        \/ nodes[x].type = "Depot" /\ nodes[x].pair + 1 \in {0, 1}
  BY PartnerFacts
<1>. HIDE DEF L
<1>4. \A x \in 1 .. L : nodes[x].pair + 1 = IF x % 2 = 1 THEN x + 1 ELSE x - 1
  <2>. TAKE x \in 1 .. L
  <2>1. CASE x % 2 = 1
    BY <2>1, <1>2, <1>3
  <2>2. CASE x % 2 # 1 /\ nodes[x].type = "Delivery"
    BY <2>2, <1>3
  <2>3. CASE x % 2 # 1 /\ x = 2 /\ nodes[x].type = "Depot" /\ nodes[x].pair = 0
    BY <2>3
  <2>. QED  BY <2>1, <2>2, <2>3, <1>2
<1>5. ASSUME NEW x \in 1 .. L
      PROVE  LET y == nodes[x].pair + 1 IN y \in 1 .. L /\ y # x /\ nodes[y].pair + 1 = x
  <2>1. CASE x % 2 = 1
    <3>1. x + 1 \in 1 .. L /\ (x + 1) % 2 # 1 /\ x + 1 # x /\ (x + 1) - 1 = x
      BY <2>1, <1>1, <1>2
    <3>2. nodes[x].pair + 1 = x + 1 /\ nodes[x + 1].pair + 1 = (x + 1) - 1
      BY <2>1, <3>1, <1>4
    <3>. QED  BY <3>1, <3>2
  <2>2. CASE x % 2 # 1
    <3>1. x - 1 \in 1 .. L /\ (x - 1) % 2 = 1 /\ x - 1 # x /\ (x - 1) + 1 = x
      BY <2>2, <1>1
    <3>2. nodes[x].pair + 1 = x - 1 /\ nodes[x - 1].pair + 1 = (x - 1) + 1
      BY <2>2, <3>1, <1>4
    <3>. QED  BY <3>1, <3>2
  <2>. QED  BY <2>1, <2>2
<1>. QED  BY <1>1, <1>5 DEF N!Couples

(* The nodes of a file are couples just if they alternate (line 101), for  *)
(* files of any length: the induction is over the places of the nodes.     *)
THEOREM CouplesCorrect == Spec => []CouplesIffAlternating
<1>1. Init => Formed
  BY FormedInit
<1>2. Formed => CouplesIffAlternating
  <2>1. Formed => (N!Couples <=> Alternating)
    BY CouplesAlternate, AlternateCouples
  <2>. QED  BY <2>1 DEF CouplesIffAlternating, N!CouplesIffAlternating, Alternating
<1>. QED  BY <1>1, <1>2, FormedNext, PTL DEF Spec
-----------------------------------------------------------------------------
(* The sizes that NodeFile speaks of are those the library's facts are     *)
(* about.                                                                  *)
LEMMA SameCardinality == \A S : N!Cardinality(S) = Cardinality(S)
BY DEF N!Cardinality, Cardinality

LEMMA RankIs == \A S, x : N!Rank(S, x) = Cardinality({y \in S : y <= x})
BY SameCardinality DEF N!Rank

(* Ranks in a set of places.                                               *)
LEMMA RankFacts ==
  ASSUME NEW n \in Nat, NEW S, S \subseteq 1 .. n
  PROVE  /\ IsFiniteSet(S) /\ Cardinality(S) \in Nat
         /\ \A x \in Int : N!Rank(S, x) \in Nat
<1>1. IsFiniteSet(1 .. n)
  BY FS_Interval
<1>2. IsFiniteSet(S) /\ Cardinality(S) \in Nat
  BY <1>1, FS_Subset, FS_CardinalityType
<1>3. ASSUME NEW x \in Int PROVE N!Rank(S, x) \in Nat
  <2>1. {y \in S : y <= x} \subseteq S
    OBVIOUS
  <2>2. IsFiniteSet({y \in S : y <= x})
    BY <1>2, <2>1, FS_Subset
  <2>3. Cardinality({y \in S : y <= x}) \in Nat
    BY <2>2, FS_CardinalityType
  <2>. QED  BY <2>3, RankIs
<1>. QED  BY <1>2, <1>3

(* A rank never falls, and it grows where a member lies between.           *)
LEMMA RankGrows ==
  ASSUME NEW n \in Nat, NEW S, S \subseteq 1 .. n, NEW x \in Int, NEW y \in Int, x <= y
  PROVE  /\ N!Rank(S, x) <= N!Rank(S, y)
         /\ N!Rank(S, x) = N!Rank(S, y) => \A z \in S : z <= y => z <= x
<1>. DEFINE A == {z \in S : z <= x}
            B == {z \in S : z <= y}
<1>1. A \subseteq B
  <2>1. \A z \in S : z \in Int /\ (z <= x => z <= y)
    OBVIOUS
  <2>. QED  BY <2>1
<1>2. IsFiniteSet(B)
  <2>1. B \subseteq S
    OBVIOUS
  <2>. HIDE DEF B
  <2>. QED  BY <2>1, RankFacts, FS_Subset
<1>3. Cardinality(A) <= Cardinality(B) /\ (Cardinality(B) = Cardinality(A) => B = A)
  <2>. HIDE DEF A, B
  <2>. QED  BY <1>1, <1>2, FS_Subset
<1>4. B = A => \A z \in S : z <= y => z <= x
  OBVIOUS
<1>5. N!Rank(S, x) = Cardinality(A) /\ N!Rank(S, y) = Cardinality(B)
  BY RankIs
<1>. HIDE DEF A, B
<1>. QED  BY <1>3, <1>4, <1>5

(* The next member has the next rank.                                      *)
LEMMA RankNext ==
  ASSUME NEW n \in Nat, NEW S, S \subseteq 1 .. n, NEW x \in Int, NEW y \in S, x < y,
         \A z \in S : z < y => z <= x
  PROVE  N!Rank(S, y) = N!Rank(S, x) + 1
<1>. DEFINE A == {z \in S : z <= x}
<1>1. \A z \in S : z \in Int
  OBVIOUS
<1>2. {z \in S : z <= y} = A \cup {y} /\ y \notin A
  <2>1. \A z \in S : z <= y <=> z <= x \/ z = y
    BY <1>1
  <2>2. ~(y <= x)
    BY <1>1
  <2>. QED  BY <2>1, <2>2
<1>3. IsFiniteSet(A)
  <2>1. A \subseteq S
    OBVIOUS
  <2>. HIDE DEF A
  <2>. QED  BY <2>1, RankFacts, FS_Subset
<1>4. N!Rank(S, x) = Cardinality(A) /\ N!Rank(S, y) = Cardinality(A \cup {y})
  BY <1>2, RankIs
<1>. HIDE DEF A
<1>5. Cardinality(A \cup {y}) = Cardinality(A) + 1
  BY <1>2, <1>3, FS_AddElement
<1>. QED  BY <1>4, <1>5

(* Where no member lies between, ranks are equal.                          *)
LEMMA RankStays ==
  ASSUME NEW S, S \subseteq Int, NEW x \in Int, NEW y \in Int, x <= y, \A z \in S : z <= y => z <= x
  PROVE  N!Rank(S, y) = N!Rank(S, x)
<1>1. {z \in S : z <= y} = {z \in S : z <= x}
  <2>1. \A z \in S : z <= y <=> z <= x
    OBVIOUS
  <2>. QED  BY <2>1
<1>. QED  BY <1>1, RankIs

(* Nobody shares a rank.                                                   *)
LEMMA RankOwn ==
  ASSUME NEW n \in Nat, NEW S, S \subseteq 1 .. n, NEW x \in S, NEW y \in S,
         N!Rank(S, x) = N!Rank(S, y)
  PROVE  x = y
<1>1. x \in Int /\ y \in Int
  OBVIOUS
<1>2. CASE x <= y
  <2>1. \A z \in S : z <= y => z <= x
    BY <1>1, <1>2, RankGrows
  <2>. QED  BY <1>1, <1>2, <2>1
<1>3. CASE y <= x
  <2>1. \A z \in S : z <= x => z <= y
    BY <1>1, <1>3, RankGrows
  <2>. QED  BY <1>1, <1>3, <2>1
<1>. QED  BY <1>1, <1>2, <1>3

(* The rank of whatever no member is behind is the size of the set.        *)
LEMMA RankAll ==
  ASSUME NEW n \in Nat, NEW S, S \subseteq 1 .. n, NEW x \in Int
  PROVE  /\ N!Rank(S, x) <= Cardinality(S)
         /\ N!Rank(S, x) = Cardinality(S) <=> \A z \in S : z <= x
<1>. DEFINE A == {z \in S : z <= x}
<1>1. A \subseteq S /\ IsFiniteSet(S)
  BY RankFacts
<1>2. Cardinality(A) <= Cardinality(S) /\ (Cardinality(S) = Cardinality(A) => S = A)
  <2>. HIDE DEF A
  <2>. QED  BY <1>1, FS_Subset
<1>3. S = A <=> \A z \in S : z <= x
  OBVIOUS
<1>4. N!Rank(S, x) = Cardinality(A)
  BY RankIs
<1>. HIDE DEF A
<1>. QED  BY <1>2, <1>3, <1>4

(* The word of a number in a line is the word at the place of that rank.   *)
LEMMA WordOfRank ==
  ASSUME NEW ln \in Seq(N!Word), NEW c \in N!WordsOf(ln)
  PROVE  N!WordOf(ln, N!Rank(N!WordsOf(ln), c)) = ln[c]
<1>. DEFINE W == N!WordsOf(ln)
            k == N!Rank(W, c)
            d == CHOOSE e \in W : N!Rank(W, e) = k
<1>1. W \subseteq 1 .. Len(ln) /\ Len(ln) \in Nat
  BY LenProperties DEF N!WordsOf
<1>2. d \in W /\ N!Rank(W, d) = k
  OBVIOUS
<1>3. d = c
  <2>. HIDE DEF d
  <2>1. d \in W /\ c \in W /\ N!Rank(W, d) = N!Rank(W, c)
    BY <1>2
  <2>. HIDE DEF W, k
  <2>. QED  BY <1>1, <2>1, RankOwn
<1>4. N!WordOf(ln, k) = ln[d]
  BY DEF N!WordOf
<1>. QED  BY <1>3, <1>4

-----------------------------------------------------------------------------
(* The next word: no line before has one, nor the line before it.          *)
LEMMA NextWordIs ==
  ASSUME row \in Int, Len(lines) \in Nat,
         NEW r \in row .. Len(lines), NEW c \in N!WordsAhead(r),
         \A s \in row .. r - 1 : N!WordsAhead(s) = {},
         \A d \in N!WordsAhead(r) : d \in Int /\ c <= d
  PROVE  /\ N!NextRow = r /\ N!NextCol = c
         /\ N!NextWord = IF point THEN "frac" ELSE lines[r][c]
<1>. DEFINE p == <<r, c>>
            First(x) == \A q \in N!Ahead : x[1] < q[1] \/ (x[1] = q[1] /\ x[2] <= q[2])
<1>1. p \in N!Ahead
  BY DEF N!Ahead
<1>2. ASSUME NEW q \in N!Ahead PROVE q = <<q[1], q[2]>> /\ q[1] \in r .. Len(lines) /\ q[2] \in N!WordsAhead(q[1])
  <2>1. PICK s \in row .. Len(lines) : q \in {s} \X N!WordsAhead(s)
    BY DEF N!Ahead
  <2>2. q = <<q[1], q[2]>> /\ q[1] = s /\ q[2] \in N!WordsAhead(s)
    BY <2>1
  <2>3. ~(s \in row .. r - 1)
    BY <2>2
  <2>. QED  BY <2>2, <2>3
<1>3. First(p)
  BY <1>2
<1>4. ASSUME NEW q \in N!Ahead, First(q) PROVE q = p
  <2>1. q[1] < r \/ (q[1] = r /\ q[2] <= c)
    BY <1>1, <1>4
  <2>2. q = <<q[1], q[2]>> /\ q[1] \in r .. Len(lines) /\ q[2] \in N!WordsAhead(q[1])
    BY <1>2
  <2>3. q[1] = r /\ q[2] <= c
    BY <2>1, <2>2
  <2>4. q[2] \in Int /\ c <= q[2] /\ c \in Int
    BY <2>2, <2>3
  <2>5. q[2] = c
    BY <2>3, <2>4
  <2>. QED  BY <2>2, <2>3, <2>5
<1>5. N!NextPlace = CHOOSE x \in N!Ahead : First(x)
  BY DEF N!NextPlace
<1>. HIDE DEF First
<1>6. N!NextPlace = p
  BY <1>1, <1>3, <1>4, <1>5
<1>. QED  BY <1>1, <1>6 DEF N!NextRow, N!NextCol, N!NextWord

-----------------------------------------------------------------------------
(***************************************************************************)
(* The invariant of the reading of a well-formed file.  Between records    *)
(* some lines are done with and those of them that are records are nodes;  *)
(* within a record its first words are in numbers.  Ranks tell which.      *)
(***************************************************************************)
(* A file that is well formed, from NODES to EOF.                          *)
Shaped(width, first, last) ==
  /\ first \in N!Tags("NODES") /\ last \in N!Tags("EOF")
  /\ N!Between(first, last, width)

(* The lines up to d are done with.                                        *)
Behind(d) == (row = d /\ N!WordsAhead(d) = {}) \/ (row = d + 1 /\ col = 1)

NodesUpTo(width, d) ==
  LET records == N!Records(width) IN
  /\ Len(nodes) = N!Rank(records, d)
  /\ \A x \in records : x <= d =>
       LET n == N!Rank(records, x) IN nodes[n] = N!Recorded(n - 1, lines[x], width)

(* The first words of the current record are read.                         *)
PartlyRead(width) ==
  /\ col \in Nat /\ numbers \in Seq(N!Number) /\ Len(numbers) < width
  /\ Len(numbers) + 1 = N!Rank(N!WordsOf(lines[row]), col - 1)
  /\ \A k \in 1 .. Len(numbers) : numbers[k] = N!WordOf(lines[row], k + 1)

Reading(width, first, last) ==
  /\ phase \in {"header", "format", "records", "fields", "ok"}
  /\ stream = "good" /\ point = FALSE
  /\ phase = "header" => row \in 1 .. first /\ col = 1
  /\ phase = "format" => row = first /\ col = 2
  /\ phase \in {"header", "format"} => nodes = << >>
  /\ phase \in {"header", "format", "records"} => numbers = << >>
  /\ phase \in {"records", "fields", "ok"} => full = IF width = 3 THEN 1 ELSE 2
  /\ phase = "records" => \E d \in first .. last - 1 : Behind(d) /\ NodesUpTo(width, d)
  /\ phase = "fields" =>
       \E d \in first .. last - 2 :
         row = d + 1 /\ row \in N!Records(width) /\ NodesUpTo(width, d) /\ PartlyRead(width)
  /\ phase = "ok" => NodesUpTo(width, last)

WrittenInv ==
  /\ lines \in Seq(Seq(N!Word))
  /\ \A width \in {3, 7}, first, last \in DOMAIN lines :
       Shaped(width, first, last) => Reading(width, first, last)

-----------------------------------------------------------------------------
(* Nothing is before the first place.                                      *)
LEMMA RankNone == ASSUME NEW n \in Nat, NEW S, S \subseteq 1 .. n PROVE N!Rank(S, 0) = 0
<1>1. \A z \in S : ~(z <= 0)
  OBVIOUS
<1>2. {z \in S : z <= 0} = {}
  BY <1>1
<1>. QED  BY <1>2, RankIs, FS_EmptySet

(* The words of a line are at places of the line.                          *)
LEMMA WordPlaces ==
  ASSUME NEW ln \in Seq(N!Word)
  PROVE  /\ Len(ln) \in Nat /\ DOMAIN ln = 1 .. Len(ln)
         /\ N!WordsOf(ln) \subseteq 1 .. Len(ln)
         /\ \A c \in N!WordsOf(ln) : c \in Nat /\ ln[c] \in N!Word
<1>1. Len(ln) \in Nat /\ DOMAIN ln = 1 .. Len(ln)
  BY LenProperties
<1>2. \A c \in 1 .. Len(ln) : ln[c] \in N!Word
  BY ElementOfSeq
<1>. QED  BY <1>1, <1>2 DEF N!WordsOf

(* The first word of a record is no mark and no tag.                       *)
LEMMA RecordStart ==
  ASSUME NEW ln \in Seq(N!Word), NEW width, N!IsRecord(ln, width),
         NEW c \in N!WordsOf(ln), \A e \in N!WordsOf(ln) : c <= e
  PROVE  ln[c] \in N!Whole \cup {"real", "word"} /\ N!Rank(N!WordsOf(ln), c) = 1
<1>. DEFINE W == N!WordsOf(ln)
<1>1. W \subseteq 1 .. Len(ln) /\ Len(ln) \in Nat
  BY WordPlaces
<1>2. c \in W /\ 0 < c /\ \A z \in W : z < c => z <= 0
  <2>1. \A z \in W : z \in Int /\ c \in Int /\ ~(z < c)
    BY <1>1
  <2>2. c \in 1 .. Len(ln)
    BY <1>1
  <2>. QED  BY <2>1, <2>2
<1>3. N!Rank(W, c) = N!Rank(W, 0) + 1
  <2>. DEFINE o == 0
  <2>1. o \in Int /\ o < c /\ \A z \in W : z < c => z <= o
    BY <1>2
  <2>. HIDE DEF W, o
  <2>2. N!Rank(W, c) = N!Rank(W, o) + 1
    BY <1>1, <1>2, <2>1, RankNext
  <2>. QED  BY <2>2 DEF o
<1>4. N!Rank(W, 0) = 0
  <2>. HIDE DEF W
  <2>. QED  BY <1>1, RankNone
<1>5. N!Rank(W, c) = 1
  BY <1>3, <1>4
<1>6. ln[c] \in CASE N!Rank(W, c) = 1 -> N!Whole \cup {"real", "word"}
                     [] N!Rank(W, c) \in {2, 3} -> N!Whole \cup {"real"}
                     [] OTHER -> N!Whole
  BY DEF N!IsRecord
<1>. HIDE DEF W
<1>7. ln[c] \in N!Whole \cup {"real", "word"}
  BY <1>5, <1>6
<1>. QED  BY <1>5, <1>7 DEF W

(* A line that starts with another word than a record does is none.        *)
LEMMA NoRecord ==
  ASSUME NEW ln \in Seq(N!Word), NEW width, ln # << >>, ln[1] \in {"#", "NODES", "EOF"}
  PROVE  ~N!IsRecord(ln, width) /\ 1 \in N!WordsOf(ln)
<1>1. 1 \in 1 .. Len(ln)
  <2>1. Len(ln) \in Nat \ {0}
    BY EmptySeq
  <2>. QED  BY <2>1
<1>2. 1 \in N!WordsOf(ln)
  BY <1>1, WordPlaces DEF N!WordsOf
<1>3. \A e \in N!WordsOf(ln) : 1 <= e
  <2>1. \A e \in 1 .. Len(ln) : 1 <= e
    OBVIOUS
  <2>. QED  BY <2>1, WordPlaces
<1>4. ln[1] \notin N!Whole \cup {"real", "word"}
  BY DEF N!Whole
<1>. QED  BY <1>2, <1>3, <1>4, RecordStart

(* A line of one tag.                                                      *)
LEMMA TagLine ==
  ASSUME NEW tag, NEW ln, ln = <<tag>>
  PROVE  ln # << >> /\ ln[1] = tag /\ Len(ln) = 1
OBVIOUS

(* Where the records of a well-formed file are: behind NODES, before EOF,  *)
(* and every line there is one or a comment.                               *)
LEMMA ShapeFacts ==
  ASSUME lines \in Seq(Seq(N!Word)), NEW width, NEW first, NEW last, Shaped(width, first, last)
  PROVE  /\ Len(lines) \in Nat /\ DOMAIN lines = 1 .. Len(lines)
         /\ \A x \in 1 .. Len(lines) : lines[x] \in Seq(N!Word)
         /\ first \in 1 .. Len(lines) /\ last \in 1 .. Len(lines) /\ first + 1 < last
         /\ lines[first] = <<"NODES">> /\ lines[last] = <<"EOF">>
         /\ \A x \in 1 .. first - 1 : N!IsComment(lines[x])
         /\ \A x \in first + 1 .. last - 1 : N!IsComment(lines[x]) \/ x \in N!Records(width)
         /\ N!Records(width) \subseteq first + 1 .. last - 1
         /\ first + 1 \in N!Records(width) /\ Len(lines[first + 1]) = width
         /\ \A x \in N!Records(width) : N!IsRecord(lines[x], width)
<1>1. Len(lines) \in Nat /\ DOMAIN lines = 1 .. Len(lines)
  BY LenProperties
<1>2. \A x \in 1 .. Len(lines) : lines[x] \in Seq(N!Word)
  BY ElementOfSeq
<1>3. /\ first \in 1 .. Len(lines) /\ last \in 1 .. Len(lines)
      /\ lines[first] = <<"NODES">> /\ lines[last] = <<"EOF">>
  BY <1>1 DEF Shaped, N!Tags
<1>4. /\ first + 1 < last
      /\ \A x \in 1 .. first - 1 : N!IsComment(lines[x])
      /\ \A x \in first + 1 .. last - 1 : N!IsComment(lines[x]) \/ N!IsRecord(lines[x], width)
      /\ N!IsRecord(lines[first + 1], width) /\ Len(lines[first + 1]) = width
  BY DEF Shaped, N!Between
<1>5. ASSUME NEW x \in 1 .. Len(lines), N!IsComment(lines[x])
      PROVE  lines[x] # << >> /\ lines[x][1] = "#" /\ ~N!IsRecord(lines[x], width)
  <2>1. lines[x] # << >> /\ lines[x][1] = "#"
    BY <1>5 DEF N!IsComment
  <2>. QED  BY <2>1, <1>2, NoRecord
<1>6. ASSUME NEW x \in 1 .. Len(lines), lines[x] = <<"NODES">> \/ lines[x] = <<"EOF">>
      PROVE  ~N!IsRecord(lines[x], width) /\ ~N!IsComment(lines[x])
  <2>1. lines[x] # << >> /\ lines[x][1] \in {"NODES", "EOF"}
    BY <1>6, TagLine
  <2>2. ~N!IsRecord(lines[x], width)
    BY <2>1, <1>2, NoRecord
  <2>. QED  BY <2>1, <2>2 DEF N!IsComment
<1>7. ASSUME NEW y \in N!Tags("EOF") PROVE last <= y
  <2>1. y \in 1 .. Len(lines) /\ lines[y] = <<"EOF">>
    BY <1>1 DEF N!Tags
  <2>2. ~N!IsRecord(lines[y], width) /\ ~N!IsComment(lines[y])
    BY <2>1, <1>6
  <2>3. y # first
    <3>1. <<"NODES">>[1] # <<"EOF">>[1]
      OBVIOUS
    <3>. QED  BY <3>1, <2>1, <1>3
  <2>4. y \notin 1 .. first - 1 /\ y \notin first + 1 .. last - 1
    BY <2>2, <1>4
  <2>. QED  BY <2>1, <2>3, <2>4, <1>3
<1>8. ASSUME NEW x \in N!Records(width)
      PROVE  x \in first + 1 .. last - 1 /\ N!IsRecord(lines[x], width)
  <2>1. x \in 1 .. Len(lines) /\ N!IsRecord(lines[x], width) /\ \A y \in N!Tags("EOF") : x < y
    BY <1>1, <1>8 DEF N!Records
  <2>2. last \in N!Tags("EOF")
    BY DEF Shaped
  <2>3. x < last
    BY <2>1, <2>2
  <2>4. x # first
    BY <2>1, <1>3, <1>6
  <2>5. x \notin 1 .. first - 1
    <3>1. \A z \in 1 .. first - 1 : z \in 1 .. Len(lines)
      BY <1>1, <1>3
    <3>. QED  BY <3>1, <2>1, <1>4, <1>5
  <2>. QED  BY <2>1, <2>3, <2>4, <2>5, <1>3
<1>9. ASSUME NEW x \in first + 1 .. last - 1, N!IsRecord(lines[x], width)
      PROVE  x \in N!Records(width)
  <2>1. x \in 1 .. Len(lines) /\ x < last
    BY <1>1, <1>3
  <2>2. \A y \in N!Tags("EOF") : y \in 1 .. Len(lines)
    BY <1>1 DEF N!Tags
  <2>3. \A y \in N!Tags("EOF") : x < y
    BY <2>1, <2>2, <1>3, <1>7
  <2>. QED  BY <2>1, <2>3, <1>1, <1>9 DEF N!Records
<1>10. first + 1 \in N!Records(width)
  <2>1. first + 1 \in first + 1 .. last - 1
    BY <1>3, <1>4
  <2>. QED  BY <2>1, <1>4, <1>9
<1>11. N!Records(width) \subseteq first + 1 .. last - 1
  BY <1>8
<1>12. \A x \in first + 1 .. last - 1 : N!IsComment(lines[x]) \/ x \in N!Records(width)
  BY <1>4, <1>9
<1>13. \A x \in N!Records(width) : N!IsRecord(lines[x], width)
  BY <1>8
<1>. QED  BY <1>1, <1>2, <1>3, <1>4, <1>10, <1>11, <1>12, <1>13

-----------------------------------------------------------------------------
(* The file does not change while it is read.                              *)
LEMMA SameFile ==
  ASSUME lines' = lines
  PROVE  /\ \A width : N!Records(width)' = N!Records(width)
         /\ \A width, first, last : Shaped(width, first, last)' <=> Shaped(width, first, last)
BY DEF N!Records, Shaped, N!Tags, N!Between

LEMMA SameNodes ==
  ASSUME lines' = lines, nodes' = nodes, NEW width, NEW d, NodesUpTo(width, d)
  PROVE  NodesUpTo(width, d)'
<1>1. N!Records(width)' = N!Records(width)
  BY SameFile
<1>. QED  BY <1>1 DEF NodesUpTo

(* A line that is no record adds no node.                                  *)
LEMMA SkipLine ==
  ASSUME NEW width, NEW n \in Nat, N!Records(width) \subseteq 1 .. n, NEW d \in Int,
         d + 1 \notin N!Records(width), NodesUpTo(width, d)
  PROVE  NodesUpTo(width, d + 1)
<1>. DEFINE R == N!Records(width)
<1>1. \A z \in R : z <= d + 1 => z <= d
  OBVIOUS
<1>2. N!Rank(R, d + 1) = N!Rank(R, d)
  <2>1. R \subseteq Int /\ d <= d + 1 /\ d + 1 \in Int
    OBVIOUS
  <2>. HIDE DEF R
  <2>. QED  BY <1>1, <2>1, RankStays
<1>. QED  BY <1>1, <1>2 DEF NodesUpTo

(* Behind the lines that are done with comes the first word of the next.   *)
LEMMA LineNext ==
  ASSUME NEW d \in Int, Behind(d), point = FALSE, Len(lines) \in Nat, d + 1 \in 1 .. Len(lines),
         lines[d + 1] \in Seq(N!Word), N!WordsOf(lines[d + 1]) # {}
  PROVE  \E c \in N!WordsOf(lines[d + 1]) :
           /\ \A e \in N!WordsOf(lines[d + 1]) : c <= e
           /\ N!NextRow = d + 1 /\ N!NextCol = c /\ N!NextWord = lines[d + 1][c]
<1>. DEFINE W == N!WordsOf(lines[d + 1])
<1>1. W \subseteq Nat /\ W # {} /\ \A c \in W : 1 <= c
  BY WordPlaces
<1>2. N!WordsAhead(d + 1) = W
  <2>1. row = d + 1 => \A c \in W : col <= c
    BY <1>1 DEF Behind
  <2>. QED  BY <2>1 DEF N!WordsAhead, N!WordsOf
<1>3. row \in Int /\ d + 1 \in row .. Len(lines)
  BY DEF Behind
<1>4. \A s \in row .. (d + 1) - 1 : N!WordsAhead(s) = {}
  BY DEF Behind
<1>5. PICK c \in W : \A e \in W : c <= e
  <2>. HIDE DEF W
  <2>. QED  BY <1>1, LeastNat
<1>6. \A e \in N!WordsAhead(d + 1) : e \in Int /\ c <= e
  BY <1>1, <1>2, <1>5
<1>7. N!NextRow = d + 1 /\ N!NextCol = c /\ N!NextWord = lines[d + 1][c]
  <2>1. c \in N!WordsAhead(d + 1)
    BY <1>2
  <2>. HIDE DEF W
  <2>. QED  BY <1>3, <1>4, <1>6, <2>1, NextWordIs
<1>. QED  BY <1>5, <1>7

(* Of a comment or a tag that is the mark or the tag.                      *)
LEMMA MarkNext ==
  ASSUME NEW d \in Int, Behind(d), point = FALSE, Len(lines) \in Nat, d + 1 \in 1 .. Len(lines),
         lines[d + 1] \in Seq(N!Word), lines[d + 1] # << >>,
         lines[d + 1][1] \in {"#", "NODES", "EOF"}
  PROVE  N!NextRow = d + 1 /\ N!NextCol = 1 /\ N!NextWord = lines[d + 1][1]
<1>. DEFINE W == N!WordsOf(lines[d + 1])
<1>1. 1 \in W
  BY NoRecord
<1>2. PICK c \in W : /\ \A e \in W : c <= e
                     /\ N!NextRow = d + 1 /\ N!NextCol = c /\ N!NextWord = lines[d + 1][c]
  BY <1>1, LineNext
<1>3. c <= 1 /\ c \in Int /\ 1 <= c
  <2>1. c \in 1 .. Len(lines[d + 1])
    BY WordPlaces
  <2>. QED  BY <1>1, <1>2, <2>1
<1>4. c = 1
  BY <1>3
<1>. QED  BY <1>2, <1>4

-----------------------------------------------------------------------------
Typeset == lines \in Seq(Seq(N!Word))

(* The header: comments up to NODES.                                       *)
LEMMA HeaderStep ==
  ASSUME Typeset, NEW width, NEW first, NEW last, Shaped(width, first, last),
         Reading(width, first, last), N!ReadHeader
  PROVE  Reading(width, first, last)'
<1>1. /\ Len(lines) \in Nat /\ \A x \in 1 .. Len(lines) : lines[x] \in Seq(N!Word)
      /\ first \in 1 .. Len(lines) /\ last \in 1 .. Len(lines) /\ first + 1 < last
      /\ lines[first] = <<"NODES">> /\ \A x \in 1 .. first - 1 : N!IsComment(lines[x])
  BY ShapeFacts DEF Typeset
<1>2. /\ phase = "header" /\ lines' = lines /\ full' = full /\ numbers' = numbers /\ nodes' = nodes
      /\ row \in 1 .. first /\ col = 1 /\ point = FALSE /\ nodes = << >> /\ numbers = << >>
  BY DEF N!ReadHeader, Reading
<1>3. row \in Int /\ row - 1 \in Int /\ (row - 1) + 1 = row /\ row \in 1 .. Len(lines) /\ Behind(row - 1)
  BY <1>1, <1>2 DEF Behind
<1>4. CASE row < first
  <2>1. lines[row] # << >> /\ lines[row][1] = "#"
    <3>1. row \in 1 .. first - 1
      BY <1>1, <1>2, <1>4
    <3>. QED  BY <1>1, <3>1 DEF N!IsComment
  <2>2. N!NextRow = row /\ N!NextWord = "#"
    BY <1>1, <1>2, <1>3, <2>1, MarkNext
  <2>3. N!TakeLine /\ phase' = IF stream' = "eof" THEN "error" ELSE "header"
    BY <2>2 DEF N!ReadHeader
  <2>4. row' = row + 1 /\ col' = 1 /\ point' = FALSE /\ stream' = "good" /\ phase' = "header"
    <3>1. row # Len(lines)
      BY <1>1, <1>4
    <3>. QED  BY <2>2, <2>3, <3>1 DEF N!TakeLine
  <2>5. row' \in 1 .. first
    BY <1>1, <1>2, <1>4, <2>4
  <2>. QED  BY <1>2, <2>4, <2>5 DEF Reading
<1>5. CASE row = first
  <2>1. lines[row] # << >> /\ lines[row][1] = "NODES"
    BY <1>1, <1>5, TagLine
  <2>2. N!NextRow = row /\ N!NextCol = 1 /\ N!NextWord = "NODES"
    BY <1>1, <1>2, <1>3, <2>1, MarkNext
  <2>3. N!TakeWord /\ phase' = IF N!NextWord = "NODES" /\ stream' = "good" THEN "format" ELSE "error"
    BY <2>2 DEF N!ReadHeader
  <2>4. row' = first /\ col' = 2 /\ point' = FALSE /\ stream' = "good"
    <3>1. first # Len(lines)
      BY <1>1
    <3>. QED  BY <1>5, <2>2, <2>3, <3>1 DEF N!TakeWord
  <2>5. phase' = "format"
    BY <2>2, <2>3, <2>4
  <2>. QED  BY <1>2, <2>4, <2>5 DEF Reading
<1>. QED  BY <1>1, <1>2, <1>4, <1>5

(* The guess: the line below NODES is a record without superfluous blanks. *)
LEMMA FormatStep ==
  ASSUME Typeset, NEW width \in {3, 7}, NEW first, NEW last, Shaped(width, first, last),
         Reading(width, first, last), N!DecideFormat
  PROVE  Reading(width, first, last)'
<1>1. /\ Len(lines) \in Nat
      /\ first \in 1 .. Len(lines) /\ last \in 1 .. Len(lines) /\ first + 1 < last
      /\ lines[first] = <<"NODES">> /\ Len(lines[first + 1]) = width
      /\ N!Records(width) \subseteq first + 1 .. last - 1
  BY ShapeFacts DEF Typeset
<1>2. /\ phase = "format" /\ lines' = lines /\ row' = row /\ col' = col /\ point' = point
      /\ numbers' = numbers /\ nodes' = nodes
      /\ row = first /\ col = 2 /\ point = FALSE /\ nodes = << >> /\ numbers = << >>
  BY DEF N!DecideFormat, N!place, Reading
<1>3. row < Len(lines)
  BY <1>1, <1>2
<1>4. N!WordsBelow = width
  <2>1. lines[row + 1] # << >>
    BY <1>1, <1>2
  <2>. QED  BY <1>1, <1>2, <1>3, <2>1 DEF N!WordsBelow, N!CountWords
<1>5. phase' = "records" /\ full' = (IF width = 3 THEN 1 ELSE 2) /\ stream' = "good"
  BY <1>3, <1>4 DEF N!DecideFormat, N!Format
<1>6. Behind(first)'
  <2>1. \A c \in DOMAIN lines[first] : c = 1
    BY <1>1
  <2>2. \A c \in DOMAIN lines'[first] : ~(col' <= c)
    BY <1>2, <2>1
  <2>3. (N!WordsAhead(first))' = {}
    BY <1>2, <2>2 DEF N!WordsAhead
  <2>. QED  BY <1>2, <2>3 DEF Behind
<1>7. NodesUpTo(width, first)
  <2>. DEFINE R == N!Records(width)
  <2>1. R \subseteq 1 .. Len(lines)
    BY <1>1
  <2>2. \A z \in R : ~(z <= first)
    BY <1>1
  <2>3. R \subseteq Int /\ 0 \in Int /\ first \in Int /\ 0 <= first
    BY <1>1
  <2>4. N!Rank(R, first) = N!Rank(R, 0) /\ N!Rank(R, 0) = 0
    <3>. DEFINE o == 0
    <3>. HIDE DEF R
    <3>1. N!Rank(R, 0) = 0
      BY <1>1, <2>1, RankNone
    <3>2. o \in Int /\ o <= first /\ \A z \in R : z <= first => z <= o
      BY <2>2, <2>3
    <3>. HIDE DEF o
    <3>3. N!Rank(R, first) = N!Rank(R, o)
      BY <2>3, <3>2, RankStays
    <3>. QED  BY <3>1, <3>3 DEF o
  <2>. QED  BY <1>2, <2>2, <2>4 DEF NodesUpTo
<1>8. NodesUpTo(width, first)'
  BY <1>2, <1>7, SameNodes
<1>9. first \in first .. last - 1
  BY <1>1
<1>. QED  BY <1>2, <1>5, <1>6, <1>8, <1>9 DEF Reading

(* A round of the loop over records: what the next line is decides.        *)
LEMMA RecordStep ==
  ASSUME Typeset, NEW width \in {3, 7}, NEW first, NEW last, Shaped(width, first, last),
         Reading(width, first, last), N!ReadRecord
  PROVE  Reading(width, first, last)'
<1>. DEFINE R == N!Records(width)
<1>1. /\ Len(lines) \in Nat /\ \A x \in 1 .. Len(lines) : lines[x] \in Seq(N!Word)
      /\ first \in 1 .. Len(lines) /\ last \in 1 .. Len(lines) /\ first + 1 < last
      /\ lines[last] = <<"EOF">>
      /\ \A x \in first + 1 .. last - 1 : N!IsComment(lines[x]) \/ x \in R
      /\ R \subseteq first + 1 .. last - 1 /\ \A x \in R : N!IsRecord(lines[x], width)
  BY ShapeFacts DEF Typeset
<1>2. /\ phase = "records" /\ lines' = lines /\ full' = full /\ numbers' = numbers /\ nodes' = nodes
      /\ stream = "good" /\ point = FALSE /\ numbers = << >>
      /\ full = IF width = 3 THEN 1 ELSE 2
  BY DEF N!ReadRecord, Reading
<1>3. PICK d \in first .. last - 1 : Behind(d) /\ NodesUpTo(width, d)
  BY <1>2 DEF Reading
<1>4. d \in Int /\ d + 1 \in 1 .. Len(lines) /\ d + 1 \in first + 1 .. last
  BY <1>1
<1>5. R \subseteq 1 .. Len(lines)
  BY <1>1
<1>6. R' = R
  BY <1>2, SameFile
<1>. HIDE DEF R
<1>7. CASE d + 1 = last
  <2>1. lines[d + 1] # << >> /\ lines[d + 1][1] = "EOF"
    BY <1>1, <1>7, TagLine
  <2>2. N!NextWord = "EOF"
    BY <1>1, <1>2, <1>3, <1>4, <2>1, MarkNext
  <2>3. phase' = "ok" /\ UNCHANGED <<row, col, point, stream>>
    BY <1>2, <2>2 DEF N!ReadRecord, N!place
  <2>4. NodesUpTo(width, last)
    <3>1. d + 1 \notin R
      BY <1>1, <1>7
    <3>. QED  BY <1>1, <1>3, <1>4, <1>5, <1>7, <3>1, SkipLine DEF R
  <2>5. NodesUpTo(width, last)'
    BY <1>2, <2>4, SameNodes
  <2>. QED  BY <1>2, <2>3, <2>5 DEF Reading
<1>8. CASE d + 1 # last /\ d + 1 \notin R
  <2>1. d + 1 \in first + 1 .. last - 1 /\ d + 1 # Len(lines) /\ d + 1 \in first .. last - 1
    BY <1>1, <1>4, <1>8
  <2>2. lines[d + 1] # << >> /\ lines[d + 1][1] = "#"
    BY <1>1, <1>8, <2>1 DEF N!IsComment
  <2>3. N!NextRow = d + 1 /\ N!NextWord = "#"
    BY <1>1, <1>2, <1>3, <1>4, <2>2, MarkNext
  <2>4. N!TakeLine /\ phase' = IF stream' = "eof" THEN "error" ELSE "records"
    BY <1>2, <2>3 DEF N!ReadRecord
  <2>5. row' = (d + 1) + 1 /\ col' = 1 /\ point' = FALSE /\ stream' = "good" /\ phase' = "records"
    BY <2>1, <2>3, <2>4 DEF N!TakeLine
  <2>6. NodesUpTo(width, d + 1)
    BY <1>1, <1>3, <1>4, <1>5, <1>8, SkipLine DEF R
  <2>7. NodesUpTo(width, d + 1)'
    BY <1>2, <2>6, SameNodes
  <2>8. Behind(d + 1)'
    BY <2>5 DEF Behind
  <2>. QED  BY <1>2, <2>1, <2>5, <2>7, <2>8 DEF Reading
<1>9. CASE d + 1 \in R
  <2>. DEFINE W == N!WordsOf(lines[d + 1])
  <2>1. d + 1 \in first + 1 .. last - 1 /\ d + 1 # Len(lines) /\ d \in first .. last - 2
    BY <1>1, <1>4, <1>9
  <2>2. N!IsRecord(lines[d + 1], width) /\ lines[d + 1] \in Seq(N!Word)
    BY <1>1, <1>4, <1>9
  <2>3. W # {}
    <3>1. Cardinality(W) = width
      BY <2>2, SameCardinality DEF N!IsRecord
    <3>2. Cardinality({}) = 0
      BY FS_EmptySet
    <3>. QED  BY <3>1, <3>2
  <2>4. PICK c \in W : /\ \A e \in W : c <= e
                       /\ N!NextRow = d + 1 /\ N!NextCol = c /\ N!NextWord = lines[d + 1][c]
    BY <1>1, <1>2, <1>3, <1>4, <2>2, <2>3, LineNext
  <2>5. lines[d + 1][c] \in N!Whole \cup {"real", "word"} /\ N!Rank(W, c) = 1
    BY <2>2, <2>4, RecordStart
  <2>6. N!TakeWord /\ phase' = "fields"
    <3>1. N!NextWord \notin {"none", "EOF", "#"}
      BY <2>4, <2>5 DEF N!Whole
    <3>. QED  BY <1>2, <3>1 DEF N!ReadRecord
  <2>7. c \in Nat
    BY <2>2, WordPlaces
  <2>8. row' = d + 1 /\ col' = c + 1 /\ point' = FALSE /\ stream' = "good"
    BY <2>1, <2>4, <2>6 DEF N!TakeWord
  <2>9. PartlyRead(width)'
    <3>1. W' = N!WordsOf(lines'[row'])
      BY <1>2, <2>8
    <3>2. numbers' = << >> /\ Len(numbers') = 0 /\ numbers' \in Seq(N!Number)
      BY <1>2
    <3>3. N!WordsOf(lines'[row']) = W /\ col' - 1 = c /\ col' \in Nat
      BY <1>2, <2>7, <2>8
    <3>4. Len(numbers') + 1 = N!Rank(N!WordsOf(lines'[row']), col' - 1) /\ Len(numbers') < width
      BY <2>5, <3>2, <3>3
    <3>. QED  BY <3>2, <3>3, <3>4 DEF PartlyRead
  <2>10. NodesUpTo(width, d)'
    BY <1>2, <1>3, SameNodes
  <2>11. row' = d + 1 /\ row' \in N!Records(width)'
    BY <1>6, <1>9, <2>8 DEF R
  <2>. QED  BY <1>2, <2>1, <2>6, <2>8, <2>9, <2>10, <2>11 DEF Reading
<1>. QED  BY <1>7, <1>8, <1>9

(* What is ahead of a record that is read in part: its next word.          *)
LEMMA FieldNext ==
  ASSUME Typeset, NEW width \in {3, 7}, row \in 1 .. Len(lines), Len(lines) \in Nat,
         lines[row] \in Seq(N!Word), N!IsRecord(lines[row], width), PartlyRead(width),
         Len(numbers) + 1 < width, point = FALSE
  PROVE  \E c \in N!WordsOf(lines[row]) :
           /\ N!NextRow = row /\ N!NextCol = c /\ N!NextWord = lines[row][c]
           /\ N!Rank(N!WordsOf(lines[row]), c) = Len(numbers) + 2
<1>. DEFINE W == N!WordsOf(lines[row])
            Q == {c \in W : col <= c}
<1>1. /\ col \in Nat /\ Len(numbers) \in Nat /\ Len(numbers) + 1 = N!Rank(W, col - 1)
  BY LenProperties DEF PartlyRead
<1>2. Cardinality(W) = width
  BY SameCardinality DEF N!IsRecord
<1>3. W \subseteq 1 .. Len(lines[row]) /\ Len(lines[row]) \in Nat /\ W \subseteq Nat
  BY WordPlaces
<1>4. Q # {} /\ Q \subseteq Nat
  <2>1. N!Rank(W, col - 1) # Cardinality(W) /\ col - 1 \in Int
    BY <1>1, <1>2
  <2>2. ~(\A z \in W : z <= col - 1)
    <3>. HIDE DEF W, Q
    <3>. QED  BY <1>3, <2>1, RankAll
  <2>3. \E z \in W : col <= z
    BY <1>1, <1>3, <2>2
  <2>. QED  BY <1>3, <2>3
<1>5. PICK c \in Q : \A e \in Q : c <= e
  <2>. HIDE DEF W, Q
  <2>. QED  BY <1>4, LeastNat
<1>6. c \in W /\ col - 1 < c /\ c \in Nat /\ \A z \in W : z < c => z <= col - 1
  <2>1. c \in W /\ col <= c /\ c \in Nat
    BY <1>3
  <2>2. ASSUME NEW z \in W, z < c PROVE z <= col - 1
    <3>1. z \notin Q
      BY <2>1, <2>2, <1>3, <1>5
    <3>. QED  BY <3>1, <1>1, <1>3
  <2>. QED  BY <2>1, <2>2, <1>1
<1>7. N!Rank(W, c) = N!Rank(W, col - 1) + 1
  <2>1. col - 1 \in Int
    BY <1>1
  <2>. HIDE DEF W, Q
  <2>. QED  BY <1>3, <1>6, <2>1, RankNext
<1>8. N!WordsAhead(row) = Q
  BY DEF N!WordsAhead, N!WordsOf
<1>9. N!NextRow = row /\ N!NextCol = c /\ N!NextWord = lines[row][c]
  <2>1. row \in Int /\ row \in row .. Len(lines) /\ \A s \in row .. row - 1 : N!WordsAhead(s) = {}
    OBVIOUS
  <2>2. \A e \in N!WordsAhead(row) : e \in Int /\ c <= e
    BY <1>4, <1>5, <1>8
  <2>3. c \in N!WordsAhead(row)
    BY <1>8
  <2>. HIDE DEF W, Q
  <2>. QED  BY <2>1, <2>2, <2>3, NextWordIs
<1>10. N!Rank(W, c) = Len(numbers) + 2
  BY <1>1, <1>7
<1>. QED  BY <1>6, <1>9, <1>10

(* A word of a record is a number that its field can take.                 *)
LEMMA FieldStep ==
  ASSUME Typeset, NEW width \in {3, 7}, NEW first, NEW last, Shaped(width, first, last),
         Reading(width, first, last), N!ReadNumber
  PROVE  Reading(width, first, last)'
<1>. DEFINE R == N!Records(width)
            W == N!WordsOf(lines[row])
            k == Len(numbers) + 1
<1>1. /\ Len(lines) \in Nat /\ \A x \in 1 .. Len(lines) : lines[x] \in Seq(N!Word)
      /\ first \in 1 .. Len(lines) /\ last \in 1 .. Len(lines) /\ first + 1 < last
      /\ R \subseteq first + 1 .. last - 1 /\ \A x \in R : N!IsRecord(lines[x], width)
  BY ShapeFacts DEF Typeset
<1>2. /\ phase = "fields" /\ phase' = "fields" /\ lines' = lines /\ full' = full /\ nodes' = nodes
      /\ stream = "good" /\ point = FALSE /\ Len(numbers) < Len(N!Fields)
      /\ full = IF width = 3 THEN 1 ELSE 2
  BY DEF N!ReadNumber, Reading
<1>3. PICK d \in first .. last - 2 :
        row = d + 1 /\ row \in R /\ NodesUpTo(width, d) /\ PartlyRead(width)
  BY <1>2 DEF Reading
<1>4. row \in 1 .. Len(lines) /\ row # Len(lines) /\ lines[row] \in Seq(N!Word)
      /\ N!IsRecord(lines[row], width)
  BY <1>1, <1>3
<1>5. /\ numbers \in Seq(N!Number) /\ Len(numbers) \in Nat /\ k \in Nat /\ k < width
      /\ N!Fields[k] = (IF k <= 2 THEN "double" ELSE "int") /\ k >= 1
  <2>1. numbers \in Seq(N!Number) /\ Len(numbers) \in Nat
    BY <1>3, LenProperties DEF PartlyRead
  <2>2. CASE width = 3
    <3>1. N!Fields = <<"double", "double">>
      BY <1>2, <2>2 DEF N!Fields
    <3>2. Len(N!Fields) = 2 /\ N!Fields[1] = "double" /\ N!Fields[2] = "double"
      BY <3>1
    <3>3. k = 1 \/ k = 2
      BY <1>2, <2>1, <3>2
    <3>. QED  BY <2>1, <2>2, <3>2, <3>3
  <2>3. CASE width = 7
    <3>1. N!Fields = <<"double", "double", "int", "int", "int", "int">>
      BY <1>2, <2>3 DEF N!Fields
    <3>2. /\ Len(N!Fields) = 6 /\ N!Fields[1] = "double" /\ N!Fields[2] = "double"
          /\ N!Fields[3] = "int" /\ N!Fields[4] = "int" /\ N!Fields[5] = "int" /\ N!Fields[6] = "int"
      BY <3>1
    <3>3. k \in {1, 2, 3, 4, 5, 6}
      BY <1>2, <2>1, <3>2
    <3>. QED  BY <2>1, <2>3, <3>2, <3>3
  <2>. QED  BY <2>2, <2>3
<1>6. PICK c \in W :
        /\ N!NextRow = row /\ N!NextCol = c /\ N!NextWord = lines[row][c]
        /\ N!Rank(W, c) = Len(numbers) + 2
  BY <1>2, <1>3, <1>4, <1>1, <1>5, FieldNext
<1>. DEFINE word == lines[row][c]
<1>7. word \in N!Whole \cup {"real"} /\ (k > 2 => word \in N!Whole)
  <2>1. word \in CASE N!Rank(W, c) = 1 -> N!Whole \cup {"real", "word"}
                   [] N!Rank(W, c) \in {2, 3} -> N!Whole \cup {"real"}
                   [] OTHER -> N!Whole
    BY <1>4 DEF N!IsRecord
  <2>2. N!Rank(W, c) = k + 1 /\ k + 1 # 1 /\ (k > 2 => k + 1 \notin {2, 3})
    BY <1>5, <1>6
  <2>. HIDE DEF W, k
  <2>3. CASE k > 2
    BY <2>1, <2>2, <2>3
  <2>4. CASE ~(k > 2)
    BY <2>1, <2>2, <2>4
  <2>. QED  BY <2>3, <2>4
<1>8. N!TakeWord /\ numbers' = Append(numbers, word)
  <2>1. N!NextWord = word
    BY <1>6
  <2>2. ~(N!Fields[k] = "int" /\ word = "real")
    BY <1>5, <1>7 DEF N!Whole
  <2>3. ~(stream = "bad" \/ word \notin N!Number \/ (N!Fields[k] = "int" /\ word = "frac"))
    BY <1>2, <1>7 DEF N!Number, N!Whole
  <2>. HIDE DEF word
  <2>. QED  BY <2>1, <2>2, <2>3 DEF N!ReadNumber
<1>9. c \in Nat
  BY <1>4, WordPlaces
<1>10. row' = row /\ col' = c + 1 /\ point' = FALSE /\ stream' = "good"
  BY <1>4, <1>6, <1>8 DEF N!TakeWord
<1>11. /\ numbers' \in Seq(N!Number) /\ Len(numbers') = k
       /\ \A j \in 1 .. Len(numbers) : numbers'[j] = numbers[j]
       /\ numbers'[k] = word
  <2>1. word \in N!Number
    BY <1>7 DEF N!Number
  <2>. HIDE DEF word
  <2>. QED  BY <1>5, <1>8, <2>1, AppendProperties
<1>12. \A j \in 1 .. k : numbers'[j] = N!WordOf(lines[row], j + 1)
  <2>. TAKE j \in 1 .. k
  <2>1. CASE j = k
    <3>1. N!WordOf(lines[row], N!Rank(W, c)) = word
      BY <1>4, WordOfRank
    <3>2. N!Rank(W, c) = j + 1
      BY <1>5, <1>6, <2>1
    <3>. HIDE DEF W, word
    <3>. QED  BY <2>1, <3>1, <3>2, <1>11
  <2>2. CASE j # k
    <3>1. j \in 1 .. Len(numbers)
      BY <1>5, <2>2
    <3>. QED  BY <3>1, <1>3, <1>11 DEF PartlyRead
  <2>. QED  BY <2>1, <2>2
<1>13. PartlyRead(width)'
  <2>1. col' \in Nat /\ col' - 1 = c /\ lines'[row'] = lines[row]
    BY <1>2, <1>9, <1>10
  <2>2. Len(numbers') + 1 = N!Rank(W, c)
    BY <1>5, <1>6, <1>11
  <2>3. Len(numbers') + 1 = N!Rank(N!WordsOf(lines'[row']), col' - 1)
    BY <2>1, <2>2
  <2>4. \A j \in 1 .. Len(numbers') : numbers'[j] = N!WordOf(lines'[row'], j + 1)
    BY <2>1, <1>11, <1>12
  <2>. HIDE DEF W, k
  <2>. QED  BY <2>1, <2>3, <2>4, <1>5, <1>11 DEF PartlyRead
<1>14. NodesUpTo(width, d)'
  BY <1>2, <1>3, SameNodes
<1>15. row' = d + 1 /\ row' \in N!Records(width)'
  <2>1. R' = R
    BY <1>2, SameFile
  <2>. QED  BY <2>1, <1>3, <1>10
<1>. QED  BY <1>2, <1>10, <1>13, <1>14, <1>15 DEF Reading

(* The last word of a record is read: a node, with the numbers of it.      *)
LEMMA NodeStep ==
  ASSUME Typeset, NEW width \in {3, 7}, NEW first, NEW last, Shaped(width, first, last),
         Reading(width, first, last), Formed, N!AppendNode
  PROVE  Reading(width, first, last)'
<1>. DEFINE R == N!Records(width)
            W == N!WordsOf(lines[row])
            node == N!Node(Len(nodes), numbers)
<1>1. /\ Len(lines) \in Nat /\ \A x \in 1 .. Len(lines) : lines[x] \in Seq(N!Word)
      /\ first \in 1 .. Len(lines) /\ last \in 1 .. Len(lines) /\ first + 1 < last
      /\ R \subseteq first + 1 .. last - 1 /\ \A x \in R : N!IsRecord(lines[x], width)
  BY ShapeFacts DEF Typeset
<1>2. /\ phase = "fields" /\ lines' = lines /\ full' = full /\ stream' = stream
      /\ row' = row /\ col' = col /\ point' = point
      /\ stream = "good" /\ point = FALSE /\ Len(numbers) = Len(N!Fields) /\ numbers' = << >>
      /\ full = IF width = 3 THEN 1 ELSE 2
  BY DEF N!AppendNode, N!place, Reading
<1>3. PICK d \in first .. last - 2 :
        row = d + 1 /\ row \in R /\ NodesUpTo(width, d) /\ PartlyRead(width)
  BY <1>2 DEF Reading
<1>4. /\ row \in 1 .. Len(lines) /\ lines[row] \in Seq(N!Word) /\ N!IsRecord(lines[row], width)
      /\ d \in Int /\ d + 1 \in first .. last - 1
  BY <1>1, <1>3
<1>5. phase' = "records" /\ nodes' = Append(nodes, node)
  BY <1>2 DEF N!AppendNode
<1>6. numbers \in Seq(N!Number) /\ Len(numbers) = width - 1
  <2>1. numbers \in Seq(N!Number)
    BY <1>3 DEF PartlyRead
  <2>2. CASE width = 3
    BY <1>2, <2>1, <2>2 DEF N!Fields
  <2>3. CASE width = 7
    BY <1>2, <2>1, <2>3 DEF N!Fields
  <2>. QED  BY <2>1, <2>2, <2>3
<1>7. Behind(d + 1)'
  <2>1. /\ W \subseteq 1 .. Len(lines[row]) /\ Len(lines[row]) \in Nat
        /\ Cardinality(W) = width /\ col \in Nat
    BY <1>3, <1>4, WordPlaces, SameCardinality DEF N!IsRecord, PartlyRead
  <2>2. N!Rank(W, col - 1) = width
    BY <1>3, <1>6 DEF PartlyRead
  <2>3. col - 1 \in Int
    BY <2>1
  <2>4. \A z \in W : z <= col - 1
    <3>. HIDE DEF W
    <3>. QED  BY <2>1, <2>2, <2>3, RankAll
  <2>5. \A z \in W : ~(col <= z)
    BY <2>1, <2>4
  <2>6. N!WordsAhead(row) = {}
    BY <2>5 DEF N!WordsAhead, N!WordsOf
  <2>7. N!WordsAhead(d + 1)' = {}
    BY <1>2, <1>3, <2>6 DEF N!WordsAhead
  <2>. QED  BY <1>2, <1>3, <2>7 DEF Behind
<1>8. /\ nodes \in Seq(NodeRecord) /\ Len(nodes) \in Nat
      /\ Len(nodes') = Len(nodes) + 1
      /\ \A x \in 1 .. Len(nodes) : nodes'[x] = nodes[x]
      /\ nodes'[Len(nodes) + 1] = node
  <2>1. nodes \in Seq(NodeRecord) /\ Len(nodes) \in Nat
    BY LenProperties DEF Formed
  <2>2. node \in NodeRecord
    BY <2>1, FormedNode
  <2>. HIDE DEF node
  <2>. QED  BY <1>5, <2>1, <2>2, AppendProperties
<1>9. R \subseteq 1 .. Len(lines)
  BY <1>1
<1>10. /\ Len(nodes) = N!Rank(R, d)
       /\ \A x \in R : x <= d => nodes[N!Rank(R, x)] = N!Recorded(N!Rank(R, x) - 1, lines[x], width)
  BY <1>3 DEF NodesUpTo
<1>11. N!Rank(R, d + 1) = Len(nodes) + 1
  <2>1. d + 1 \in R /\ d < d + 1 /\ \A z \in R : z < d + 1 => z <= d
    BY <1>1, <1>3
  <2>. HIDE DEF R
  <2>. QED  BY <2>1, <1>1, <1>4, <1>9, <1>10, RankNext
<1>12. ASSUME NEW x \in R, x <= d PROVE N!Rank(R, x) \in 1 .. Len(nodes)
  <2>1. x \in Int /\ x - 1 \in Int /\ x - 1 < x /\ \A z \in R : z < x => z <= x - 1
    BY <1>9
  <2>. HIDE DEF R
  <2>2. N!Rank(R, x) = N!Rank(R, x - 1) + 1 /\ N!Rank(R, x - 1) \in Nat
    BY <2>1, <1>1, <1>9, RankNext, RankFacts
  <2>3. N!Rank(R, x) <= N!Rank(R, d) /\ N!Rank(R, x) \in Nat
    BY <2>1, <1>1, <1>4, <1>9, <1>12, RankGrows, RankFacts
  <2>. QED  BY <2>2, <2>3, <1>10
<1>13. node = N!Recorded(Len(nodes), lines[row], width)
  <2>1. \A j \in 1 .. Len(numbers) : numbers[j] = N!WordOf(lines[row], j + 1)
    BY <1>3 DEF PartlyRead
  <2>2. CASE width = 3
    BY <1>2, <2>2 DEF N!Node, N!Recorded
  <2>3. CASE width = 7
    <3>1. 5 \in 1 .. Len(numbers) /\ 6 \in 1 .. Len(numbers)
      BY <1>6, <2>3
    <3>2. numbers[5] = N!WordOf(lines[row], 6) /\ numbers[6] = N!WordOf(lines[row], 7)
      BY <2>1, <3>1
    <3>3. full = 2 /\ width # 3
      BY <1>2, <2>3
    <3>. QED  BY <3>2, <3>3 DEF N!Node, N!Recorded
  <2>. QED  BY <2>2, <2>3
<1>14. \A x \in R : x <= d + 1 =>
         nodes'[N!Rank(R, x)] = N!Recorded(N!Rank(R, x) - 1, lines[x], width)
  <2>. TAKE x \in R
  <2>. HAVE x <= d + 1
  <2>1. CASE x <= d
    BY <2>1, <1>8, <1>10, <1>12
  <2>2. CASE ~(x <= d)
    <3>1. x = d + 1 /\ x = row
      BY <2>2, <1>3, <1>4, <1>9
    <3>2. N!Rank(R, x) = Len(nodes) + 1 /\ N!Rank(R, x) - 1 = Len(nodes)
      BY <3>1, <1>8, <1>11
    <3>. HIDE DEF R, node
    <3>. QED  BY <3>1, <3>2, <1>8, <1>13
  <2>. QED  BY <2>1, <2>2
<1>15. NodesUpTo(width, d + 1)'
  <2>1. R' = R
    BY <1>2, SameFile
  <2>. HIDE DEF node
  <2>. QED  BY <2>1, <1>2, <1>8, <1>11, <1>14 DEF NodesUpTo
<1>. QED  BY <1>2, <1>4, <1>5, <1>7, <1>15 DEF Reading

(* A file that was just opened.                                            *)
LEMMA OpenStep ==
  ASSUME NEW file_ \in Seq(Seq(N!Word)), N!Open(file_),
         NEW width, NEW first, NEW last, Shaped(width, first, last)'
  PROVE  Reading(width, first, last)'
<1>1. first \in DOMAIN lines' /\ lines' = file_
  BY DEF Shaped, N!Tags, N!Open
<1>2. 1 \in 1 .. first
  <2>1. DOMAIN file_ = 1 .. Len(file_)
    BY LenProperties
  <2>. QED  BY <1>1, <2>1
<1>. QED  BY <1>2 DEF N!Open, Reading

(* Every step keeps what is known of the reading of a well-formed file.    *)
LEMMA WrittenStep == WrittenInv /\ Formed /\ [Next]_vars => WrittenInv'
<1>. SUFFICES ASSUME WrittenInv, Formed, [Next]_vars PROVE WrittenInv'
  OBVIOUS
<1>1. Typeset
  BY DEF WrittenInv, Typeset
<1>2. ASSUME UNCHANGED reader, full' = full PROVE WrittenInv'
  <2>1. /\ lines' = lines /\ row' = row /\ col' = col /\ point' = point /\ stream' = stream
        /\ numbers' = numbers /\ nodes' = nodes /\ phase' = phase /\ full' = full
    BY <1>2 DEF reader
  <2>2. ASSUME NEW width \in {3, 7}, NEW first \in DOMAIN lines', NEW last \in DOMAIN lines',
               Shaped(width, first, last)'
        PROVE  Reading(width, first, last)'
    <3>1. Shaped(width, first, last) /\ first \in DOMAIN lines /\ last \in DOMAIN lines
      BY <2>1, <2>2, SameFile
    <3>2. Reading(width, first, last)
      BY <3>1 DEF WrittenInv
    <3>3. \A d : NodesUpTo(width, d) => NodesUpTo(width, d)'
      BY <2>1, SameNodes
    <3>4. \A d : Behind(d) => Behind(d)'
      BY <2>1 DEF Behind, N!WordsAhead
    <3>5. PartlyRead(width) => PartlyRead(width)'
      BY <2>1 DEF PartlyRead
    <3>6. N!Records(width)' = N!Records(width)
      BY <2>1, SameFile
    <3>. QED  BY <2>1, <3>2, <3>3, <3>4, <3>5, <3>6 DEF Reading
  <2>. QED  BY <2>1, <2>2 DEF WrittenInv
<1>3. ASSUME phase' = "closed", lines' = << >> PROVE WrittenInv'
  <2>1. << >> \in Seq(Seq(N!Word)) /\ DOMAIN << >> = {}
    OBVIOUS
  <2>. QED  BY <1>3, <2>1 DEF WrittenInv
<1>4. CASE ReadLine
  <2>1. full' = full
    BY <1>4 DEF ReadLine
  <2>2. UNCHANGED reader \/ \E f \in Files : N!Open(f)
    <3>1. UNCHANGED reader \/ \E f \in (IF flaws' = 0 THEN Files ELSE PlainFiles) : N!Open(f)
      BY <1>4 DEF ReadLine
    <3>. QED  BY <3>1, LinesAssumption
  <2>3. ASSUME NEW f \in Files, N!Open(f) PROVE WrittenInv'
    <3>1. f \in Seq(Seq(N!Word))
      BY FilesAssumption
    <3>2. lines' = f
      BY <2>3 DEF N!Open
    <3>. QED  BY <2>3, <3>1, <3>2, OpenStep DEF WrittenInv
  <2>. QED  BY <2>1, <2>2, <2>3, <1>2
<1>5. CASE ReadNodeFile
  <2>1. N!Next
    BY <1>5 DEF ReadNodeFile
  <2>2. lines' = lines
    BY <2>1 DEF N!Next, N!ReadHeader, N!DecideFormat, N!ReadRecord, N!ReadNumber, N!AppendNode
  <2>3. ASSUME NEW width \in {3, 7}, NEW first \in DOMAIN lines', NEW last \in DOMAIN lines',
               Shaped(width, first, last)'
        PROVE  Reading(width, first, last)'
    <3>1. Shaped(width, first, last) /\ first \in DOMAIN lines /\ last \in DOMAIN lines
      BY <2>2, <2>3, SameFile
    <3>2. Reading(width, first, last)
      BY <3>1 DEF WrittenInv
    <3>. QED  BY <1>1, <2>1, <3>1, <3>2, HeaderStep, FormatStep, RecordStep, FieldStep, NodeStep
             DEF N!Next
  <2>. QED  BY <1>1, <2>2, <2>3 DEF WrittenInv, Typeset
<1>6. CASE CloseNodeFile
  BY <1>6, <1>3 DEF CloseNodeFile, Closed
<1>7. CASE ~(ReadLine \/ ReadNodeFile \/ CloseNodeFile)
  <2>1. UNCHANGED reader /\ full' = full
    BY <1>7 DEF Next, vars, reader, ReadParameters, LoseLine, UnknownTag, NoKeyword, ReadEof, CheckConfiguration,
           Distribute, Route, BuildPDPTW, BuildCVRP, Write
  <2>. QED  BY <2>1, <1>2
<1>. QED  BY <1>4, <1>5, <1>6, <1>7

(* A well-formed node file is read as it is written, whatever its length   *)
(* (read_node_file): a node for every record, in their order.              *)
THEOREM WrittenCorrect == Spec => []NodesAsWritten
<1>1. Init => WrittenInv
  <2>. SUFFICES ASSUME Init PROVE WrittenInv
    OBVIOUS
  <2>1. lines = << >>
    BY DEF Init
  <2>2. << >> \in Seq(Seq(N!Word)) /\ DOMAIN << >> = {}
    OBVIOUS
  <2>. QED  BY <2>1, <2>2 DEF WrittenInv
<1>2. Init => Formed
  BY FormedInit
<1>3. WrittenInv => NodesAsWritten
  <2>. SUFFICES ASSUME WrittenInv, NEW width \in {3, 7}, N!WellFormedAs(width)
                PROVE  /\ phase \notin {"error", "thrown"} /\ stream = "good"
                       /\ phase = "ok" =>
                            /\ full = IF width = 3 THEN 1 ELSE 2
                            /\ Len(nodes) = N!Cardinality(N!Records(width))
                            /\ \A x \in N!Records(width) :
                                 LET n == N!Rank(N!Records(width), x) IN
                                 nodes[n] = N!Recorded(n - 1, lines[x], width)
    BY DEF NodesAsWritten, N!NodesAsWritten
  <2>. DEFINE R == N!Records(width)
  <2>1. PICK first \in N!Tags("NODES"), last \in N!Tags("EOF") : N!Between(first, last, width)
    BY DEF N!WellFormedAs
  <2>2. Shaped(width, first, last) /\ first \in DOMAIN lines /\ last \in DOMAIN lines
    BY <2>1 DEF Shaped, N!Tags
  <2>3. Reading(width, first, last)
    BY <2>2 DEF WrittenInv
  <2>4. /\ Len(lines) \in Nat /\ last \in 1 .. Len(lines) /\ first \in 1 .. Len(lines)
        /\ R \subseteq first + 1 .. last - 1
    BY <2>2, ShapeFacts DEF WrittenInv
  <2>5. R \subseteq 1 .. Len(lines) /\ last \in Int /\ \A z \in R : z <= last
    BY <2>4
  <2>6. N!Rank(R, last) = N!Cardinality(R)
    <3>1. N!Rank(R, last) = Cardinality(R)
      <4>. HIDE DEF R
      <4>. QED  BY <2>4, <2>5, RankAll
    <3>. QED  BY <3>1, SameCardinality
  <2>7. CASE phase = "ok"
    <3>1. NodesUpTo(width, last) /\ full = (IF width = 3 THEN 1 ELSE 2) /\ stream = "good"
      BY <2>3, <2>7 DEF Reading
    <3>2. Len(nodes) = N!Cardinality(R)
      BY <2>6, <3>1 DEF NodesUpTo
    <3>3. \A x \in R : nodes[N!Rank(R, x)] = N!Recorded(N!Rank(R, x) - 1, lines[x], width)
      BY <2>5, <3>1 DEF NodesUpTo
    <3>. QED  BY <2>7, <3>1, <3>2, <3>3
  <2>8. CASE phase # "ok"
    BY <2>3, <2>8 DEF Reading
  <2>. QED  BY <2>7, <2>8
<1>. QED  BY <1>1, <1>2, <1>3, WrittenStep, FormedNext, PTL DEF Spec
-----------------------------------------------------------------------------
(* Where the stream stands; the next word, if there is one, is not before. *)
Standing == Typeset /\ row \in Nat \ {0} /\ col \in Nat

LEMMA NextIsAhead ==
  ASSUME Standing, N!NextWord # "none"
  PROVE  /\ N!NextRow \in Nat /\ N!NextCol \in Nat
         /\ row < N!NextRow \/ (row = N!NextRow /\ col <= N!NextCol)
<1>1. N!Ahead # {} /\ row \in Nat \ {0} /\ col \in Nat /\ Len(lines) \in Nat
  BY LenProperties DEF N!NextWord, Standing, Typeset
<1>2. ASSUME NEW q \in N!Ahead
      PROVE  /\ q = <<q[1], q[2]>> /\ q[1] \in Nat /\ q[2] \in Nat
             /\ row < q[1] \/ (row = q[1] /\ col <= q[2])
  <2>1. PICK r \in row .. Len(lines) : q \in {r} \X N!WordsAhead(r)
    BY DEF N!Ahead
  <2>2. q = <<q[1], q[2]>> /\ q[1] = r /\ q[2] \in N!WordsAhead(r)
    BY <2>1
  <2>3. q[2] \in DOMAIN lines[r] /\ (r = row => col <= q[2])
    BY <2>2 DEF N!WordsAhead
  <2>4. r \in 1 .. Len(lines)
    BY <1>1
  <2>5. lines[r] \in Seq(N!Word)
    BY <2>4, ElementOfSeq DEF Standing, Typeset
  <2>6. q[2] \in Nat
    BY <2>3, <2>5, WordPlaces
  <2>. QED  BY <1>1, <2>2, <2>3, <2>4, <2>6
<1>. DEFINE Rows    == {q[1] : q \in N!Ahead}
            Cols(r) == {d \in Nat : <<r, d>> \in N!Ahead}
            First(p) == \A q \in N!Ahead : p[1] < q[1] \/ (p[1] = q[1] /\ p[2] <= q[2])
<1>3. PICK r \in Rows : r \in Nat /\ \A s \in Rows : r <= s
  <2>1. Rows \subseteq Nat /\ Rows # {}
    BY <1>1, <1>2
  <2>. HIDE DEF Rows
  <2>. QED  BY <2>1, LeastNat
<1>4. PICK c \in Cols(r) : \A d \in Cols(r) : c <= d
  <2>1. Cols(r) \subseteq Nat /\ Cols(r) # {}
    BY <1>2, <1>3
  <2>. HIDE DEF Cols
  <2>. QED  BY <2>1, LeastNat
<1>5. First(<<r, c>>)
  <2>. SUFFICES ASSUME NEW q \in N!Ahead PROVE r < q[1] \/ (r = q[1] /\ c <= q[2])
    OBVIOUS
  <2>1. q = <<q[1], q[2]>> /\ q[1] \in Nat /\ q[2] \in Nat /\ r <= q[1]
    BY <1>2, <1>3
  <2>2. r = q[1] => c <= q[2]
    BY <2>1, <1>4
  <2>. QED  BY <2>1, <2>2, <1>3
<1>6. N!NextPlace \in N!Ahead
  <2>1. N!NextPlace = CHOOSE p \in N!Ahead : First(p)
    BY DEF N!NextPlace
  <2>2. <<r, c>> \in N!Ahead
    BY <1>4
  <2>. HIDE DEF First
  <2>. QED  BY <1>5, <2>1, <2>2
<1>. QED  BY <1>2, <1>6 DEF N!NextRow, N!NextCol

(* A word or a line that is taken lies ahead.                              *)
LEMMA Taking ==
  ASSUME Standing, N!NextWord # "none", N!TakeWord \/ N!TakeLine
  PROVE  N!MovesForward /\ row' \in Nat \ {0} /\ col' \in Nat
<1>1. /\ N!NextRow \in Nat /\ N!NextCol \in Nat /\ row \in Nat \ {0} /\ col \in Nat
      /\ row < N!NextRow \/ (row = N!NextRow /\ col <= N!NextCol)
  BY NextIsAhead DEF Standing
<1>2. CASE N!TakeWord
  <2>1. row' = N!NextRow /\ col' = N!NextCol + 1
    BY <1>2 DEF N!TakeWord
  <2>. QED  BY <1>1, <2>1 DEF N!MovesForward
<1>3. CASE N!TakeLine
  <2>1. row' = N!NextRow + 1 /\ col' = 1
    BY <1>3 DEF N!TakeLine
  <2>. QED  BY <1>1, <2>1 DEF N!MovesForward
<1>. QED  BY <1>2, <1>3

(* A step that does not move is the end of a record, or some read failed.  *)
LEMMA ReadMoves ==
  ASSUME Standing, N!Next
  PROVE  /\ row' \in Nat \ {0} /\ col' \in Nat
         /\ \/ N!MovesForward
            \/ point' = TRUE
            \/ /\ UNCHANGED <<row, col, point>>
               /\ \/ <<phase, phase'>> \in
                       {<<"format", "records">>, <<"fields", "records">>, <<"records", "ok">>}
                  \/ phase' \in {"error", "thrown"} \/ stream' # "good"
<1>1. row \in Nat \ {0} /\ col \in Nat
  BY DEF Standing
<1>2. CASE N!ReadHeader
  <2>1. CASE N!NextWord = "none"
    BY <1>1, <1>2, <2>1 DEF N!ReadHeader, N!place
  <2>2. CASE N!NextWord # "none"
    <3>1. N!TakeWord \/ N!TakeLine
      BY <1>2, <2>2 DEF N!ReadHeader
    <3>. QED  BY <2>2, <3>1, Taking
  <2>. QED  BY <2>1, <2>2
<1>3. CASE N!DecideFormat
  <2>1. UNCHANGED <<row, col, point>> /\ phase = "format" /\ phase' \in {"records", "error"}
    BY <1>3 DEF N!DecideFormat, N!place
  <2>. QED  BY <1>1, <2>1
<1>4. CASE N!ReadRecord
  <2>1. CASE UNCHANGED <<row, col, point>> /\ phase = "records"
                 /\ (phase' = "ok" \/ stream' \in {"bad", "eof"})
    BY <1>1, <2>1
  <2>2. CASE N!NextWord # "none" /\ (N!TakeWord \/ N!TakeLine)
    BY <2>2, Taking
  <2>3. \/ UNCHANGED <<row, col, point>> /\ phase = "records"
             /\ (phase' = "ok" \/ stream' \in {"bad", "eof"})
        \/ N!NextWord # "none" /\ (N!TakeWord \/ N!TakeLine)
    BY <1>4 DEF N!ReadRecord, N!place
  <2>. QED  BY <2>1, <2>2, <2>3
<1>5. CASE N!ReadNumber
  <2>1. \/ UNCHANGED <<row, col, point>> /\ stream' \in {"bad", "eof"}
        \/ N!NextWord \in N!Number
             /\ (N!TakeWord \/ (row' = N!NextRow /\ col' = N!NextCol /\ point' = TRUE))
    BY <1>5 DEF N!ReadNumber, N!place
  <2>2. N!NextWord \in N!Number => N!NextWord # "none"
    BY DEF N!Number, N!Whole
  <2>3. CASE UNCHANGED <<row, col, point>> /\ stream' \in {"bad", "eof"}
    BY <1>1, <2>3
  <2>4. CASE N!NextWord # "none" /\ N!TakeWord
    BY <2>4, Taking
  <2>5. CASE N!NextWord # "none" /\ row' = N!NextRow /\ col' = N!NextCol /\ point' = TRUE
    BY <1>1, <2>5, NextIsAhead
  <2>. QED  BY <2>1, <2>2, <2>3, <2>4, <2>5
<1>6. CASE N!AppendNode
  <2>1. UNCHANGED <<row, col, point>> /\ phase = "fields" /\ phase' \in {"records", "error"}
    BY <1>6 DEF N!AppendNode, N!place
  <2>. QED  BY <1>1, <2>1
<1>. QED  BY <1>2, <1>3, <1>4, <1>5, <1>6 DEF N!Next

(* The stream always stands somewhere.                                     *)
LEMMA StandingNext == Standing /\ WrittenInv' /\ [Next]_vars => Standing'
<1>. SUFFICES ASSUME Standing, WrittenInv', [Next]_vars PROVE Standing'
  OBVIOUS
<1>1. Typeset'
  BY DEF WrittenInv, Typeset
<1>2. CASE ReadNodeFile
  BY <1>1, <1>2, ReadMoves DEF ReadNodeFile, Standing
<1>3. CASE ReadLine
  <2>1. UNCHANGED reader \/ \E f : N!Open(f)
    BY <1>3 DEF ReadLine
  <2>2. (row' = row /\ col' = col) \/ (row' = 1 /\ col' = 1)
    BY <2>1 DEF reader, N!Open
  <2>. QED  BY <1>1, <2>2 DEF Standing
<1>4. CASE CloseNodeFile
  BY <1>1, <1>4 DEF CloseNodeFile, Closed, Standing
<1>5. CASE ~(ReadLine \/ ReadNodeFile \/ CloseNodeFile)
  <2>1. row' = row /\ col' = col
    BY <1>5 DEF Next, vars, reader, ReadParameters, LoseLine, UnknownTag, NoKeyword, ReadEof, CheckConfiguration,
           Distribute, Route, BuildPDPTW, BuildCVRP, Write
  <2>. QED  BY <1>1, <2>1 DEF Standing
<1>. QED  BY <1>2, <1>3, <1>4, <1>5

(* Of a well-formed file no read fails and no number has a fraction left.  *)
NothingFailed ==
  N!WellFormed => phase \notin {"error", "thrown"} /\ stream = "good" /\ point = FALSE

LEMMA NoReadFails == WrittenInv => NothingFailed
<1>. SUFFICES ASSUME WrittenInv, N!WellFormed
              PROVE  phase \notin {"error", "thrown"} /\ stream = "good" /\ point = FALSE
  BY DEF NothingFailed
<1>1. PICK width \in {3, 7} : N!WellFormedAs(width)
  BY DEF N!WellFormed
<1>2. PICK first \in N!Tags("NODES"), last \in N!Tags("EOF") : N!Between(first, last, width)
  BY <1>1 DEF N!WellFormedAs
<1>3. Shaped(width, first, last) /\ first \in DOMAIN lines /\ last \in DOMAIN lines
  BY <1>2 DEF Shaped, N!Tags
<1>4. Reading(width, first, last)
  BY <1>3 DEF WrittenInv
<1>. QED  BY <1>4 DEF Reading

(***************************************************************************)
(* Of a well-formed file, whatever its length, every read takes a word or  *)
(* a line, so that the loops of read_node_file cannot go on for ever.      *)
(***************************************************************************)
THEOREM ReaderCorrect == Spec => ReaderMovesOn
<1>. DEFINE Active == N!WellFormed /\ phase \in {"header", "format", "records", "fields"}
            Onward == \/ N!MovesForward
                      \/ /\ UNCHANGED N!place
                         /\ <<phase, phase'>> \in
                               {<<"format", "records">>, <<"fields", "records">>, <<"records", "ok">>}
<1>1. Init => Standing /\ WrittenInv
  <2>. SUFFICES ASSUME Init PROVE Standing /\ WrittenInv
    OBVIOUS
  <2>1. lines = << >> /\ row = 1 /\ col = 1
    BY DEF Init
  <2>2. << >> \in Seq(Seq(N!Word)) /\ DOMAIN << >> = {}
    OBVIOUS
  <2>. QED  BY <2>1, <2>2 DEF WrittenInv, Standing, Typeset
<1>2. IndInv /\ Standing /\ NothingFailed' /\ [Next]_vars => [Active => Onward]_(N!vars)
  <2>. SUFFICES ASSUME IndInv, Standing, NothingFailed', [Next]_vars, Active, ~ UNCHANGED N!vars
                PROVE  Onward
    OBVIOUS
  <2>1. ReadNodeFile
    <3>1. phase # "closed"
      OBVIOUS
    <3>2. pc = "nodes"
      BY <3>1 DEF IndInv, Typed
    <3>3. ~ CloseNodeFile
      BY DEF CloseNodeFile
    <3>4. ASSUME UNCHANGED vars PROVE FALSE
      BY <3>4 DEF vars, reader, N!vars, N!place
    <3>. QED  BY <3>2, <3>3, <3>4 DEF Next, ReadParameters, ReadLine, LoseLine, UnknownTag, NoKeyword, ReadEof,
              CheckConfiguration, Distribute, Route, BuildPDPTW, BuildCVRP, Write
  <2>2. N!Next
    BY <2>1 DEF ReadNodeFile
  <2>3. lines' = lines
    BY <2>2 DEF N!Next, N!ReadHeader, N!DecideFormat, N!ReadRecord, N!ReadNumber, N!AppendNode
  <2>4. N!WellFormed'
    BY <2>3 DEF N!WellFormed, N!WellFormedAs, N!Tags, N!Between
  <2>5. phase' \notin {"error", "thrown"} /\ stream' = "good" /\ point' = FALSE
    BY <2>4 DEF NothingFailed
  <2>. QED  BY <2>2, <2>5, ReadMoves DEF N!place
<1>3. /\ WrittenInv => NothingFailed
      /\ WrittenInv /\ Formed /\ [Next]_vars => WrittenInv'
  BY NoReadFails, WrittenStep
<1>4. Standing /\ WrittenInv' /\ [Next]_vars => Standing'
  BY StandingNext
<1>5. Init => Formed
  BY FormedInit
<1>6. Formed /\ [Next]_vars => Formed'
  BY FormedNext
<1>7. ReaderMovesOn <=> [][Active => Onward]_(N!vars)
  BY DEF ReaderMovesOn, N!ReaderMovesOn
<1>. HIDE DEF Active, Onward
<1>. QED  BY <1>1, <1>2, <1>3, <1>4, <1>5, <1>6, <1>7, Invariance, PTL DEF Spec
=============================================================================

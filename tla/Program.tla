------------------------------ MODULE Program -------------------------------
(***************************************************************************)
(* The run of the program: read_parameters and main (src/src/main.cpp),    *)
(* read_configurations and has_everything (src/src/configurations.cpp),    *)
(* InstanceCreator::create (src/src/instance_creator.cpp), Builder::build  *)
(* (src/src/builder.cpp, src/src/cvrp_builder.cpp) and write_instance_file *)
(* (src/src/instance.cpp).                                                 *)
(*                                                                         *)
(* A configuration file is a line for every tag, sound or flawed, which    *)
(* shows when it is read.  The file is read word by word: a line with a    *)
(* value sets its own fields and nothing else, so that the order of such   *)
(* lines makes no difference but for what is read before the first flaw    *)
(* (the model reads them in the order of Lines), but a value that is       *)
(* missing is taken from the line below, and a word too many is read as a  *)
(* tag.  The line NODE-FILE calls read_node_file, which is the module      *)
(* NodeFile.  What the parts of create do is in other modules; here only   *)
(* how they end.                                                           *)
(***************************************************************************)
EXTENDS Integers, Sequences, FiniteSets, FiniteSetsExt

CONSTANTS
  Lines,      \* the tags in the order of the file
  MaxFlaws,   \* bound: so many lines are not as they should be
  Files,      \* node files
  PlainFiles, \* those of them that are combined with any other flaw
  MaxNodes    \* bound of NodeFile

(* Tags whose value is checked by a function of its own, and numbers.      *)
Checked == {"TYPE", "DISTRIBUTION", "DEPOT", "NODE-FILE", "LIMITS"}
Numbers == {"SIZE", "DENSITY", "CLUSTERS", "TIME-WINDOW", "SERVICE-TIME",
            "CAPACITY", "ROUTE-TIME", "SEED"}
Words   == {"NAME", "OSRM-FILE", "LAND-FILE", "LOCATION"}
Tag     == Checked \cup Numbers \cup Words

ASSUME LinesAssumption ==
  /\ Lines \in Seq(Tag) /\ {Lines[x] : x \in DOMAIN Lines} = Tag
  /\ MaxFlaws \in Nat /\ PlainFiles \subseteq Files

VARIABLES
  pc,         \* "args", "read", "nodes", "check", "create", "route", "build", "write", "end"
  args,       \* the command line
  flaws,      \* how many flawed lines have been read
  line,       \* the next line
  failed,     \* the stream's fail bit
  ahead,      \* the next keyword: a "tag", "taken" as a value, or "stray", no tag
  seen,       \* checker_t: the tags that were read
  type, dist, full,   \* con.type, con.dist_type, con.full_nodes
  pool,       \* what con.nodes is good for
  complaints, \* the messages printed about lines
  built,      \* the kind of instance that was built
  file,       \* the output file
  status,     \* how the run ended
  phase, lines, row, col, point, stream, numbers, nodes   \* of read_node_file

known  == <<type, dist>>
conf   == <<flaws, line, failed, ahead, seen, known, complaints>>
reader == <<phase, lines, row, col, point, stream, numbers, nodes>>
inst   == <<built, file>>
vars   == <<pc, args, conf, full, pool, inst, status, reader>>

N == INSTANCE NodeFile

ASSUME FilesAssumption == Files \subseteq Seq(Seq(N!Word)) /\ MaxNodes \in Nat

Closed ==
  /\ phase' = "closed" /\ lines' = << >>
  /\ row' = 1 /\ col' = 1 /\ point' = FALSE
  /\ stream' = "good" /\ numbers' = << >> /\ nodes' = << >>

Init ==
  /\ pc = "args"
  /\ args \in {"run", "help", "wrong", "no file"}
  /\ flaws = 0
  /\ line = 1
  /\ failed = FALSE
  /\ ahead = "tag"
  /\ seen = {}
  /\ type = "Unknown" /\ dist = "Unknown" /\ full = 0
  /\ pool = "none"
  /\ complaints = {}
  /\ built = "nothing"
  /\ file = "none"
  /\ status = "running"
  /\ phase = "closed" /\ lines = << >>
  /\ row = 1 /\ col = 1 /\ point = FALSE /\ stream = "good"
  /\ numbers = << >> /\ nodes = << >>

End(s) == pc' = "end" /\ status' = s

-----------------------------------------------------------------------------
(* read_parameters up to the configuration: a wrong command line is an     *)
(* exception of boost that nobody catches.                                 *)
ReadParameters ==
  /\ pc = "args"
  /\ \/ args = "run"     /\ pc' = "read" /\ UNCHANGED status
     \/ args = "help"    /\ End("success")
     \/ args = "wrong"   /\ End("abort")
     \/ args = "no file" /\ End("failure")
  /\ UNCHANGED <<args, conf, full, pool, inst, reader>>

(* What a line may be like.  A bad NODE-FILE cannot be opened; of LIMITS a *)
(* word may be too short for substr.  Of a line without a value ("empty")  *)
(* the next keyword becomes the value, which for any but a word is as bad  *)
(* as a value can be; a value may have a word too many ("more"), which is  *)
(* no tag.                                                                 *)
Content(t) ==
  {"ok", "absent", "nosep"}
    \cup (IF t \in Words THEN {"empty"} ELSE {"bad"})
    \cup (IF t = "LIMITS" THEN {"short"} ELSE {})
    \cup (IF t = "NODE-FILE" THEN {} ELSE {"more"})

(* What a line sets.                                                       *)
Fields(t) ==
  /\ type' \in IF t = "TYPE" THEN {"PDPTW", "CVRP"} ELSE {type}
  /\ dist' \in IF t = "DISTRIBUTION" THEN {"cluster", "random"} ELSE {dist}

(* The result of a line.  "Missing separator" is an error that the result  *)
(* of the function that checks the value overwrites.                       *)
ReadError_Slip(t, c) == c = "nosep" /\ t \notin Checked
ReadError(t, c) ==
  \/ c = "nosep" /\ t \notin Checked
  \/ c = "bad" /\ t \in Checked

(* One line up to its value; of NODE-FILE the file is opened.              *)
ReadLine ==
  /\ pc = "read" /\ ~failed /\ ahead = "tag" /\ line <= Len(Lines)
  /\ \E c \in Content(Lines[line]) :
       LET t == Lines[line]
           opened == t = "NODE-FILE" /\ c \in {"ok", "nosep"} IN
       /\ flaws' = IF c = "ok" THEN flaws ELSE flaws + 1
       /\ flaws' <= MaxFlaws
       /\ line' = line + 1
       /\ IF c \in {"absent", "short"} \/ (c = "bad" /\ t \in Checked)
          THEN UNCHANGED known ELSE Fields(t)
       /\ seen' = IF c = "absent" THEN seen ELSE seen \cup {t}
       /\ complaints' = IF c = "nosep" \/ (c = "bad" /\ t \in Checked)
                        THEN complaints \cup {<<t, c>>} ELSE complaints
       /\ failed' = (c = "bad" /\ t \in Numbers)
       /\ ahead' = CASE c = "empty" -> "taken" [] c = "more" -> "stray" [] OTHER -> "tag"
       /\ IF ReadError(t, c) THEN End("failure")
          ELSE IF c = "short" THEN End("abort")
          ELSE pc' = (IF opened THEN "nodes" ELSE pc) /\ UNCHANGED status
       /\ IF opened THEN \E f \in (IF flaws' = 0 THEN Files ELSE PlainFiles) : N!Open(f)
                    ELSE UNCHANGED reader
  /\ UNCHANGED <<args, full, pool, inst>>

(* A line whose keyword the line above has taken as its value: its own     *)
(* value is read as a keyword, if it has one.                              *)
LoseLine ==
  /\ pc = "read" /\ ahead = "taken" /\ line <= Len(Lines)
  /\ \E c \in Content(Lines[line]) :
       /\ flaws' = IF c = "ok" THEN flaws ELSE flaws + 1
       /\ flaws' <= MaxFlaws
       /\ ahead' = CASE c = "absent" -> "taken" [] c = "empty" -> "tag" [] OTHER -> "stray"
  /\ line' = line + 1
  /\ UNCHANGED <<pc, args, failed, seen, known, complaints, full, pool, inst, status, reader>>

(* A keyword that is no tag, and has no separator either.                  *)
UnknownTag ==
  /\ pc = "read" /\ ahead = "stray"
  /\ complaints' = complaints \cup {<<"keyword", "nosep">>}
  /\ End("failure")
  /\ UNCHANGED <<args, flaws, line, failed, ahead, seen, known, full, pool, inst, reader>>

(* read_node_file at work: Missing EOF, a wrong tag, ... end the program,  *)
(* the exception of read_keyword aborts it, a garbled number hangs it.     *)
ReadNodeFile ==
  /\ pc = "nodes"
  /\ N!Next
  /\ UNCHANGED <<pc, args, conf, pool, inst, status>>

Usable ==
  IF nodes = << >> THEN "empty"
  ELSE IF full = 1 THEN "locations"
  ELSE IF N!Couples THEN "couples" ELSE "broken"

CloseNodeFile ==
  /\ pc = "nodes"
  /\ \/ phase = "ok" /\ pc' = "read" /\ pool' = Usable /\ UNCHANGED status
     \/ phase = "error" /\ End("failure") /\ UNCHANGED pool
     \/ phase = "thrown" /\ End("abort") /\ UNCHANGED pool
  /\ flaws' = IF lines \in PlainFiles THEN flaws ELSE flaws + 1
  /\ complaints' = IF phase = "error" THEN complaints \cup {<<"NODE-FILE", "bad">>} ELSE complaints
  /\ Closed
  /\ UNCHANGED <<args, line, failed, ahead, seen, known, full, inst>>

(* read_keyword throws at the end of the stream, also if EOF was taken as  *)
(* a value, or if the last value was not a number; nobody catches.         *)
NoKeyword ==
  /\ pc = "read"
  /\ failed \/ (line > Len(Lines) /\ ahead # "stray")
  /\ End("abort")
  /\ UNCHANGED <<args, conf, full, pool, inst, reader>>

ReadEof ==
  /\ pc = "read" /\ ~failed /\ ahead = "tag" /\ line > Len(Lines)
  /\ pc' = "check"
  /\ UNCHANGED <<args, conf, full, pool, inst, status, reader>>

-----------------------------------------------------------------------------
Lacks(t) == t \notin seen

(* has_everything: a chain of alternatives, the first one that applies     *)
(* decides, also if it does not require anything.                          *)
Chain ==
  << [missing |-> Lacks("NAME"),         required |-> TRUE],
     [missing |-> Lacks("TYPE"),         required |-> TRUE],
     [missing |-> Lacks("SIZE"),         required |-> TRUE],
     [missing |-> Lacks("DISTRIBUTION"), required |-> TRUE],
     [missing |-> dist = "cluster" /\ Lacks("CLUSTERS"), required |-> TRUE],
     [missing |-> dist = "cluster" /\ Lacks("DENSITY"),  required |-> FALSE],
     [missing |-> Lacks("ROUTE-TIME"),   required |-> type # "CVRP"],
     [missing |-> Lacks("CAPACITY"),     required |-> TRUE],
     [missing |-> Lacks("DEPOT"),        required |-> TRUE],
     [missing |-> Lacks("TIME-WINDOW"),  required |-> type # "CVRP"],
     [missing |-> Lacks("SERVICE-TIME"), required |-> type # "CVRP"],
     [missing |-> Lacks("OSRM-FILE"),    required |-> TRUE],
     [missing |-> Lacks("NODE-FILE") /\ Lacks("LAND-FILE"), required |-> FALSE],
     [missing |-> Lacks("NODE-FILE") /\ Lacks("LIMITS"),    required |-> TRUE] >>

Applying == {x \in DOMAIN Chain : Chain[x].missing}

HasEverything_Slip == Applying = {} \/ ~Chain[Max(Applying)].required
HasEverything == Applying = {} \/ ~Chain[Min(Applying)].required

CheckConfiguration ==
  /\ pc = "check"
  /\ IF HasEverything THEN pc' = "create" /\ UNCHANGED status ELSE End("failure")
  /\ UNCHANGED <<args, conf, full, pool, inst, reader>>

-----------------------------------------------------------------------------
(* The distributer finds locations or draws for ever.  Drawing from no     *)
(* nodes divides by zero; a pair that is no pair is read out of range,     *)
(* which may do anything.  Generating reads limits that may not be there,  *)
(* and so many locations as SIZE 0 asks for fit in no memory.              *)
NothingToDraw == pool = "empty" \/ (pool = "none" /\ Lacks("LIMITS"))

Distribute ==
  /\ pc = "create"
  /\ \/ ~NothingToDraw /\ pc' = "route" /\ UNCHANGED status
     \/ ~NothingToDraw /\ End("hang")
     \/ (NothingToDraw \/ pool \in {"none", "broken"}) /\ End("abort")
  /\ UNCHANGED <<args, conf, full, pool, inst, reader>>

(* OSRM cannot be opened, or answers an error: an exception.               *)
Route ==
  /\ pc = "route"
  /\ (pc' = "build" /\ UNCHANGED status) \/ End("abort")
  /\ UNCHANGED <<args, conf, full, pool, inst, reader>>

(* Complete nodes are always built for the PDPTW; only that builder fails. *)
Kind == IF full = 2 THEN "PDPTW" ELSE type

(* What it indexes out of range or divides by zero, and where it repairs   *)
(* for ever, is in Pairing and OrderNodes.                                 *)
BuildPDPTW ==
  /\ pc = "build" /\ Kind = "PDPTW"
  /\ \/ built' = "PDPTW" /\ pc' = "write" /\ UNCHANGED status
     \/ built' = "PDPTW" /\ End("failure")
     \/ UNCHANGED built /\ \E s \in {"abort", "hang"} : End(s)
  /\ UNCHANGED <<args, conf, full, pool, file, reader>>

(* The builder for the CVRP types the nodes, draws demands of 1 to 5, and  *)
(* never fails.                                                            *)
BuildCVRP ==
  /\ pc = "build" /\ Kind = "CVRP"
  /\ built' = "CVRP"
  /\ pc' = "write"
  /\ UNCHANGED <<args, conf, full, pool, file, status, reader>>

(* write_instance_file: the output file cannot be opened, is written, or   *)
(* is cut off by an error of the stream that nobody looks at.              *)
Exit_Slip(opened) == "success"
Exit(opened) == IF opened THEN "success" ELSE "failure"

Write ==
  /\ pc = "write"
  /\ \E opened \in BOOLEAN :
       /\ file' \in IF opened THEN {type, "cut off"} ELSE {"none"}
       /\ End(Exit(opened))
  /\ UNCHANGED <<args, conf, full, pool, built, reader>>

Next ==
  \/ ReadParameters \/ ReadLine \/ LoseLine \/ UnknownTag \/ ReadNodeFile \/ CloseNodeFile
  \/ NoKeyword \/ ReadEof \/ CheckConfiguration
  \/ Distribute \/ Route \/ BuildPDPTW \/ BuildCVRP \/ Write

Spec == Init /\ [][Next]_vars /\ WF_vars(Next)

-----------------------------------------------------------------------------
(* What create reads of the configuration has been read from the file: the *)
(* type and the distribution are known ones.                               *)
TypeOK ==
  /\ pc \in {"args", "read", "nodes", "check", "create", "route", "build", "write", "end"}
  /\ status \in {"running", "success", "failure", "abort", "hang"}
  /\ pc = "end" <=> status # "running"
  /\ line \in 1 .. Len(Lines) + 1
  /\ seen \subseteq Tag /\ ahead \in {"tag", "taken", "stray"}
  /\ pc = "nodes" <=> phase # "closed"
  /\ file \in {"none", "PDPTW", "CVRP", "cut off"} /\ built \in {"nothing", "PDPTW", "CVRP"}
  /\ pc \in {"create", "route", "build", "write"} =>
       type \in {"PDPTW", "CVRP"} /\ dist \in {"cluster", "random"} /\ full \in 0 .. 2

(***************************************************************************)
(* The exit code tells whether the output file was touched: a run that     *)
(* succeeds has opened and written to it (but for --help), a run that      *)
(* fails in whatever way has left alone what was there.  Whether the file  *)
(* is whole it does not tell, against "DONE: Instance written to file."    *)
(* (main.cpp:39): nobody looks at the stream (instance.cpp:30).            *)
(***************************************************************************)
FileIffSuccess == (file # "none") <=> (status = "success" /\ args = "run")

(***************************************************************************)
(* No instance comes from a file with a flaw that was complained about;    *)
(* the one exception is the separator that is missing after a tag whose    *)
(* value is checked (line 221, overwritten in lines 229-269).              *)
(***************************************************************************)
ComplaintsStop ==
  pc \in {"check", "create", "route", "build", "write"} \/ file # "none" =>
    complaints \subseteq (Checked \X {"nosep"})

(***************************************************************************)
(* What a configuration that passes can lack of the required tags: what    *)
(* comes, in the chain, after the absence of an optional tag.  What is     *)
(* required goes by what will be built: complete nodes need the times also *)
(* if the type is CVRP.                                                    *)
(***************************************************************************)
RequiredFor(k) ==
  {"NAME", "TYPE", "SIZE", "DISTRIBUTION", "CAPACITY", "DEPOT", "OSRM-FILE"}
    \cup (IF dist = "cluster" THEN {"CLUSTERS"} ELSE {})
    \cup (IF k = "PDPTW" THEN {"ROUTE-TIME", "TIME-WINDOW", "SERVICE-TIME"} ELSE {})
    \cup (IF full = 0 THEN {"LIMITS"} ELSE {})

(* A configuration passes without a required tag only behind such a gap.   *)
LacksOnlyAfterGap ==
  pc = "create" =>
    LET lacking == RequiredFor(Kind) \ seen IN
    /\ lacking \cap {"NAME", "TYPE", "SIZE", "DISTRIBUTION", "CLUSTERS"} = {}
    /\ lacking # {} =>
         \/ dist = "cluster" /\ Lacks("DENSITY")
         \/ type = "CVRP" /\ \E t \in {"ROUTE-TIME", "TIME-WINDOW", "SERVICE-TIME"} : Lacks(t)
         \/ lacking = {"LIMITS"} /\ Lacks("LAND-FILE")

-----------------------------------------------------------------------------
(* The properties of NodeFile, for the node file of this run: a well-      *)
(* formed one is read as it is written.                                    *)
NodesAsWritten == N!NodesAsWritten

(* Complete nodes are couples just if pickups and deliveries alternate     *)
(* (src/src/configurations.cpp, line 101).                                 *)
CouplesIffAlternating == N!CouplesIffAlternating

(* Its loops end because they read on (lines 42, 84).                      *)
ReaderMovesOn == N!ReaderMovesOn

(* The loops of read_node_file end on a well-formed file (lines 42, 84).   *)
ReadingEnds == N!ReadingEnds

(***************************************************************************)
(* "checks if everything that is required has been read" (line 284).       *)
(* Refuted: an optional tag that is missing ends the check.                *)
(***************************************************************************)
RequiredIsRead == pc = "create" => RequiredFor(Kind) \subseteq seen
=============================================================================

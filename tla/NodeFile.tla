------------------------------ MODULE NodeFile ------------------------------
(***************************************************************************)
(* read_node_file (src/src/configurations.cpp): the file of locations or   *)
(* of complete nodes that NODE-FILE names.  A header of comments, the tag  *)
(* NODES, records, comments between them, and EOF.                         *)
(*                                                                         *)
(* A file is the lines of words that newlines separate: one that ends with *)
(* a newline has an empty last line.  `operator>>' takes the next word,    *)
(* wherever it is, getline what is left of a line.  Of a number only       *)
(* matters whether it is positive ("1"), zero ("0"), negative ("neg"), or  *)
(* has a fraction ("real"), of which reading an int takes the whole part   *)
(* and leaves the fraction behind ("frac").  A number that is too large    *)
(* for an int is none ("word").  The word "sp" is a superfluous blank,     *)
(* which only count_words sees.                                            *)
(***************************************************************************)
EXTENDS Integers, Sequences, FiniteSets

CONSTANTS
  Files,     \* the files that are read: sequences of lines
  MaxNodes   \* bound: an endless loop appends no more than so many nodes

Whole  == {"neg", "0", "1"}
Number == Whole \cup {"real", "frac"}
Word   == Whole \cup {"real", "#", "NODES", "EOF", "word", "sp"}

VARIABLES
  phase,   \* "header", "format", "records", "fields", or the result: "ok", "error", "thrown"
  lines,   \* the file
  row, col,   \* where the stream stands: before this word
  point,   \* that word is a number read up to its decimal point
  stream,  \* "good", "eof" (the eof bit), "bad" (the fail bit, but not eof)
  full,    \* con.full_nodes
  numbers, \* what has been read of a record
  nodes    \* con.nodes; the id of a node is its place, from 0

place == <<row, col, point>>
vars  == <<phase, lines, place, stream, full, numbers, nodes>>

Open(file) ==
  /\ phase' = "header"
  /\ lines' = file
  /\ row' = 1 /\ col' = 1 /\ point' = FALSE
  /\ stream' = "good"
  /\ numbers' = << >> /\ nodes' = << >>

Init ==
  /\ phase = "header"
  /\ lines \in Files
  /\ row = 1 /\ col = 1 /\ point = FALSE
  /\ stream = "good"
  /\ full = 0
  /\ numbers = << >> /\ nodes = << >>

-----------------------------------------------------------------------------
(* The words from where the stream stands, and the next one of them.       *)
WordsAhead(r) == {c \in DOMAIN lines[r] : lines[r][c] # "sp" /\ (r = row => col <= c)}
Ahead     == UNION {{r} \X WordsAhead(r) : r \in row .. Len(lines)}
NextPlace == CHOOSE p \in Ahead : \A q \in Ahead : p[1] < q[1] \/ (p[1] = q[1] /\ p[2] <= q[2])
NextRow   == NextPlace[1]
NextCol   == NextPlace[2]
NextWord ==
  IF Ahead = {} THEN "none" ELSE IF point THEN "frac" ELSE lines[NextRow][NextCol]

(* Reading it.  A word that ends with the file sets the eof bit.           *)
TakeWord ==
  /\ row' = NextRow /\ col' = NextCol + 1 /\ point' = FALSE
  /\ stream' = IF NextRow = Len(lines) /\ NextCol = Len(lines[NextRow]) THEN "eof" ELSE "good"

(* Reading it, and with getline what is left of its line.                  *)
TakeLine_Slip == TakeWord
TakeLine ==
  /\ row' = NextRow + 1 /\ col' = 1 /\ point' = FALSE
  /\ stream' = IF NextRow = Len(lines) THEN "eof" ELSE "good"

(* A word or a comment of the header.  read_keyword throws without a word. *)
ReadHeader ==
  /\ phase = "header"
  /\ \/ /\ NextWord = "none"
        /\ phase' = "thrown"
        /\ UNCHANGED <<place, stream>>
     \/ /\ NextWord = "#"
        /\ TakeLine
        /\ phase' = IF stream' = "eof" THEN "error" ELSE "header"
     \/ /\ NextWord \notin {"none", "#"}
        /\ TakeWord
        /\ phase' = IF NextWord = "NODES" /\ stream' = "good" THEN "format" ELSE "error"
  /\ UNCHANGED <<lines, full, numbers, nodes>>

(* The words of the line below NODES, whatever it is, decide the format of *)
(* all records; then the stream is put back behind NODES.  Without a line  *)
(* below, getline fails and leaves what the one before read: what is left  *)
(* of the line of NODES, with the blank before it.                         *)
CountWords(line) == IF line = << >> THEN 1 ELSE Len(line)

WordsBelow ==
  IF row < Len(lines) THEN CountWords(lines[row + 1]) ELSE Len(lines[row]) - col + 2

Format_Slip(words) == IF words >= 3 THEN 2 ELSE 1
Format(words) == IF words > 3 THEN 2 ELSE 1

DecideFormat ==
  /\ phase = "format"
  /\ IF WordsBelow \in {3, 7}
     THEN /\ phase' = "records"
          /\ full' = Format(WordsBelow)
          /\ stream' = IF row < Len(lines) THEN "good" ELSE "bad"
     ELSE phase' = "error" /\ UNCHANGED <<full, stream>>
  /\ UNCHANGED <<lines, place, numbers, nodes>>

-----------------------------------------------------------------------------
(* A round of the loop over records: EOF, a comment, or a node.  At the    *)
(* end of the file, and after a failure, no word is read, and still a node *)
(* follows.                                                                *)
ReadRecord ==
  /\ phase = "records"
  /\ \/ /\ stream = "bad" \/ NextWord = "none"
        /\ phase' = "fields"
        /\ stream' = IF stream = "bad" THEN "bad" ELSE "eof"
        /\ UNCHANGED place
     \/ /\ stream # "bad" /\ NextWord = "EOF"
        /\ phase' = "ok"
        /\ UNCHANGED <<place, stream>>
     \/ /\ stream # "bad" /\ NextWord = "#"
        /\ TakeLine
        /\ phase' = IF stream' = "eof" THEN "error" ELSE "records"
     \/ /\ stream # "bad" /\ NextWord \notin {"none", "EOF", "#"}
        /\ TakeWord
        /\ phase' = "fields"
  /\ UNCHANGED <<lines, full, numbers, nodes>>

(* lat, lon, and for complete nodes q, tw_center, pick, dev.               *)
Fields == IF full = 2 THEN <<"double", "double", "int", "int", "int", "int">>
                      ELSE <<"double", "double">>

(* `operator>>' for a number.  After a failure nothing is read, and the    *)
(* number is 0; the integer read of a fraction leaves what is behind the   *)
(* point.                                                                  *)
ReadNumber ==
  /\ phase = "fields" /\ Len(numbers) < Len(Fields)
  /\ LET kind    == Fields[Len(numbers) + 1]
         isInt   == kind = "int" /\ NextWord = "real"
         failing == stream = "bad" \/ NextWord \notin Number \/ (kind = "int" /\ NextWord = "frac")
     IN
     \/ /\ failing
        /\ stream' = IF NextWord = "none" /\ stream # "bad" THEN "eof" ELSE "bad"
        /\ numbers' = Append(numbers, "0")
        /\ UNCHANGED place
     \/ /\ ~failing /\ isInt
        /\ row' = NextRow /\ col' = NextCol /\ point' = TRUE
        /\ stream' = "good"
        /\ \E whole \in Whole : numbers' = Append(numbers, whole)
     \/ /\ ~failing /\ ~isInt
        /\ TakeWord
        /\ numbers' = Append(numbers, NextWord)
  /\ UNCHANGED <<phase, lines, full, nodes>>

Positive(number) == number \in {"1", "real"}

(* The partner is the neighbour, whatever pick and dev are; of a node that *)
(* is neither pickup nor delivery it is pick as it was read, -1 here if it *)
(* is negative.                                                            *)
Kept(pick) == IF pick = "neg" THEN -1 ELSE 0

NodeOf_Slip(id, pick, dev) ==
  IF Positive(dev) THEN [type |-> "Pickup", pair |-> id + 1]
  ELSE IF Positive(pick) THEN [type |-> "Delivery", pair |-> id]
  ELSE [type |-> "Depot", pair |-> Kept(pick)]
NodeOf(id, pick, dev) ==
  IF Positive(dev) THEN [type |-> "Pickup", pair |-> id + 1]
  ELSE IF Positive(pick) THEN [type |-> "Delivery", pair |-> id - 1]
  ELSE [type |-> "Depot", pair |-> Kept(pick)]

Node(id, got) ==
  IF full = 2 THEN NodeOf(id, got[5], got[6]) ELSE NodeOf(id, "0", "0")

(* The node is appended whether its numbers could be read or not.  A       *)
(* number that could not sets the fail bit: from then on no read reaches   *)
(* the end, and nodes are appended for ever.                               *)
AppendNode ==
  /\ phase = "fields" /\ Len(numbers) = Len(Fields)
  /\ nodes' = IF stream = "bad" /\ Len(nodes) >= MaxNodes THEN nodes
              ELSE Append(nodes, Node(Len(nodes), numbers))
  /\ phase' = IF stream = "eof" THEN "error" ELSE "records"
  /\ numbers' = << >>
  /\ UNCHANGED <<lines, place, stream, full>>

Next == ReadHeader \/ DecideFormat \/ ReadRecord \/ ReadNumber \/ AppendNode

Spec == Init /\ [][Next]_vars /\ WF_vars(Next)

-----------------------------------------------------------------------------
(* The place of a member among the members of a set, from 1.               *)
Rank(S, x) == Cardinality({y \in S : y <= x})

WordsOf(line) == {c \in DOMAIN line : line[c] # "sp"}
WordOf(line, k) == line[CHOOSE c \in WordsOf(line) : Rank(WordsOf(line), c) = k]

(* A file as the messages describe it: "Nodes should be define either with *)
(* only < id lat lon >, or with < id lat lon dem tw_center pick dev >".    *)
IsComment(line) == line # << >> /\ line[1] = "#"
IsRecord(line, width) ==
  /\ Cardinality(WordsOf(line)) = width
  /\ \A c \in WordsOf(line) :
       line[c] \in CASE Rank(WordsOf(line), c) = 1 -> Whole \cup {"real", "word"}
                     [] Rank(WordsOf(line), c) \in {2, 3} -> Whole \cup {"real"}
                     [] OTHER -> Whole

Tags(tag) == {x \in DOMAIN lines : lines[x] = <<tag>>}

(* Between NODES and EOF there are only comments and records of one width, *)
(* and the first of these lines is a record, without superfluous blanks.   *)
Between(first, last, width) ==
  /\ first + 1 < last
  /\ \A x \in 1 .. first - 1 : IsComment(lines[x])
  /\ \A x \in first + 1 .. last - 1 : IsComment(lines[x]) \/ IsRecord(lines[x], width)
  /\ IsRecord(lines[first + 1], width) /\ Len(lines[first + 1]) = width

WellFormedAs(width) ==
  \E first \in Tags("NODES"), last \in Tags("EOF") : Between(first, last, width)

WellFormed == WellFormedAs(3) \/ WellFormedAs(7)

(* The records: where they are, and what they say.                         *)
Records(width) ==
  {x \in DOMAIN lines : IsRecord(lines[x], width) /\ \A y \in Tags("EOF") : x < y}

Recorded(id, line, width) ==
  IF width = 3 THEN NodeOf(id, "0", "0") ELSE NodeOf(id, WordOf(line, 6), WordOf(line, 7))

(***************************************************************************)
(* Such a file is read, and as it is written: a node for every record, in  *)
(* their order, whatever comments stand between them, and with the format  *)
(* that was guessed.  No other end and no endless loop are possible.       *)
(***************************************************************************)
NodesAsWritten ==
  \A width \in {3, 7} : WellFormedAs(width) =>
    /\ phase \notin {"error", "thrown"} /\ stream = "good"
    /\ phase = "ok" =>
         /\ full = IF width = 3 THEN 1 ELSE 2
         /\ Len(nodes) = Cardinality(Records(width))
         /\ \A x \in Records(width) :
              LET n == Rank(Records(width), x) IN
              nodes[n] = Recorded(n - 1, lines[x], width)

(* Everyone's partner is somebody else, who has him as a partner.          *)
Couples ==
  \A x \in DOMAIN nodes :
     LET y == nodes[x].pair + 1 IN y \in DOMAIN nodes /\ y # x /\ nodes[y].pair + 1 = x

(***************************************************************************)
(* "in the file, pickup and delivery should be one after the other!!"      *)
(* (line 101): the nodes of a file are couples if and only if pickups and  *)
(* deliveries alternate, the first delivery excepted, whose pickup has the *)
(* number 0 and which therefore is typed as a depot.  A negative number of *)
(* the pickup (lines 103-112 keep it as the pair) is not excepted.         *)
(***************************************************************************)
CouplesIffAlternating ==
  phase = "ok" /\ full = 2 =>
    (Couples <=> /\ Len(nodes) % 2 = 0
                 /\ \A x \in DOMAIN nodes :
                      IF x % 2 = 1 THEN nodes[x].type = "Pickup"
                      ELSE \/ nodes[x].type = "Delivery"
                           \/ x = 2 /\ nodes[x].type = "Depot" /\ nodes[x].pair = 0)

(***************************************************************************)
(* Why the loops over `not f.eof()' (lines 42, 84) end: of a well-formed   *)
(* file every read takes a word or a line, and none fails, which would     *)
(* leave the stream where it is without ever setting the eof bit.  Between *)
(* two reads there is at most the end of a record.                         *)
(***************************************************************************)
MovesForward == row' > row \/ (row' = row /\ col' > col)

ReaderMovesOn ==
  [][WellFormed /\ phase \in {"header", "format", "records", "fields"} =>
       \/ MovesForward
       \/ /\ UNCHANGED place
          /\ <<phase, phase'>> \in
                {<<"format", "records">>, <<"fields", "records">>, <<"records", "ok">>}]_vars

(* Reading a well-formed file ends: lines 42, 84 loop while not f.eof().   *)
ReadingEnds == (phase = "header" /\ WellFormed) ~> phase = "ok"
=============================================================================

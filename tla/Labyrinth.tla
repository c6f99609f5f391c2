------------------------------ MODULE Labyrinth ------------------------------
(***************************************************************************)
(* The generator of Age of Mythology's gauntlet labyrinths:                *)
(* models/athens/.../buildGauntletLabyrinth/generator.go.                  *)
(*                                                                         *)
(* GenerateNumberOfNodes plans how many missions each column has,          *)
(* GenerateNodeRows places them, a column from the one before, and         *)
(* GenerateMissions makes the missions and their predecessors, of which it *)
(* then removes one for each pair that would cross.  The handler keeps all *)
(* this to itself: a step here is one column, or one pass over a column,   *)
(* of the work of one request, and Done is its end.                        *)
(*                                                                         *)
(* GenerateNodeRows takes the size of a column from the plan of the column *)
(* BEFORE it; and a column gets more missions than that if its neighbour   *)
(* needs them, or fewer if there is no place: the plan binds nothing.      *)
(* Columns count from 1 here.  Pools and blessings are left out: the       *)
(* resources have more of both than a labyrinth can use.                   *)
(***************************************************************************)
EXTENDS Naturals, Sequences, FiniteSets

CONSTANTS
  Rows,          \* the number of rows of a column
  Columns,       \* the number of columns, the boss's among them
  FirstSizes,    \* nodesPerColumn of the first column
  MiddleSizes    \* and of the others before the boss's

ASSUME LabyrinthAssumption ==
  /\ Rows \in Nat \ {0} /\ Columns \in Nat /\ Columns > 1
  /\ FirstSizes \subseteq 1 .. Rows
  /\ MiddleSizes \subseteq 1 .. Rows

VARIABLES
  plan,          \* numberOfNodes, as far as it is planned
  nodeRows,      \* the rows that have a mission, of each placed column
  filling,       \* the column that is being placed: its rows so far
  pass,          \* and the pass over it: <<i, j>> of computePositions, or <<>>
  predecessors   \* of each connected column: its rows, to rows of the column before

labyrinthVars == <<plan, nodeRows, filling, pass, predecessors>>

RowNumbers == 0 .. Rows - 1
WindowLen == 3

LabyrinthInit ==
  plan = <<>> /\ nodeRows = <<>> /\ filling = {} /\ pass = <<>> /\ predecessors = <<>>

------------------------------------------------------------------------------
(* GenerateNumberOfNodes *)

Ceil(n, d) == (n + d - 1) \div d

\* The sizes the next column can be planned with.
SizesAfter(previous) ==
  {n \in MiddleSizes : Ceil(previous, WindowLen) <= n /\ n <= 2 * previous + 1}

PlanColumn ==
  /\ Len(plan) < Columns
  /\ \E n \in CASE plan = <<>> -> FirstSizes
                [] Len(plan) + 1 = Columns -> {1}
                [] OTHER -> SizesAfter(plan[Len(plan)]) :
       plan' = Append(plan, n)
  /\ UNCHANGED <<nodeRows, filling, pass, predecessors>>

------------------------------------------------------------------------------
(* GenerateNodeRows *)

Placing == Len(plan) = Columns /\ Len(nodeRows) < Columns
previousRows == nodeRows[Len(nodeRows)]

\* The rows that a mission of the column before, in this row, can lead to.
connectablePositions(row) == {q \in RowNumbers : q <= row + 1 /\ row <= q + 1}

\* positionToNodes: the missions of the column before that can lead to a row.
positionToNodes(row) == {p \in previousRows : row \in connectablePositions(p)}

PlaceFirst ==
  /\ Placing /\ nodeRows = <<>>
  /\ \E S \in SUBSET RowNumbers :
       /\ Cardinality(S) = plan[1]
       /\ nodeRows' = <<S>>
  /\ UNCHANGED <<plan, filling, pass, predecessors>>

\* The rows to which the most missions lead, of those that a mission can lead to.
BestPositions(row) ==
  {q \in connectablePositions(row) : \A o \in connectablePositions(row) :
     Cardinality(positionToNodes(o)) <= Cardinality(positionToNodes(q))}

\* Each mission of the column before gets one of its best rows.
TakeBest ==
  /\ Placing /\ nodeRows # <<>> /\ Len(nodeRows) + 1 < Columns /\ pass = <<>>
  /\ \E best \in [previousRows -> RowNumbers] :
       /\ \A p \in previousRows : best[p] \in BestPositions(p)
       /\ filling' = {best[p] : p \in previousRows}
  /\ pass' = <<1, WindowLen>>
  /\ UNCHANGED <<plan, nodeRows, predecessors>>

wanted == plan[Len(nodeRows)]

\* The rows that a pass adds from: j missions lead to each, and one of those that have
\* i rows to lead to does.
Candidates(i, j) ==
  {q \in RowNumbers \ filling :
     /\ Cardinality(positionToNodes(q)) = j
     /\ \E p \in positionToNodes(q) : Cardinality(connectablePositions(p)) = i}

\* One pass, which adds as many of the candidates as the column still wants.
TakeCandidates ==
  /\ pass # <<>> /\ pass[1] <= WindowLen /\ Cardinality(filling) < wanted
  /\ \E S \in SUBSET Candidates(pass[1], pass[2]) :
       /\ \/ S = Candidates(pass[1], pass[2]) /\ Cardinality(S) <= wanted - Cardinality(filling)
          \/ Cardinality(S) = wanted - Cardinality(filling)
       /\ filling' = filling \cup S
  /\ pass' = IF pass[2] > 1 THEN <<pass[1], pass[2] - 1>> ELSE <<pass[1] + 1, WindowLen>>
  /\ UNCHANGED <<plan, nodeRows, predecessors>>

\* The column is as large as it was wanted, or there was nothing left to add.
PlaceColumn ==
  /\ pass # <<>> /\ (pass[1] > WindowLen \/ Cardinality(filling) >= wanted)
  /\ nodeRows' = Append(nodeRows, filling)
  /\ filling' = {} /\ pass' = <<>>
  /\ UNCHANGED <<plan, predecessors>>

\* What was computed for the boss's column is thrown away.
PlaceBoss ==
  /\ Placing /\ Len(nodeRows) + 1 = Columns
  /\ nodeRows' = Append(nodeRows, {0})
  /\ UNCHANGED <<plan, filling, pass, predecessors>>

------------------------------------------------------------------------------
(* GenerateMissions *)

\* The predecessors of a mission before any is removed.
Reachable(column, row) ==
  CASE column = 1 -> {}
    [] column = Columns -> nodeRows[column - 1]
    [] OTHER -> {p \in nodeRows[column - 1] : row \in connectablePositions(p)}

\* The rows from which, and from the next, two paths cross.
Crossings(column) ==
  IF column = 1 THEN {}
  ELSE {p \in nodeRows[column] \cap nodeRows[column - 1] :
          /\ p + 1 \in nodeRows[column] \cap nodeRows[column - 1]
          /\ p + 1 \in Reachable(column, p)
          /\ p \in Reachable(column, p + 1)}

\* A mutant of Uncrossed: a path that is removed takes its counterpart, the straight one.
UncrossedStraight(column, ups, row) ==
  {p \in Reachable(column, row) :
     /\ ~(p = row /\ row \in ups)
     /\ ~(row = p + 1 /\ p \in Crossings(column) \ ups)}

\* One path of every crossing goes: the one that leads up if it is in ups, the other if not.
Uncrossed(column, ups, row) ==
  {p \in Reachable(column, row) :
     /\ ~(p = row + 1 /\ row \in ups)
     /\ ~(row = p + 1 /\ p \in Crossings(column) \ ups)}

ConnectColumn ==
  /\ Len(nodeRows) = Columns /\ Len(predecessors) < Columns
  /\ LET column == Len(predecessors) + 1
     IN \E ups \in SUBSET Crossings(column) :
          predecessors' = Append(predecessors,
            [row \in nodeRows[column] |-> Uncrossed(column, ups, row)])
  /\ UNCHANGED <<plan, nodeRows, filling, pass>>

\* The labyrinth is stored and answered, and the next request starts from nothing.
Done ==
  /\ Len(predecessors) = Columns
  /\ plan' = <<>> /\ nodeRows' = <<>> /\ predecessors' = <<>>
  /\ UNCHANGED <<filling, pass>>

LabyrinthNext ==
  \/ PlanColumn \/ PlaceFirst \/ TakeBest \/ TakeCandidates \/ PlaceColumn \/ PlaceBoss
  \/ ConnectColumn \/ Done

LabyrinthSpec == LabyrinthInit /\ [][LabyrinthNext]_labyrinthVars

------------------------------------------------------------------------------
(* Properties *)

LabyrinthTypeOK ==
  /\ plan \in Seq(Nat) /\ Len(plan) <= Columns
  /\ nodeRows \in Seq(SUBSET RowNumbers) /\ Len(nodeRows) <= Columns
  /\ filling \in SUBSET RowNumbers
  /\ pass \in {<<>>} \cup ((1 .. WindowLen + 1) \X (1 .. WindowLen))
  /\ Len(predecessors) <= Len(nodeRows)
  /\ \A c \in 1 .. Len(predecessors) :
       predecessors[c] \in [nodeRows[c] -> SUBSET RowNumbers]

\* Every mission after the first column can be reached from the column before, and every
\* mission before the boss leads to the next column.
NoDeadEnd(c) ==
  /\ \A row \in nodeRows[c] : predecessors[c][row] # {}
  /\ \A p \in nodeRows[c - 1] : \E row \in nodeRows[c] : p \in predecessors[c][row]

\* No mission is listed that is not there, and no two paths between neighbours cross.
NoCrossing(c) ==
  \A row \in nodeRows[c] :
    /\ predecessors[c][row] \subseteq nodeRows[c - 1]
    /\ ~(/\ row + 1 \in nodeRows[c]
         /\ row + 1 \in predecessors[c][row]
         /\ row \in predecessors[c][row + 1])

\* Whatever the random choices: a player who starts at any mission of the first column can
\* go on to the boss, can have come to every mission, and meets no crossing
\* (computePositions and the last loop of GenerateMissions).
PathsLeadToTheBoss ==
  \A c \in 2 .. Len(predecessors) : NoDeadEnd(c) /\ NoCrossing(c)

==============================================================================

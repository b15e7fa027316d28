------------------------------ MODULE MapLayout ------------------------------
(***************************************************************************)
(* What the ILM makes of config.cfg before it serves: the zone of every    *)
(* map unit, which units are neighbours, the groups of zones it will give  *)
(* to servers, its zones, and the MST it then sends.                       *)
(*                                                                         *)
(* A file is a sequence of maps of x * y units; a line names a unit, its   *)
(* zone (0: a zone of its own) and its server.  Unit ids are distinct: a   *)
(* unit is <<map, position>>, with positions counted from 0 as in the code.*)
(***************************************************************************)
EXTENDS Integers, FiniteSets, SequencesExt

CONSTANT Files   \* bound: the files to load

VARIABLES
  file,        \* config.cfg
  loading,     \* how far the start is: "no", "config", "zones", "exit"
  units,       \* vecMapUnit of all maps, in order
  neighbours,  \* m_mapNeighbourMaps
  groups,      \* m_vZoneGroup
  zones,       \* m_lstZone of the zone manager
  mst          \* the rows of the last generated MST

Init ==
  /\ file \in Files
  /\ loading = "no"
  /\ units = <<>> /\ neighbours = {} /\ groups = <<>>
  /\ zones = <<>> /\ mst = <<>>

-----------------------------------------------------------------------------
Size(map) == map.x * map.y

LinesOf(f) == FlattenSeq([t \in DOMAIN f |->
  [i \in DOMAIN f[t].unit |->
     [id |-> <<t, i - 1>>, zone |-> f[t].unit[i].zone, server |-> f[t].unit[i].server,
      island |-> Size(f[t]) = 1]]])

Chosen(table) == {row[1] : row \in {r \in table : r[2]}}

\* Mutant: the end of a row is not looked at.
NeighboursAtM(i, m, n) ==
  LET left  == i % m # 0
      right == i + 1 < m * n
  IN Chosen({<<i - 1, left>>, <<i - 1 - m, left /\ i > m>>, <<i - 1 + m, left /\ i + m < m * n>>,
             <<i + 1, right>>, <<i + 1 - m, right /\ i > m>>, <<i + 1 + m, right /\ i + m + 1 < m * n>>,
             <<i - m, i - m >= 0>>, <<i + m, i + m < m * n>>})

\* The positions next to i on a map of n rows of m units, each with its condition.
NeighboursAt(i, m, n) ==
  LET left  == i % m # 0
      right == i + 1 < m * n /\ (i + 1) % m # 0
  IN Chosen({<<i - 1, left>>,
             <<i - 1 - m, left /\ i > m>>,
             <<i - 1 + m, left /\ i + m < m * n>>,
             <<i - m, i - m >= 0>>,
             <<i + 1, right>>,
             <<i + 1 - m, right /\ i > m>>,
             <<i + 1 + m, right /\ i + m + 1 <= m * n>>,
             <<i + m, i + m < m * n>>})

\* A map of one unit is an island and has no neighbours.
AssignNeighbourState(f) ==
  UNION {LET m == f[t].y  n == f[t].x
         IN {<< <<t, i>>, <<t, j>> >> : <<i, j>> \in
               {p \in (0 .. m * n - 1) \X (0 .. m * n - 1) :
                  m * n > 1 /\ p[2] \in NeighboursAt(p[1], m, n)}} : t \in DOMAIN f}

MaxZoneID(us) == FoldLeft(LAMBDA a, u : IF u.zone > a THEN u.zone ELSE a, 0, us)

\* A zone id above the number of units is refused; units without one get the
\* ids after the largest, in order.
ZonesFit(us) == MaxZoneID(us) <= Len(us)
AssignZoneID(us) ==
  [k \in DOMAIN us |->
     IF us[k].zone # 0 THEN us[k]
     ELSE [us[k] EXCEPT !.zone =
             MaxZoneID(us) + Cardinality({j \in 1 .. k : us[j].zone = 0})]]

\* Mutant: a unit is added to the first group of its map, whatever its server.
LoadZoneGroupM(us) ==
  FoldLeft(LAMBDA gs, u :
      LET k == SelectInSeq(gs, LAMBDA g : g.map = u.id[1])
      IN  IF k = 0 THEN Append(gs, [server |-> u.server, map |-> u.id[1], zones |-> {u.zone}])
          ELSE [gs EXCEPT ![k].zones = @ \cup {u.zone}], <<>>, us)

\* One group for each server that a unit names.
LoadZoneGroup(us) ==
  FoldLeft(LAMBDA gs, u :
      LET k == SelectInSeq(gs, LAMBDA g : g.server = u.server)
      IN  IF k = 0 THEN Append(gs, [server |-> u.server, map |-> u.id[1], zones |-> {u.zone}])
          ELSE [gs EXCEPT ![k].zones = @ \cup {u.zone}], <<>>, us)

\* Every zone id once, in the order of the units.
GetAllZoneID(us) ==
  FoldLeft(LAMBDA zs, u : IF Contains(zs, u.zone) THEN zs ELSE Append(zs, u.zone), <<>>, us)

GetMapUnitByZone(us, z) == SelectSeq(us, LAMBDA u : u.zone = z)

\* Rows of the MST, zone by zone.
GenerateMapUnit2Server(zs) ==
  FlattenSeq([k \in DOMAIN zs |->
    [i \in DOMAIN zs[k].units |-> [unit |-> zs[k].units[i], server |-> zs[k].server]]])
-----------------------------------------------------------------------------
\* LoadConfigFile: a map without all its units, or a zone id that is too large,
\* ends the process.  mapID of a line is tested before anything is stored in it:
\* a file that has a line may be refused whatever it says.
LoadConfigFile ==
  /\ loading = "no"
  /\ LET read == LinesOf(file) IN
     \/ /\ \A t \in DOMAIN file : Size(file[t]) = Len(file[t].unit)
        /\ neighbours' = AssignNeighbourState(file)
        /\ units' = IF ZonesFit(read) THEN AssignZoneID(read) ELSE read
        /\ groups' = LoadZoneGroup(units')
        /\ loading' = IF ZonesFit(read) THEN "config" ELSE "exit"
     \/ /\ \/ \E t \in DOMAIN file : Size(file[t]) # Len(file[t].unit)
           \/ read # <<>>
        /\ loading' = "exit"
        /\ UNCHANGED <<neighbours, units, groups>>
  /\ UNCHANGED <<file, zones, mst>>

\* A zone is an island when its first unit is.
LoadZoneInfo ==
  /\ loading = "config"
  /\ loading' = "zones"
  /\ zones' = [k \in DOMAIN GetAllZoneID(units) |->
       LET z == GetAllZoneID(units)[k]
           on == GetMapUnitByZone(units, z)
       IN [id |-> z, island |-> on[1].island, server |-> 0,
           units |-> [i \in DOMAIN on |-> on[i].id]]]
  /\ UNCHANGED <<file, units, neighbours, groups, mst>>

\* A server takes the first group of the pool: its zones get its id, and the
\* MST that follows has a row for every unit.
Join(id) ==
  /\ loading = "zones"
  /\ groups # <<>>
  /\ groups' = Tail(groups)
  /\ zones' = [k \in DOMAIN zones |->
       IF zones[k].id \in Head(groups).zones THEN [zones[k] EXCEPT !.server = id] ELSE zones[k]]
  /\ mst' = GenerateMapUnit2Server(zones')
  /\ UNCHANGED <<file, loading, units, neighbours>>

MapNext == LoadConfigFile \/ LoadZoneInfo \/ \E id \in 1 .. 2 : Join(id)
-----------------------------------------------------------------------------
(* Properties *)

Row(p, m) == p \div m
Col(p, m) == p % m
Apart(a, b) == IF a < b THEN b - a ELSE a - b

\* The neighbours of a unit are the units around it on its map, for maps of all
\* shapes, with one exception: the first unit of the second row does not have
\* the second unit of the first row, which has it.
NeighboursExact ==
  loading \in {"config", "zones"} =>
    neighbours =
      {<<u.id, v.id>> : <<u, v>> \in
         {p \in ToSet(units) \X ToSet(units) :
            LET t == p[1].id[1]  a == p[1].id[2]  b == p[2].id[2]  m == file[t].y
            IN /\ p[2].id[1] = t /\ a # b
               /\ Apart(Row(a, m), Row(b, m)) <= 1 /\ Apart(Col(a, m), Col(b, m)) <= 1
               /\ ~(a = m /\ b = 1 /\ m > 1)}}

ServersOf(z) == {u.server : u \in {v \in ToSet(units) : v.zone = z}}

\* A zone whose units all name one server waits in one group; one whose units
\* name two is in two groups and is given out twice.  Units without a zone of
\* their own are alone in theirs, and every unit has one row in the MST, with the
\* server of its zone.
WorldCovered ==
  /\ loading = "config" =>
       /\ \A k \in DOMAIN units :
            /\ Cardinality({i \in DOMAIN groups : units[k].zone \in groups[i].zones})
                 = Cardinality(ServersOf(units[k].zone))
            /\ LinesOf(file)[k].zone = 0 =>
                 \A j \in DOMAIN units : units[j].zone = units[k].zone => j = k
       /\ \A i \in DOMAIN groups : groups[i].zones # {}
  /\ mst # <<>> =>
       /\ Len(mst) = Len(units)
       /\ \A u \in ToSet(units) : \E r \in ToSet(mst), z \in ToSet(zones) :
            r.unit = u.id /\ z.id = u.zone /\ r.server = z.server
=============================================================================

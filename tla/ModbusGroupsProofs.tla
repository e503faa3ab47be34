-------------------------- MODULE ModbusGroupsProofs --------------------------
(***************************************************************************)
(* Theorems about ModbusGroups, for any points, tables, limits and address *)
(* space within the assumptions of the module.                             *)
(***************************************************************************)
EXTENDS ModbusGroups, FiniteSetTheorems, TLAPS

\* A request that holds its points, as RequestsLegal and EveryPointCovered say.
Sound(g) ==
    /\ g.address \in 0..(AddressSpace - 1) /\ g.quantity \in 1..MaxQuantity(g.register)
    /\ g.address + g.quantity <= AddressSpace
    /\ \A p \in g.points : /\ point[p].register = g.register
                           /\ g.address <= point[p].address
                           /\ PointEnd(p) <= g.address + g.quantity

\* The complete groups, and the one in work: it begins before all that is left.
GroupsSound ==
    /\ \A i \in DOMAIN groups : Sound(groups[i])
    /\ current.points # {} => /\ Sound(current)
                              /\ table \in DOMAIN Tables
                              /\ current.register = Tables[table]
                              /\ \A p \in todo : current.address <= point[p].address

\* The groups divide up the points that have been taken.
GroupsDivide ==
    /\ todo \subseteq PointsOf(table)
    /\ current.points \subseteq Taken
    /\ \A i \in DOMAIN groups : /\ groups[i].points \subseteq Taken
                                /\ groups[i].points \cap current.points = {}
    /\ \A i, j \in DOMAIN groups : i # j => groups[i].points \cap groups[j].points = {}
    /\ \A p \in Taken : p \in current.points \/ \E i \in DOMAIN groups : p \in groups[i].points

Inv == TypeOK /\ GroupsSound /\ GroupsDivide

-----------------------------------------------------------------------------
\* What ParsePoint guarantees of a definition.
LEMMA ChoiceFacts ==
    ASSUME point \in [Points -> Choices], NEW p \in Points
    PROVE  /\ point[p].address \in 0..(AddressSpace - 1) /\ point[p].count \in {1, 2, 4}
           /\ point[p].register \in Registers
           /\ PointEnd(p) \in Nat /\ PointEnd(p) <= AddressSpace
           /\ PointEnd(p) - point[p].address = point[p].count
           /\ point[p].count \in 1..MaxQuantity(point[p].register)
<1>1. point[p] \in Choices OBVIOUS
<1>2. /\ point[p] \in [register : Registers, address : 0..(AddressSpace - 1), count : Counts]
      /\ Parses(point[p])
  BY <1>1, ChoicesAssumption
<1>3. /\ point[p].address \in 0..(AddressSpace - 1) /\ point[p].count \in {1, 2, 4}
      /\ point[p].register \in Registers
  BY <1>2 DEF Counts
<1>4. QED
  BY <1>2, <1>3, LimitAssumption DEF PointEnd, Parses, MaxQuantity

\* The limits are small enough for 16 bits.
LEMMA LimitFacts ==
    ASSUME NEW register
    PROVE  /\ MaxQuantity(register) \in Nat /\ MaxQuantity(register) >= 1
           /\ MaxQuantity(register) < AddressSpace
BY LimitAssumption DEF MaxQuantity

\* A conversion to uint16 that loses nothing.
LEMMA Uint16Exact ==
    ASSUME NEW n \in Nat, n < AddressSpace
    PROVE  Uint16(n) = n
BY LimitAssumption DEF Uint16

\* A group with one point is a legal request for it.
LEMMA SingleSound ==
    ASSUME point \in [Points -> Choices], NEW p \in Points
    PROVE  /\ Sound(GroupOf(p)) /\ GroupOf(p) \in GroupType
           /\ GroupOf(p).points = {p} /\ GroupOf(p).address = point[p].address
           /\ GroupOf(p).register = point[p].register
<1>1. Uint16(PointEnd(p) - point[p].address) = point[p].count
  BY ChoiceFacts, Uint16Exact, LimitAssumption
<1>2. QED
  BY <1>1, ChoiceFacts, LimitAssumption DEF Sound, GroupOf, GroupType

\* A group that has room for a point that begins no earlier stays legal.
LEMMA ExtendedSound ==
    ASSUME Inv, NEW p \in todo, current.points # {}, HasRoom(p),
           NEW g, g = [current EXCEPT !.quantity = Uint16(Span(p)), !.points = @ \cup {p}]
    PROVE  /\ Sound(g) /\ g \in GroupType
           /\ g.points = current.points \cup {p} /\ g.address = current.address
           /\ g.register = current.register
<1>1. /\ p \in Points /\ point \in [Points -> Choices] /\ current \in GroupType
      /\ Sound(current) /\ current.register = Tables[table]
      /\ current.address <= point[p].address /\ point[p].register = Tables[table]
  BY DEF Inv, TypeOK, GroupsSound, GroupsDivide, PointsOf
<1>2. /\ current.address \in Nat /\ current.quantity \in Nat
      /\ current.address + current.quantity <= AddressSpace
  BY <1>1, LimitAssumption, LimitFacts DEF Sound, GroupType
<1>3. /\ Span(p) \in 1..MaxQuantity(current.register)
      /\ current.address + Span(p) <= AddressSpace
      /\ current.quantity <= Span(p) /\ PointEnd(p) <= current.address + Span(p)
  BY <1>1, <1>2, ChoiceFacts, LimitFacts, LimitAssumption DEF HasRoom, Span, NextEnd
<1>4. Uint16(Span(p)) = Span(p)
  BY <1>3, LimitFacts, Uint16Exact, LimitAssumption
<1>5. /\ g.quantity = Span(p) /\ g.points = current.points \cup {p}
      /\ g.address = current.address /\ g.register = current.register
      /\ g \in GroupType
  <2>1. g = [current EXCEPT !.quantity = Span(p), !.points = @ \cup {p}]
    BY <1>4
  <2>2. Span(p) \in 0..(AddressSpace - 1)
    BY <1>3, LimitFacts, LimitAssumption
  <2>3. current.points \cup {p} \in SUBSET Points
    BY <1>1 DEF GroupType
  <2>4. QED BY <2>1, <2>2, <2>3, <1>1 DEF GroupType
<1>6. Sound(g)
  <2>1. ASSUME NEW q \in g.points
        PROVE  /\ point[q].register = g.register
               /\ g.address <= point[q].address /\ PointEnd(q) <= g.address + g.quantity
    <3>1. CASE q = p BY <3>1, <1>1, <1>3, <1>5
    <3>2. CASE q \in current.points
      <4>1. q \in Points BY <1>1, <3>2 DEF GroupType
      <4>2. PointEnd(q) <= current.address + current.quantity BY <1>1, <3>2 DEF Sound
      <4>3. PointEnd(q) \in Nat BY <4>1, <1>1, ChoiceFacts
      <4>4. PointEnd(q) <= g.address + g.quantity
        BY <4>2, <4>3, <1>2, <1>3, <1>5, LimitFacts
      <4>5. QED BY <1>1, <1>5, <3>2, <4>4 DEF Sound
    <3>3. QED BY <2>1, <3>1, <3>2, <1>5
  <2>2. QED BY <2>1, <1>1, <1>2, <1>3, <1>5 DEF Sound
<1>7. QED BY <1>5, <1>6

-----------------------------------------------------------------------------
\* The tables are numbered from 1, and NoGroup stands for no group.
LEMMA TableFacts ==
    /\ Len(Tables) \in Nat \ {0} /\ DOMAIN Tables = 1..Len(Tables)
    /\ NoGroup \in GroupType /\ NoGroup.points = {}
<1>1. Len(Tables) \in Nat \ {0} /\ DOMAIN Tables = 1..Len(Tables)
  BY TablesAssumption
<1>2. Tables[1] \in Registers BY <1>1 DEF Registers
<1>3. QED BY <1>1, <1>2, LimitAssumption DEF NoGroup, GroupType

\* groupPoints begins with no group and the points of the first table.
LEMMA InitInv == Init => Inv
<1> SUFFICES ASSUME Init PROVE Inv OBVIOUS
<1>1. Taken = {} BY TableFacts DEF Init, Taken
<1>2. TypeOK BY TableFacts DEF Init, TypeOK, PointsOf
<1>3. GroupsSound BY TableFacts DEF Init, GroupsSound
<1>4. GroupsDivide BY <1>1, TableFacts DEF Init, GroupsDivide
<1>5. QED BY <1>2, <1>3, <1>4 DEF Inv

\* The next point is not taken yet, and the points behind it begin no earlier.
LEMMA NextPoint ==
    ASSUME Inv, NEW p \in Points, First(p)
    PROVE  /\ p \in todo /\ p \notin Taken /\ table \in DOMAIN Tables
           /\ point[p].register = Tables[table]
           /\ \A q \in todo : point[p].address <= point[q].address
<1>1. p \in todo /\ p \in PointsOf(table)
  BY DEF First, Inv, GroupsDivide
<1>2. table \in DOMAIN Tables /\ point[p].register = Tables[table]
  BY <1>1 DEF PointsOf
<1>3. p \notin Taken
  <2>1. table \in Nat BY <1>2, TableFacts
  <2>2. \A i \in 1..(table - 1) : i \in DOMAIN Tables /\ i # table
    BY <2>1, <1>2, TableFacts
  <2>3. QED BY <1>1, <1>2, <2>2, TablesAssumption DEF Taken
<1>4. ASSUME NEW q \in todo PROVE point[p].address <= point[q].address
  <2>1. /\ q \in Points /\ point \in [Points -> Choices]
    BY DEF Inv, TypeOK
  <2>2. point[p].address \in Nat /\ point[q].address \in Nat
    BY <2>1, ChoiceFacts, LimitAssumption
  <2>3. q = p \/ Before(p, q) BY DEF First
  <2>4. QED BY <2>2, <2>3 DEF Before
<1>5. QED BY <1>1, <1>2, <1>3, <1>4

\* A step that takes a point takes nothing else.
LEMMA TakeOne ==
    ASSUME Inv, NEW p \in Points, First(p), todo' = todo \ {p},
           UNCHANGED <<point, table>>
    PROVE  Taken' = Taken \cup {p} /\ todo' \subseteq PointsOf(table)'
<1>1. p \in todo /\ todo \subseteq PointsOf(table) /\ p \in PointsOf(table)
  BY DEF First, Inv, GroupsDivide
<1>2. PointsOf(table)' = PointsOf(table) BY DEF PointsOf
<1>3. QED BY <1>1, <1>2 DEF Taken

\* One lemma for each step.
LEMMA OpenInv == ASSUME Inv, NEW p \in Points, OpenGroup(p) PROVE Inv'
<1>1. /\ First(p) /\ current.points = {} /\ current' = GroupOf(p) /\ todo' = todo \ {p}
      /\ UNCHANGED <<point, order, table, groups, reading, values>>
  BY DEF OpenGroup
<1>2. /\ point \in [Points -> Choices] /\ groups \in Seq(GroupType) BY DEF Inv, TypeOK
<1>3. TypeOK' BY <1>1, SingleSound DEF Inv, TypeOK
<1>4. GroupsSound'
  BY <1>1, <1>2, SingleSound, NextPoint DEF Inv, GroupsSound, Sound, PointEnd
<1>5. GroupsDivide'
  BY <1>1, <1>2, SingleSound, NextPoint, TakeOne DEF Inv, GroupsDivide
<1>6. QED BY <1>3, <1>4, <1>5 DEF Inv

\* The group in work takes one more point.
LEMMA ExtendInv == ASSUME Inv, NEW p \in Points, ExtendGroup(p) PROVE Inv'
<1>1. /\ First(p) /\ current.points # {} /\ HasRoom(p) /\ todo' = todo \ {p}
      /\ current' = [current EXCEPT !.quantity = Uint16(Span(p)), !.points = @ \cup {p}]
      /\ UNCHANGED <<point, order, table, groups, reading, values>>
  BY DEF ExtendGroup
<1>2. /\ Sound(current') /\ current' \in GroupType
      /\ current'.points = current.points \cup {p} /\ current'.address = current.address
      /\ current'.register = current.register
  BY <1>1, ExtendedSound, NextPoint
<1>3. TypeOK' BY <1>1, <1>2 DEF Inv, TypeOK
<1>4. GroupsSound' BY <1>1, <1>2 DEF Inv, GroupsSound, Sound, PointEnd
<1>5. GroupsDivide' BY <1>1, <1>2, NextPoint, TakeOne DEF Inv, GroupsDivide
<1>6. QED BY <1>3, <1>4, <1>5 DEF Inv

\* The group in work is closed and the point opens the next.
LEMMA SplitInv == ASSUME Inv, NEW p \in Points, SplitGroup(p) PROVE Inv'
<1>1. /\ First(p) /\ current.points # {} /\ current' = GroupOf(p) /\ todo' = todo \ {p}
      /\ groups' = Append(groups, current)
      /\ UNCHANGED <<point, order, table, reading, values>>
  BY DEF SplitGroup
<1>2. /\ point \in [Points -> Choices] /\ groups \in Seq(GroupType)
      /\ current \in GroupType /\ Sound(current)
  BY <1>1 DEF Inv, TypeOK, GroupsSound
<1>3. /\ DOMAIN groups' = DOMAIN groups \cup {Len(groups) + 1}
      /\ Len(groups) + 1 \notin DOMAIN groups
      /\ Len(groups') = Len(groups) + 1 /\ Len(groups) \in Nat
      /\ \A i \in DOMAIN groups : groups'[i] = groups[i]
      /\ groups'[Len(groups) + 1] = current
  BY <1>1, <1>2
<1>4. TypeOK' BY <1>1, <1>2, <1>3, SingleSound DEF Inv, TypeOK
<1>5. GroupsSound'
  BY <1>1, <1>2, <1>3, SingleSound, NextPoint DEF Inv, GroupsSound, Sound, PointEnd
<1>6. GroupsDivide'
  BY <1>1, <1>2, <1>3, SingleSound, NextPoint, TakeOne DEF Inv, GroupsDivide
<1>7. QED BY <1>4, <1>5, <1>6 DEF Inv

\* The end of a table takes no point.
LEMMA NextTableInv == ASSUME Inv, NextTable PROVE Inv'
<1>1. /\ table \in DOMAIN Tables /\ todo = {} /\ current' = NoGroup /\ table' = table + 1
      /\ groups' = IF current.points = {} THEN groups ELSE Append(groups, current)
      /\ todo' = PointsOf(table + 1) /\ UNCHANGED <<point, order, reading, values>>
  BY DEF NextTable
<1>2. /\ point \in [Points -> Choices] /\ groups \in Seq(GroupType)
      /\ current \in GroupType /\ table \in Nat \ {0} /\ reading \in 0..Len(groups)
  BY <1>1, TableFacts DEF Inv, TypeOK
<1>3. todo' = PointsOf(table)' BY <1>1 DEF PointsOf
<1>4. Taken' = Taken
  <2>1. 1..(table' - 1) = (1..(table - 1)) \cup {table} BY <1>1, <1>2
  <2>2. Taken' = {q \in Points : \E i \in 1..(table' - 1) : point[q].register = Tables[i]}
    BY <1>1, <1>3 DEF Taken
  <2>3. Taken = {q \in Points : \/ \E i \in 1..(table - 1) : point[q].register = Tables[i]
                                \/ point[q].register = Tables[table]}
    BY <1>1 DEF Taken, PointsOf
  <2>4. QED BY <2>1, <2>2, <2>3
<1>5. CASE current.points = {}
  <2>1. groups' = groups BY <1>1, <1>5
  <2>2. TypeOK' BY <1>1, <1>2, <2>1, TableFacts DEF Inv, TypeOK, PointsOf
  <2>3. GroupsSound' BY <1>1, <2>1, TableFacts DEF Inv, GroupsSound, Sound, PointEnd
  <2>4. GroupsDivide' BY <1>1, <1>3, <1>4, <1>5, <2>1, TableFacts DEF Inv, GroupsDivide
  <2>5. QED BY <2>2, <2>3, <2>4 DEF Inv
<1>6. CASE current.points # {}
  <2>1. groups' = Append(groups, current) BY <1>1, <1>6
  <2>2. /\ DOMAIN groups' = DOMAIN groups \cup {Len(groups) + 1}
        /\ Len(groups) + 1 \notin DOMAIN groups
        /\ Len(groups') = Len(groups) + 1 /\ Len(groups) \in Nat
        /\ \A i \in DOMAIN groups : groups'[i] = groups[i]
        /\ groups'[Len(groups) + 1] = current
    BY <1>2, <2>1
  <2>3. TypeOK' BY <1>1, <1>2, <2>1, <2>2, TableFacts DEF Inv, TypeOK, PointsOf
  <2>4. GroupsSound' BY <1>1, <1>6, <2>2, TableFacts DEF Inv, GroupsSound, Sound, PointEnd
  <2>5. GroupsDivide' BY <1>1, <1>3, <1>4, <2>2, TableFacts DEF Inv, GroupsDivide
  <2>6. QED BY <2>3, <2>4, <2>5 DEF Inv
<1>7. QED BY <1>5, <1>6

\* Reading and stuttering leave the groups alone.
LEMMA SameGroups ==
    ASSUME Inv, UNCHANGED <<point, order, table, todo, current, groups>>,
           reading' \in 0..Len(groups), DOMAIN values' \subseteq Points
    PROVE  Inv'
<1>1. TypeOK' BY DEF Inv, TypeOK
<1>2. GroupsSound' BY DEF Inv, GroupsSound, Sound, PointEnd
<1>3. Taken' = Taken /\ PointsOf(table)' = PointsOf(table) BY DEF Taken, PointsOf
<1>4. GroupsDivide' BY <1>3 DEF Inv, GroupsDivide
<1>5. QED BY <1>1, <1>2, <1>4 DEF Inv

\* readGroup only adds values.
LEMMA ReadInv == ASSUME Inv, ReadGroup PROVE Inv'
<1>1. /\ reading < Len(groups) /\ reading' = reading + 1
      /\ UNCHANGED <<point, order, table, todo, current, groups>>
  BY DEF ReadGroup
<1>2. /\ groups \in Seq(GroupType) /\ reading \in 0..Len(groups)
      /\ DOMAIN values \subseteq Points
  BY DEF Inv, TypeOK
<1>3. reading' \in 0..Len(groups) /\ reading + 1 \in DOMAIN groups BY <1>1, <1>2
<1>4. groups[reading + 1].points \subseteq Points
  <2>1. groups[reading + 1] \in GroupType BY <1>2, <1>3
  <2>2. QED BY <2>1 DEF GroupType
<1>5. DOMAIN values' \subseteq Points BY <1>2, <1>4 DEF ReadGroup
<1>6. QED BY <1>1, <1>3, <1>5, SameGroups

\* The inductive invariant of groupPoints.
THEOREM Invariance == Spec => []Inv
<1>1. Inv /\ [Next]_vars => Inv'
  <2> SUFFICES ASSUME Inv, [Next]_vars PROVE Inv' OBVIOUS
  <2>1. CASE \E p \in Points : OpenGroup(p) \/ ExtendGroup(p) \/ SplitGroup(p)
    BY <2>1, OpenInv, ExtendInv, SplitInv
  <2>2. CASE NextTable BY <2>2, NextTableInv
  <2>3. CASE ReadGroup BY <2>3, ReadInv
  <2>4. CASE UNCHANGED vars
    <3>1. reading' \in 0..Len(groups) /\ DOMAIN values' \subseteq Points
      BY <2>4 DEF vars, Inv, TypeOK
    <3>2. QED BY <3>1, <2>4, SameGroups DEF vars
  <2>5. QED BY <2>1, <2>2, <2>3, <2>4 DEF Next
<1>2. QED BY <1>1, InitInv, PTL DEF Spec

\* Every variable keeps its type, for any points and limits.
THEOREM GroupsTypeCorrect == Spec => []TypeOK
<1>1. Inv => TypeOK BY DEF Inv
<1>2. QED BY <1>1, Invariance, PTL

\* mergeRegisterPoints never builds a request that is empty, longer than the
\* limit of its table or past the end of the address space.
THEOREM GroupsLegal == Spec => []RequestsLegal
<1>1. Inv => RequestsLegal
  <2> SUFFICES ASSUME Inv, NEW g \in Groups
               PROVE  /\ 1 <= g.quantity /\ g.quantity <= MaxQuantity(g.register)
                      /\ g.address + g.quantity <= AddressSpace
    BY DEF RequestsLegal
  <2>1. Sound(g) BY DEF Groups, Inv, GroupsSound
  <2>2. QED BY <2>1, LimitFacts DEF Sound
<1>2. QED BY <1>1, Invariance, PTL

\* Every point is in exactly one request, and its registers are inside.
THEOREM PointsCovered == Spec => []EveryPointCovered
<1>1. Inv => EveryPointCovered
  <2> SUFFICES ASSUME Inv, NEW p \in Taken
      PROVE  /\ \E g \in Groups :
                  /\ p \in g.points /\ g.register = point[p].register
                  /\ g.address <= point[p].address
                  /\ PointEnd(p) <= g.address + g.quantity
             /\ \A i, j \in DOMAIN groups :
                  p \in groups[i].points \cap groups[j].points => i = j
             /\ \A i \in DOMAIN groups : p \notin groups[i].points \cap current.points
    BY DEF EveryPointCovered
  <2>1. \E g \in Groups : p \in g.points /\ Sound(g)
    BY DEF Inv, GroupsDivide, GroupsSound, Groups
  <2>2. \E g \in Groups : /\ p \in g.points /\ g.register = point[p].register
                          /\ g.address <= point[p].address
                          /\ PointEnd(p) <= g.address + g.quantity
    BY <2>1 DEF Sound
  <2>3. QED BY <2>2 DEF Inv, GroupsDivide
<1>2. QED BY <1>1, Invariance, PTL

-----------------------------------------------------------------------------
(* Fewest requests: the point that opens a group does not fit into one     *)
(* request with the beginning of any earlier group of its table.           *)

\* p opened g, after the first n groups.
Leader(p, g, n) ==
    /\ p \in g.points /\ point[p].address = g.address
    /\ \A i \in 1..n : groups[i].register = g.register =>
           PointEnd(p) - groups[i].address > MaxQuantity(g.register)

\* Every group was opened by such a point, and the groups of the table that is
\* merged begin no later than the one in work.
GroupsLed ==
    /\ \A j \in DOMAIN groups : \E p \in Points : Leader(p, groups[j], j - 1)
    /\ current.points # {} => \E p \in Points : Leader(p, current, Len(groups))
    /\ \A i \in DOMAIN groups : \E t \in DOMAIN Tables :
          /\ t <= table /\ groups[i].register = Tables[t]
          /\ t = table => current.points # {} /\ groups[i].address <= current.address

\* There is no group to begin with.
LEMMA LedInit == Init => GroupsLed
BY TableFacts DEF Init, GroupsLed

\* The first group of a table: no earlier group is of that table.
LEMMA LedOpen == ASSUME Inv, GroupsLed, NEW p \in Points, OpenGroup(p) PROVE GroupsLed'
<1>1. /\ First(p) /\ current.points = {} /\ current' = GroupOf(p) /\ todo' = todo \ {p}
      /\ UNCHANGED <<point, order, table, groups, reading, values>>
  BY DEF OpenGroup
<1>2. /\ point \in [Points -> Choices] /\ groups \in Seq(GroupType) BY DEF Inv, TypeOK
<1>3. Len(groups) \in Nat /\ DOMAIN groups = 1..Len(groups) BY <1>2
<1>4. /\ table \in DOMAIN Tables /\ point[p].register = Tables[table]
  BY <1>1, NextPoint
<1>5. \A i \in DOMAIN groups : groups[i].register # Tables[table]
  BY <1>1, <1>4, TablesAssumption DEF GroupsLed
<1>6. Leader(p, current, Len(groups))'
  BY <1>1, <1>2, <1>3, <1>4, <1>5, SingleSound DEF Leader
<1>7. \A j \in DOMAIN groups' : \E q \in Points : Leader(q, groups[j], j - 1)'
  BY <1>1 DEF GroupsLed, Leader, PointEnd
<1>8. QED BY <1>1, <1>5, <1>6, <1>7 DEF GroupsLed

\* A point that joins the group leaves the leader and the beginning alone.
LEMMA LedExtend == ASSUME Inv, GroupsLed, NEW p \in Points, ExtendGroup(p) PROVE GroupsLed'
<1>1. /\ First(p) /\ current.points # {} /\ HasRoom(p) /\ todo' = todo \ {p}
      /\ current' = [current EXCEPT !.quantity = Uint16(Span(p)), !.points = @ \cup {p}]
      /\ UNCHANGED <<point, order, table, groups, reading, values>>
  BY DEF ExtendGroup
<1>2. /\ current'.points = current.points \cup {p} /\ current'.address = current.address
      /\ current'.register = current.register
  BY <1>1, ExtendedSound, NextPoint
<1>3. \E q \in Points : Leader(q, current, Len(groups))'
  BY <1>1, <1>2 DEF GroupsLed, Leader, PointEnd
<1>4. \A j \in DOMAIN groups' : \E q \in Points : Leader(q, groups[j], j - 1)'
  BY <1>1 DEF GroupsLed, Leader, PointEnd
<1>5. QED BY <1>1, <1>2, <1>3, <1>4 DEF GroupsLed

\* The group in work becomes the last complete one.
LEMMA LedAppend ==
    ASSUME Inv, GroupsLed, current.points # {}, UNCHANGED point,
           groups' = Append(groups, current)
    PROVE  \A j \in DOMAIN groups' : \E q \in Points : Leader(q, groups[j], j - 1)'
<1>1. groups \in Seq(GroupType) BY DEF Inv, TypeOK
<1>2. PICK n \in Nat : n = Len(groups) BY <1>1
<1>3. /\ DOMAIN groups = 1..n /\ DOMAIN groups' = 1..(n + 1)
      /\ \A i \in 1..n : groups'[i] = groups[i]
      /\ groups'[n + 1] = current
  BY <1>1, <1>2
<1>4. TAKE j \in DOMAIN groups'
<1>5. CASE j \in 1..n
  <2>1. PICK q \in Points : Leader(q, groups[j], j - 1) BY <1>3, <1>5 DEF GroupsLed
  <2>2. \A i \in 1..(j - 1) : i \in 1..n BY <1>5
  <2>3. Leader(q, groups[j], j - 1)'
    BY <1>3, <1>5, <2>1, <2>2 DEF Leader, PointEnd
  <2>4. QED BY <2>3
<1>6. CASE j = n + 1
  <2>1. PICK q \in Points : Leader(q, current, n) BY <1>2 DEF GroupsLed
  <2>2. j - 1 = n /\ groups'[j] = current BY <1>3, <1>6
  <2>3. Leader(q, groups[j], j - 1)'
    BY <1>3, <2>1, <2>2 DEF Leader, PointEnd
  <2>4. QED BY <2>3
<1>7. QED BY <1>3, <1>5, <1>6

\* A point without room ends too far from where the group in work begins, and so
\* from where all the earlier ones begin.
LEMMA LedSplit == ASSUME Inv, GroupsLed, NEW p \in Points, SplitGroup(p) PROVE GroupsLed'
<1>1. /\ First(p) /\ current.points # {} /\ ~HasRoom(p)
      /\ current' = GroupOf(p) /\ todo' = todo \ {p}
      /\ groups' = Append(groups, current)
      /\ UNCHANGED <<point, order, table, reading, values>>
  BY DEF SplitGroup
<1>2. /\ point \in [Points -> Choices] /\ groups \in Seq(GroupType)
      /\ current \in GroupType /\ Sound(current) /\ current.register = Tables[table]
  BY <1>1 DEF Inv, TypeOK, GroupsSound
<1>3. /\ p \in todo /\ table \in DOMAIN Tables /\ point[p].register = Tables[table]
  BY <1>1, NextPoint
<1>4. current.address <= point[p].address
  BY <1>1, <1>3 DEF Inv, GroupsSound
<1>5. /\ current.address \in Nat /\ current.quantity \in Nat
      /\ current.quantity <= MaxQuantity(Tables[table])
      /\ PointEnd(p) \in Nat /\ MaxQuantity(Tables[table]) \in Nat
  BY <1>2, LimitAssumption, LimitFacts, ChoiceFacts DEF Sound, GroupType
<1>6. PointEnd(p) - current.address > MaxQuantity(Tables[table])
  BY <1>1, <1>5 DEF HasRoom, Span, NextEnd
<1>7. PICK n \in Nat : n = Len(groups) BY <1>2
<1>8. /\ DOMAIN groups = 1..n /\ DOMAIN groups' = 1..(n + 1) /\ Len(groups') = n + 1
      /\ \A i \in 1..n : groups'[i] = groups[i]
      /\ groups'[n + 1] = current
  BY <1>1, <1>2, <1>7
<1>9. \A i \in 1..n : groups[i].address \in Nat
  <2>1. \A i \in 1..n : groups[i] \in GroupType BY <1>2, <1>8
  <2>2. QED BY <2>1, LimitAssumption DEF GroupType
<1>10. \A i \in 1..(n + 1) : groups'[i].register = Tables[table] =>
           groups'[i].address \in Nat /\ groups'[i].address <= current.address
  <2>1. ASSUME NEW i \in 1..n, groups[i].register = Tables[table]
        PROVE  groups[i].address <= current.address
    BY <2>1, <1>3, <1>8, TablesAssumption DEF GroupsLed
  <2>2. ASSUME NEW i \in 1..(n + 1) PROVE i \in 1..n \/ i = n + 1
    BY <1>7
  <2>3. QED BY <2>1, <2>2, <1>5, <1>8, <1>9
<1>11. /\ current'.points = {p} /\ current'.address = point[p].address
       /\ current'.register = Tables[table] /\ point[p].address \in Nat
  BY <1>1, <1>2, <1>3, SingleSound, ChoiceFacts, LimitAssumption
<1>12. Leader(p, current, Len(groups))'
  <2>1. \A i \in 1..(n + 1) : groups'[i].register = Tables[table] =>
            PointEnd(p) - groups'[i].address > MaxQuantity(Tables[table])
    BY <1>5, <1>6, <1>10
  <2>2. PointEnd(p)' = PointEnd(p) BY <1>1 DEF PointEnd
  <2>3. QED BY <1>1, <1>8, <1>11, <2>1, <2>2 DEF Leader
<1>13. \A j \in DOMAIN groups' : \E q \in Points : Leader(q, groups[j], j - 1)'
  BY <1>1, LedAppend
<1>14. ASSUME NEW i \in DOMAIN groups'
       PROVE  \E t \in DOMAIN Tables :
                /\ t <= table' /\ groups'[i].register = Tables[t]
                /\ t = table' => current'.points # {} /\ groups'[i].address <= current'.address
  <2>0. table \in Nat BY <1>3, TableFacts
  <2>1. CASE i = n + 1
    <3>1. table <= table' /\ groups'[i].register = Tables[table]
      BY <1>1, <1>2, <1>8, <2>0, <2>1
    <3>2. groups'[i].address <= current'.address
      BY <1>4, <1>8, <1>11, <2>1
    <3>3. QED BY <1>3, <1>11, <3>1, <3>2
  <2>2. CASE i \in 1..n
    <3>1. PICK t \in DOMAIN Tables : t <= table /\ groups[i].register = Tables[t]
      BY <1>8, <2>2 DEF GroupsLed
    <3>2. groups'[i] = groups[i] BY <1>8, <2>2
    <3>3. t = table => groups'[i].address <= current'.address
      BY <1>4, <1>5, <1>8, <1>10, <1>11, <3>1, <3>2
    <3>4. QED BY <1>1, <1>11, <3>1, <3>2, <3>3
  <2>3. QED BY <1>8, <2>1, <2>2
<1>15. QED BY <1>12, <1>13, <1>14 DEF GroupsLed

\* The next table's groups have another register.
LEMMA LedTable == ASSUME Inv, GroupsLed, NextTable PROVE GroupsLed'
<1>1. /\ table \in DOMAIN Tables /\ current' = NoGroup /\ table' = table + 1
      /\ groups' = IF current.points = {} THEN groups ELSE Append(groups, current)
      /\ UNCHANGED point
  BY DEF NextTable
<1>2. /\ groups \in Seq(GroupType) /\ table \in Nat /\ \A t \in DOMAIN Tables : t \in Nat
  BY <1>1, TableFacts DEF Inv, TypeOK
<1>3. current'.points = {} BY <1>1, TableFacts
<1>4. \A j \in DOMAIN groups' : \E q \in Points : Leader(q, groups[j], j - 1)'
  <2>1. CASE current.points = {} BY <1>1, <2>1 DEF GroupsLed, Leader, PointEnd
  <2>2. CASE current.points # {} BY <1>1, <2>2, LedAppend
  <2>3. QED BY <2>1, <2>2
<1>5. ASSUME NEW i \in DOMAIN groups'
      PROVE  \E t \in DOMAIN Tables : t <= table /\ groups'[i].register = Tables[t]
  <2>1. CASE i \in DOMAIN groups /\ groups'[i] = groups[i] BY <2>1 DEF GroupsLed
  <2>2. CASE groups'[i] = current /\ current.points # {}
    <3>1. current.register = Tables[table] BY <2>2 DEF Inv, GroupsSound
    <3>2. QED BY <1>1, <1>2, <2>2, <3>1
  <2>3. QED BY <1>1, <1>2, <2>1, <2>2
<1>6. \A t \in DOMAIN Tables : t <= table => t <= table' /\ t # table'
  BY <1>1, <1>2
<1>7. QED BY <1>3, <1>4, <1>5, <1>6 DEF GroupsLed

\* Reading changes no group.
LEMMA LedSame ==
    ASSUME GroupsLed, UNCHANGED <<point, table, current, groups>>
    PROVE  GroupsLed'
BY DEF GroupsLed, Leader, PointEnd

\* The second inductive invariant, on top of Inv.
THEOREM LedInvariance == Spec => []GroupsLed
<1>1. Inv /\ GroupsLed /\ [Next]_vars => GroupsLed'
  <2> SUFFICES ASSUME Inv, GroupsLed, [Next]_vars PROVE GroupsLed' OBVIOUS
  <2>1. CASE \E p \in Points : OpenGroup(p) \/ ExtendGroup(p) \/ SplitGroup(p)
    BY <2>1, LedOpen, LedExtend, LedSplit
  <2>2. CASE NextTable BY <2>2, LedTable
  <2>3. CASE ReadGroup BY <2>3, LedSame DEF ReadGroup
  <2>4. CASE UNCHANGED vars BY <2>4, LedSame DEF vars
  <2>5. QED BY <2>1, <2>2, <2>3, <2>4 DEF Next
<1>2. QED BY <1>1, LedInit, Invariance, PTL DEF Spec

\* Two groups of a table have leaders that no request holds together.
LEMMA LeadersApart ==
    ASSUME Inv, NEW x \in DOMAIN groups, NEW y \in DOMAIN groups, x < y,
           groups[x].register = groups[y].register,
           NEW p \in Points, Leader(p, groups[x], x - 1),
           NEW q \in Points, Leader(q, groups[y], y - 1)
    PROVE  PointEnd(q) - point[p].address > MaxQuantity(groups[y].register)
<1>1. groups \in Seq(GroupType) BY DEF Inv, TypeOK
<1>2. x \in Nat /\ y \in Nat /\ x \in 1..(y - 1) BY <1>1
<1>3. QED BY <1>2 DEF Leader

\* mergeRegisterPoints never uses more requests than needed.
THEOREM RequestsFewest == Spec => []FewestRequests
<1>1. Inv /\ GroupsLed => FewestRequests
  <2> SUFFICES ASSUME Inv, GroupsLed, NEW i \in DOMAIN Tables,
                      NEW S, S = {j \in DOMAIN groups : groups[j].register = Tables[i]},
                      NEW used, used = Cardinality(S), used > 1,
                      NEW share \in [PointsOf(i) -> 1..(used - 1)],
                      \A k \in 1..(used - 1) :
                          Fits({p \in PointsOf(i) : share[p] = k}, Tables[i])
               PROVE  FALSE
    BY DEF FewestRequests
  <2>1. groups \in Seq(GroupType) BY DEF Inv, TypeOK
  <2>2. IsFiniteSet(S) /\ used \in Nat
    <3>1. Len(groups) \in Nat /\ DOMAIN groups = 1..Len(groups) BY <2>1
    <3>2. IsFiniteSet(DOMAIN groups)
      <4>1. PICK n \in Nat : n = Len(groups) BY <3>1
      <4>2. IsFiniteSet(1..n)
        <5>1. 1 \in Int /\ n \in Int OBVIOUS
        <5>2. QED BY <5>1, FS_Interval, Zenon
      <4>3. QED BY <3>1, <4>1, <4>2
    <3>3. S \in SUBSET DOMAIN groups OBVIOUS
    <3>4. QED BY <3>2, <3>3, FS_Subset, FS_CardinalityType
  <2> DEFINE L(j) == CHOOSE p \in Points : Leader(p, groups[j], j - 1)
             f == [j \in S |-> share[L(j)]]
  <2>3. ASSUME NEW j \in S
        PROVE  /\ L(j) \in Points /\ Leader(L(j), groups[j], j - 1)
               /\ L(j) \in PointsOf(i)
    <3>1. j \in DOMAIN groups /\ groups[j].register = Tables[i] OBVIOUS
    <3>2. L(j) \in Points /\ Leader(L(j), groups[j], j - 1) BY <3>1 DEF GroupsLed
    <3>3. point[L(j)].register = Tables[i]
      <4> HIDE DEF L
      <4> QED BY <3>1, <3>2 DEF Inv, GroupsSound, Sound, Leader
    <3> HIDE DEF L
    <3>4. QED BY <3>2, <3>3 DEF PointsOf
  <2> HIDE DEF L
  <2>4. f \in [S -> 1..(used - 1)] BY <2>3
  <2>5. IsFiniteSet(1..(used - 1)) /\ Cardinality(1..(used - 1)) < Cardinality(S)
    <3>1. used \in Int /\ used - 1 \in Int /\ ~(1 > used - 1) BY <2>2
    <3>2. /\ IsFiniteSet(1..(used - 1))
          /\ Cardinality(1..(used - 1)) = IF 1 > used - 1 THEN 0 ELSE (used - 1) - 1 + 1
      BY <3>1, FS_Interval
    <3>3. QED BY <2>2, <3>1, <3>2
  <2>6. \E x, y \in S : x # y /\ f[x] = f[y]
    <3> HIDE DEF f
    <3> QED BY <2>2, <2>4, <2>5, FS_PigeonHole
  <2>7. \E x, y \in S : x < y /\ f[x] = f[y]
    <3>1. \A x \in S : x \in Nat BY <2>1
    <3> HIDE DEF f
    <3> QED BY <2>6, <3>1
  <2>8. PICK x, y \in S : x < y /\ f[x] = f[y] BY <2>7
  <2>9. share[L(x)] = share[L(y)] /\ share[L(x)] \in 1..(used - 1) BY <2>3, <2>8
  <2>10. PointEnd(L(y)) - point[L(x)].address <= MaxQuantity(Tables[i])
    BY <2>3, <2>9 DEF Fits
  <2>11. PointEnd(L(y)) - point[L(x)].address > MaxQuantity(Tables[i])
    BY <2>3, <2>8, LeadersApart
  <2>12. /\ PointEnd(L(y)) - point[L(x)].address \in Int /\ MaxQuantity(Tables[i]) \in Nat
    <3>1. point \in [Points -> Choices] BY DEF Inv, TypeOK
    <3>2. QED BY <2>3, <3>1, ChoiceFacts, LimitFacts
  <2>13. QED BY <2>10, <2>11, <2>12
<1>2. QED BY <1>1, Invariance, LedInvariance, PTL

-----------------------------------------------------------------------------
(* Decoding: what reorder does to the one, two or four registers of a      *)
(* value. Its loop is unrolled, since a value has at most eight bytes.     *)

\* The bytes after the first half of reorder.
Swapped(raw) ==
    IF order.bytes = "big" THEN raw
    ELSE [i \in DOMAIN raw |-> raw[IF i % 2 = 0 THEN i + 1 ELSE i - 1]]

\* One round of the loop over the words.
Round(before, length, k) ==
    LET left == 2 * (k - 1)
        right == length - 2 * k
    IN  IF left < right THEN Exchange(before, left, right) ELSE before

\* All rounds.
Loop(swapped, length) ==
    CHOOSE F : F = [k \in 0..length |->
                      IF k = 0 THEN swapped ELSE Round(F[k - 1], length, k)]

\* reorder is these two parts.
LEMMA ReorderLoop ==
    ASSUME NEW raw, NEW length \in Nat
    PROVE  Reorder(raw, length) =
               IF order.words = "little" /\ length > 2 THEN Loop(Swapped(raw), length)[length]
               ELSE Swapped(raw)
BY DEF Reorder, Loop, Round, Swapped

\* Two words: one exchange.
LEMMA LoopFour ==
    ASSUME NEW swapped
    PROVE  Loop(swapped, 4)[4] = Exchange(swapped, 0, 2)
<1> DEFINE Step(F, k) == IF k = 0 THEN swapped ELSE Round(F[k - 1], 4, k)
           Runs(F) == F = [k \in 0..4 |-> Step(F, k)]
           G == [k \in 0..4 |-> IF k = 0 THEN swapped ELSE Exchange(swapped, 0, 2)]
<1>0. \A x : Round(x, 4, 1) = Exchange(x, 0, 2) BY DEF Round
<1>1. \A x : \A k \in 2..4 : Round(x, 4, k) = x BY DEF Round
<1>2. Runs(G)
  <2>1. \A k \in 0..4 : k = 0 \/ k = 1 \/ k \in 2..4 OBVIOUS
  <2>2. \A k \in 0..4 : G[k] = Step(G, k) BY <1>0, <1>1, <2>1
  <2>3. G = [k \in 0..4 |-> G[k]] OBVIOUS
  <2> HIDE DEF G, Step
  <2>4. QED BY <2>2, <2>3
<1>3. Runs(Loop(swapped, 4))
  <2>1. Loop(swapped, 4) = CHOOSE F : Runs(F) BY DEF Loop
  <2> HIDE DEF Runs, G
  <2>2. QED BY <1>2, <2>1
<1> DEFINE L == Loop(swapped, 4)
<1>4. \A k \in 0..4 : L[k] = Step(L, k) BY <1>3
<1> HIDE DEF L
<1>5. L[1] = Exchange(swapped, 0, 2)
  <2>1. L[0] = swapped BY <1>4
  <2>2. L[1] = Round(L[0], 4, 1) BY <1>4
  <2>3. QED BY <1>0, <2>1, <2>2
<1>6. L[2] = L[1] /\ L[3] = L[2] /\ L[4] = L[3]
  BY <1>1, <1>4
<1>7. QED BY <1>5, <1>6 DEF L

\* Four words: the outer two, then the inner two.
LEMMA LoopEight ==
    ASSUME NEW swapped
    PROVE  Loop(swapped, 8)[8] = Exchange(Exchange(swapped, 0, 6), 2, 4)
<1> DEFINE Step(F, k) == IF k = 0 THEN swapped ELSE Round(F[k - 1], 8, k)
           Runs(F) == F = [k \in 0..8 |-> Step(F, k)]
           one == Exchange(swapped, 0, 6)
           two == Exchange(one, 2, 4)
           G == [k \in 0..8 |-> IF k = 0 THEN swapped ELSE IF k = 1 THEN one ELSE two]
<1>0. \A x : Round(x, 8, 1) = Exchange(x, 0, 6) /\ Round(x, 8, 2) = Exchange(x, 2, 4)
  BY DEF Round
<1>1. \A x : \A k \in 3..8 : Round(x, 8, k) = x BY DEF Round
<1>2. Runs(G)
  <2>1. \A k \in 0..8 : k = 0 \/ k = 1 \/ k = 2 \/ k \in 3..8 OBVIOUS
  <2>2. \A k \in 0..8 : G[k] = Step(G, k)
    <3> TAKE k \in 0..8
    <3>1. CASE k = 0 BY <3>1
    <3>2. CASE k = 1 BY <1>0, <3>2
    <3>3. CASE k = 2 BY <1>0, <3>3
    <3>4. CASE k \in 3..8 BY <1>1, <3>4
    <3>5. QED BY <2>1, <3>1, <3>2, <3>3, <3>4
  <2>3. G = [k \in 0..8 |-> G[k]] OBVIOUS
  <2> HIDE DEF G, Step
  <2>4. QED BY <2>2, <2>3
<1>3. Runs(Loop(swapped, 8))
  <2>1. Loop(swapped, 8) = CHOOSE F : Runs(F) BY DEF Loop
  <2> HIDE DEF Runs, G
  <2>2. QED BY <1>2, <2>1
<1> DEFINE L == Loop(swapped, 8)
<1>4. \A k \in 0..8 : L[k] = Step(L, k) BY <1>3
<1> HIDE DEF L
<1>5. L[0] = swapped BY <1>4
<1>6. L[1] = one
  <2>1. L[1] = Round(L[0], 8, 1) BY <1>4
  <2>2. QED BY <1>0, <1>5, <2>1
<1>7. L[2] = two
  <2>1. L[2] = Round(L[1], 8, 2) BY <1>4
  <2>2. QED BY <1>0, <1>6, <2>1
<1>8. \A k \in 3..8 : L[k] = L[k - 1]
  BY <1>1, <1>4
<1> HIDE DEF Step, two
<1>9. L[3] = two /\ L[4] = two /\ L[5] = two BY <1>7, <1>8
<1>10. L[6] = two /\ L[7] = two /\ L[8] = two BY <1>9, <1>8
<1>11. QED BY <1>10 DEF L, two

\* The place in the device of the byte that reorder moves to i.
Place(i, count) ==
    2 * (IF order.words = "big" THEN i \div 2 ELSE count - 1 - (i \div 2))
    + (IF order.bytes = "big" THEN i % 2 ELSE 1 - (i % 2))

\* Where each byte of the result comes from.
LEMMA ReorderPlaces ==
    ASSUME order \in Orders, NEW count \in {1, 2, 4},
           NEW raw, raw = [i \in 0..(2 * count - 1) |-> raw[i]]
    PROVE  Reorder(raw, 2 * count) = [i \in 0..(2 * count - 1) |-> raw[Place(i, count)]]
<1>1. order.bytes \in {"big", "little"} /\ order.words \in {"big", "little"}
  BY OrdersAssumption
<1> DEFINE N == 2 * count - 1
           s == Swapped(raw)
<1>2. DOMAIN raw = 0..N OBVIOUS
<1>3. s = [i \in 0..N |-> raw[IF order.bytes = "big" THEN i
                              ELSE IF i % 2 = 0 THEN i + 1 ELSE i - 1]]
  BY <1>1 DEF Swapped
<1>4. CASE order.words = "big" \/ count = 1
  <2>1. Reorder(raw, 2 * count) = s
    BY <1>1, <1>4, ReorderLoop
  <2>2. \A i \in 0..N : Place(i, count) = IF order.bytes = "big" THEN i
                              ELSE IF i % 2 = 0 THEN i + 1 ELSE i - 1
    BY <1>1, <1>4 DEF Place
  <2> HIDE DEF s
  <2>3. QED BY <1>3, <2>1, <2>2
<1>5. CASE order.words = "little" /\ count = 2
  <2>1. Reorder(raw, 4) = Exchange(s, 0, 2)
    BY <1>5, ReorderLoop, LoopFour
  <2> HIDE DEF s
  <2>2. DOMAIN s = 0..3 BY <1>3, <1>5
  <2>3. Exchange(s, 0, 2) = [i \in 0..3 |-> IF i \in 0..1 THEN s[i + 2] ELSE s[i - 2]]
    BY <2>2 DEF Exchange
  <2>4. QED BY <1>1, <1>3, <1>5, <2>1, <2>3 DEF Place
<1>6. CASE order.words = "little" /\ count = 4
  <2>1. Reorder(raw, 8) = Exchange(Exchange(s, 0, 6), 2, 4)
    BY <1>6, ReorderLoop, LoopEight
  <2> HIDE DEF s
  <2>2. DOMAIN s = 0..7 BY <1>3, <1>6
  <2>3. PICK t : t = Exchange(s, 0, 6) OBVIOUS
  <2>4. t = [i \in 0..7 |-> IF i \in 0..1 THEN s[i + 6] ELSE IF i \in 6..7 THEN s[i - 6] ELSE s[i]]
    BY <2>2, <2>3 DEF Exchange
  <2>5. Exchange(t, 2, 4) = [i \in 0..7 |-> IF i \in 2..3 THEN t[i + 2]
                                            ELSE IF i \in 4..5 THEN t[i - 2] ELSE t[i]]
    BY <2>4 DEF Exchange
  <2>6. QED BY <1>1, <1>3, <1>6, <2>1, <2>3, <2>4, <2>5 DEF Place
<1>7. QED BY <1>1, <1>4, <1>5, <1>6

\* The offset of a point of a legal request is exact, and its value is inside.
LEMMA PointInside ==
    ASSUME point \in [Points -> Choices], NEW g, g \in GroupType, Sound(g),
           NEW p \in g.points
    PROVE  /\ Offset(p, g) = point[p].address - g.address /\ Offset(p, g) \in Nat
           /\ g.address \in Nat /\ g.quantity \in Nat
           /\ Offset(p, g) + point[p].count <= g.quantity
           /\ g.register \notin BitTables => Uint16(g.quantity * 2) = g.quantity * 2
           /\ Inside(p, g)
<1>1. p \in Points BY DEF GroupType
<1>2. /\ point[p].address \in 0..(AddressSpace - 1) /\ point[p].count \in {1, 2, 4}
      /\ PointEnd(p) = point[p].address + point[p].count
  BY <1>1, ChoiceFacts DEF PointEnd
<1>3. /\ g.address \in 0..(AddressSpace - 1) /\ g.quantity \in Nat
      /\ g.quantity <= MaxQuantity(g.register)
      /\ g.address <= point[p].address /\ PointEnd(p) <= g.address + g.quantity
  BY LimitFacts DEF Sound
<1>4. Offset(p, g) = point[p].address - g.address /\ Offset(p, g) \in Nat
  <2>1. point[p].address - g.address \in Nat /\ point[p].address - g.address < AddressSpace
    BY <1>2, <1>3, LimitAssumption
  <2>2. QED BY <2>1, Uint16Exact DEF Offset
<1>5. Offset(p, g) + point[p].count <= g.quantity
  BY <1>2, <1>3, <1>4, LimitAssumption
<1>6. g.register \notin BitTables => Uint16(g.quantity * 2) = g.quantity * 2
  <2>1. g.register \notin BitTables => g.quantity * 2 \in Nat /\ g.quantity * 2 < AddressSpace
    BY <1>3, LimitAssumption DEF MaxQuantity
  <2>2. QED BY <2>1, Uint16Exact
<1>7. Inside(p, g)
  BY <1>2, <1>3, <1>4, <1>5, <1>6 DEF Inside
<1>8. QED BY <1>3, <1>4, <1>5, <1>6, <1>7, LimitAssumption

\* A byte is in the half b of the register w.
LEMMA Halves ==
    ASSUME NEW w \in Nat, NEW b \in 0..1
    PROVE  (2 * w + b) \div 2 = w /\ (2 * w + b) % 2 = b
OBVIOUS

\* readGroup cuts the bytes of the point out of the block.
LEMMA DecodesOwn ==
    ASSUME point \in [Points -> Choices], order \in Orders,
           NEW g, g \in GroupType, Sound(g), NEW p \in g.points
    PROVE  Decoded(p, g) = OwnRegisters(p)
<1>1. p \in Points /\ point[p].register = g.register BY DEF GroupType, Sound
<1>2. PICK a \in Nat, c \in {1, 2, 4}, o \in Nat, q \in Nat, r \in Registers :
          /\ a = point[p].address /\ c = point[p].count /\ o = Offset(p, g)
          /\ q = g.quantity /\ r = g.register
  BY <1>1, ChoiceFacts, PointInside, LimitAssumption
<1>3. g.address \in Nat /\ g.address + o = a /\ o + c <= q
  BY <1>2, PointInside
<1>4. CASE r \in BitTables
  BY <1>1, <1>2, <1>3, <1>4 DEF Decoded, OwnRegisters
<1>5. CASE r \notin BitTables
  <2> DEFINE block == [i \in 0..(2 * q - 1) |-> <<r, g.address + i \div 2, i % 2>>]
             raw == [i \in 0..(2 * c - 1) |-> block[2 * o + i]]
             cut == [i \in 0..(2 * c - 1) |-> <<r, a + i \div 2, i % 2>>]
  <2>1. Decoded(p, g) = Reorder(raw, 2 * c)
    <3>1. Uint16(g.quantity * 2) = 2 * q BY <1>2, <1>5, PointInside
    <3> DEFINE bytes == [i \in 0..(Uint16(g.quantity * 2) - 1) |->
                           <<g.register, g.address + i \div 2, i % 2>>]
    <3>2. Decoded(p, g) = Reorder([i \in 0..(2 * point[p].count - 1) |->
                                     bytes[2 * Offset(p, g) + i]], 2 * point[p].count)
      BY <1>2, <1>5 DEF Decoded
    <3>3. bytes = block BY <1>2, <3>1
    <3> HIDE DEF bytes, block
    <3>4. QED BY <1>2, <3>2, <3>3
  <2>2. raw = cut
    <3>1. ASSUME NEW i \in 0..(2 * c - 1)
          PROVE  block[2 * o + i] = <<r, a + i \div 2, i % 2>>
      <4>1. 2 * o + i \in 0..(2 * q - 1) BY <1>3
      <4>2. (2 * o + i) \div 2 = o + i \div 2 /\ (2 * o + i) % 2 = i % 2
        <5>1. i \div 2 \in Nat /\ i % 2 \in 0..1 /\ i = 2 * (i \div 2) + (i % 2) BY <1>2
        <5>2. PICK m \in Nat, b \in 0..1 : m = i \div 2 /\ b = i % 2 BY <5>1
        <5>3. 2 * o + i = 2 * (o + m) + b /\ o + m \in Nat BY <5>1, <5>2
        <5>4. QED BY <5>2, <5>3, Halves
      <4>3. g.address + (o + i \div 2) = a + i \div 2 BY <1>2, <1>3
      <4>4. QED BY <4>1, <4>2, <4>3
    <3>2. QED BY <3>1
  <2>3. Reorder(cut, 2 * c) = [i \in 0..(2 * c - 1) |-> cut[Place(i, c)]]
    <3>1. cut = [i \in 0..(2 * c - 1) |-> cut[i]] OBVIOUS
    <3> HIDE DEF cut
    <3>2. QED BY <3>1, ReorderPlaces
  <2>4. ASSUME NEW i \in 0..(2 * c - 1)
        PROVE  cut[Place(i, c)] =
                 <<r, a + (IF order.words = "big" THEN i \div 2 ELSE c - 1 - (i \div 2)),
                   IF order.bytes = "big" THEN i % 2 ELSE 1 - (i % 2)>>
    <3> DEFINE w == IF order.words = "big" THEN i \div 2 ELSE c - 1 - (i \div 2)
               b == IF order.bytes = "big" THEN i % 2 ELSE 1 - (i % 2)
    <3>1. w \in 0..(c - 1) /\ b \in 0..1 BY <1>2
    <3>2. Place(i, c) = 2 * w + b BY DEF Place
    <3> HIDE DEF w, b
    <3>3. Place(i, c) \in 0..(2 * c - 1) /\ Place(i, c) \div 2 = w /\ Place(i, c) % 2 = b
      <4>1. Place(i, c) \div 2 = w /\ Place(i, c) % 2 = b
        <5>1. w \in Nat BY <1>2, <3>1
        <5>2. QED BY <3>1, <3>2, <5>1, Halves
      <4>2. Place(i, c) \in 0..(2 * c - 1) BY <1>2, <3>1, <3>2
      <4>3. QED BY <4>1, <4>2
    <3>4. cut[Place(i, c)] = <<r, a + w, b>> BY <3>3
    <3>5. QED BY <3>4 DEF w, b
  <2>5. OwnRegisters(p) =
          [i \in 0..(2 * c - 1) |->
             <<r, a + (IF order.words = "big" THEN i \div 2 ELSE c - 1 - (i \div 2)),
               IF order.bytes = "big" THEN i % 2 ELSE 1 - (i % 2)>>]
    BY <1>1, <1>2, <1>5 DEF OwnRegisters
  <2> HIDE DEF cut, raw
  <2>6. QED BY <2>1, <2>2, <2>3, <2>4, <2>5
<1>6. QED BY <1>4, <1>5

\* Whatever has been decoded is what its point's registers hold.
OwnValues == \A p \in DOMAIN values : values[p] = OwnRegisters(p)

\* Only readGroup writes values, and it decodes them.
LEMMA OwnValuesStep == ASSUME Inv, OwnValues, [Next]_vars PROVE OwnValues'
<1>1. point' = point /\ order' = order
  BY DEF Next, vars, OpenGroup, ExtendGroup, SplitGroup, NextTable, ReadGroup
<1>2. \A p : OwnRegisters(p)' = OwnRegisters(p) BY <1>1 DEF OwnRegisters
<1>3. CASE values' = values BY <1>2, <1>3 DEF OwnValues
<1>4. CASE ReadGroup /\ values' # values
  <2> DEFINE g == groups[reading + 1]
  <2>1. /\ reading < Len(groups)
        /\ values' = [p \in DOMAIN values \cup g.points |->
                         IF p \in g.points THEN Decoded(p, g) ELSE values[p]]
    BY <1>4 DEF ReadGroup
  <2>2. /\ groups \in Seq(GroupType) /\ reading \in 0..Len(groups)
        /\ point \in [Points -> Choices] /\ order \in Orders
    BY DEF Inv, TypeOK
  <2>3. reading + 1 \in DOMAIN groups /\ g \in GroupType BY <2>1, <2>2
  <2>4. Sound(g) BY <2>3 DEF Inv, GroupsSound
  <2> HIDE DEF g
  <2>5. \A p \in g.points : Decoded(p, g) = OwnRegisters(p)
    BY <2>2, <2>3, <2>4, DecodesOwn
  <2>6. QED BY <1>2, <2>1, <2>5 DEF OwnValues
<1>5. QED
  BY <1>3, <1>4 DEF Next, vars, OpenGroup, ExtendGroup, SplitGroup, NextTable

\* readGroup decodes each value from the registers of its own point, in either
\* byte and word order, and its range checks never refuse a point of a group.
THEOREM DecodedOwnRegisters == Spec => []ValuesDecoded
<1>1. Init => OwnValues BY DEF Init, OwnValues
<1>2. Inv => \A i \in DOMAIN groups : \A p \in groups[i].points : Inside(p, groups[i])
  <2> SUFFICES ASSUME Inv, NEW i \in DOMAIN groups, NEW p \in groups[i].points
               PROVE  Inside(p, groups[i])
    OBVIOUS
  <2>1. groups[i] \in GroupType /\ Sound(groups[i]) /\ point \in [Points -> Choices]
    BY DEF Inv, TypeOK, GroupsSound
  <2>2. QED BY <2>1, PointInside
<1>3. Inv /\ OwnValues => ValuesDecoded BY <1>2 DEF ValuesDecoded, OwnValues
<1>4. Inv /\ OwnValues /\ [Next]_vars => OwnValues' BY OwnValuesStep
<1>5. QED BY <1>1, <1>3, <1>4, Invariance, PTL DEF Spec
=============================================================================

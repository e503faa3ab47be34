----------------------------- MODULE ModbusGroups -----------------------------
(***************************************************************************)
(* modbus/group.go and readGroup of modbus/reader.go: the points of one    *)
(* connection are packed into requests, and the answers are cut up again.  *)
(* groupPoints is a state machine with one step per point, so that what it *)
(* keeps true from one point to the next can be stated and proved.         *)
(*                                                                         *)
(* A point is the place of its subject in sorted order.  The contents of a *)
(* device are named by where they are: a register is its table and its     *)
(* address, a byte a register and its half.                                *)
(***************************************************************************)
EXTENDS Integers, Sequences, FiniteSets

CONSTANTS
    Points,             \* points of the connection
    Tables,             \* the register tables in sorted order
    BitTables,          \* coils and discrete inputs
    Choices,            \* points a connection may have
    Orders,             \* byte and word orders a connection may have
    AddressSpace,       \* 2^16
    RegisterLimit,      \* maxRegisterQuantity
    BitLimit            \* maxBitQuantity

Registers == {Tables[i] : i \in DOMAIN Tables}

\* registerCount: registers of a value; a bit counts as one.
Counts == {1, 2, 4}

ASSUME LimitAssumption ==
    /\ AddressSpace \in Nat /\ RegisterLimit \in Nat /\ BitLimit \in Nat
    /\ RegisterLimit >= 4 /\ 2 * RegisterLimit < AddressSpace
    /\ BitLimit >= 1 /\ BitLimit < AddressSpace
ASSUME PointsAssumption == Points \subseteq Nat /\ IsFiniteSet(Points)
ASSUME TablesAssumption ==
    /\ Tables \in Seq(Registers) /\ Tables # <<>>
    /\ \A i, j \in DOMAIN Tables : Tables[i] = Tables[j] => i = j
ASSUME OrdersAssumption == Orders \subseteq [bytes : {"big", "little"}, words : {"big", "little"}]

\* The points that ParsePoint accepts: a bit in a bit table, and no value that
\* reaches past the last address.
Parses(point) ==
    /\ point.register \in BitTables => point.count = 1
    /\ point.address + point.count <= AddressSpace

ASSUME ChoicesAssumption ==
    /\ Choices \subseteq [register : Registers, address : 0..(AddressSpace - 1),
                          count : Counts]
    /\ \A point \in Choices : Parses(point)

VARIABLES
    point,          \* definition of each point
    order,          \* byte and word order of the connection
    table,          \* place in Tables of the table that is merged
    todo,           \* its points that are not yet in a group
    current,        \* the group being extended, NoGroup if there is none
    groups,         \* groups that are complete, in order
    reading,        \* how many of them were read
    values          \* what was decoded for the points read so far

vars == <<point, order, table, todo, current, groups, reading, values>>

NoGroup == [register |-> Tables[1], address |-> 0, quantity |-> 0, points |-> {}]

\* Conversion to uint16.
Uint16(n) == n % AddressSpace

PointEnd(p) == point[p].address + point[p].count

MaxQuantity(register) == IF register \in BitTables THEN BitLimit ELSE RegisterLimit

PointsOf(i) == {p \in Points : i \in DOMAIN Tables /\ point[p].register = Tables[i]}

Init ==
    /\ point \in [Points -> Choices]
    /\ order \in Orders
    /\ table = 1 /\ todo = PointsOf(1)
    /\ current = NoGroup /\ groups = <<>>
    /\ reading = 0 /\ values = [p \in {} |-> <<>>]

-----------------------------------------------------------------------------
(* groupPoints and mergeRegisterPoints. *)

\* The order of sort.Slice: address, end, subject.
Before(p, q) ==
    \/ point[p].address < point[q].address
    \/ point[p].address = point[q].address
       /\ (PointEnd(p) < PointEnd(q) \/ (PointEnd(p) = PointEnd(q) /\ p < q))

First(p) == p \in todo /\ \A q \in todo \ {p} : Before(p, q)

GroupOf(p) ==
    [register |-> point[p].register, address |-> point[p].address,
     quantity |-> Uint16(PointEnd(p) - point[p].address), points |-> {p}]

\* Mutant of NextEnd: forgets a longer value that began earlier.
NextEndOfPoint(p) == PointEnd(p)

\* Where the current group ends if p is added.
NextEnd(p) ==
    LET currentEnd == current.address + current.quantity
    IN  IF currentEnd > PointEnd(p) THEN currentEnd ELSE PointEnd(p)

Span(p) == NextEnd(p) - current.address

\* Mutants of HasRoom: one register too many, one too few.
HasRoomForOneMore(p) == Span(p) <= MaxQuantity(Tables[table]) + 1
HasRoomBelow(p) == Span(p) < MaxQuantity(Tables[table])

HasRoom(p) == Span(p) <= MaxQuantity(Tables[table])

OpenGroup(p) ==
    /\ First(p) /\ current.points = {}
    /\ current' = GroupOf(p)
    /\ todo' = todo \ {p}
    /\ UNCHANGED <<point, order, table, groups, reading, values>>

ExtendGroup(p) ==
    /\ First(p) /\ current.points # {} /\ HasRoom(p)
    /\ current' = [current EXCEPT !.quantity = Uint16(Span(p)), !.points = @ \cup {p}]
    /\ todo' = todo \ {p}
    /\ UNCHANGED <<point, order, table, groups, reading, values>>

SplitGroup(p) ==
    /\ First(p) /\ current.points # {} /\ ~HasRoom(p)
    /\ groups' = Append(groups, current)
    /\ current' = GroupOf(p)
    /\ todo' = todo \ {p}
    /\ UNCHANGED <<point, order, table, reading, values>>

\* Mutant of NextTable: no end of the loop over the tables.
NextTableForever ==
    /\ todo = {}
    /\ groups' = IF current.points = {} THEN groups ELSE Append(groups, current)
    /\ current' = NoGroup
    /\ table' = table + 1 /\ todo' = PointsOf(table + 1)
    /\ UNCHANGED <<point, order, reading, values>>

\* The last group of a table; a table without points has none.
NextTable ==
    /\ table \in DOMAIN Tables /\ todo = {}
    /\ groups' = IF current.points = {} THEN groups ELSE Append(groups, current)
    /\ current' = NoGroup
    /\ table' = table + 1 /\ todo' = PointsOf(table + 1)
    /\ UNCHANGED <<point, order, reading, values>>

Grouped == table \notin DOMAIN Tables

-----------------------------------------------------------------------------
(* readGroup: one request, and the block it returns cut up by offset. *)

\* Place of a point in the block, in registers or bits.
Offset(p, group) == Uint16(point[p].address - group.address)

\* Mutant of Exchange: leaves the second byte of each word where it is.
ExchangeFirstBytes(bytes, left, right) ==
    [i \in DOMAIN bytes |-> IF i = left THEN bytes[right]
                            ELSE IF i = right THEN bytes[left] ELSE bytes[i]]

\* Exchange the words at two places.
Exchange(bytes, left, right) ==
    [i \in DOMAIN bytes |->
        CASE i \in left..(left + 1) -> bytes[right + i - left]
          [] i \in right..(right + 1) -> bytes[left + i - right]
          [] OTHER -> bytes[i]]

\* reorder: to big-endian bytes and words.
Reorder(raw, length) ==
    LET swapped == IF order.bytes = "big" THEN raw
                   ELSE [i \in DOMAIN raw |-> raw[IF i % 2 = 0 THEN i + 1 ELSE i - 1]]
        loop[k \in 0..length] ==
            IF k = 0 THEN swapped
            ELSE LET left == 2 * (k - 1)
                     right == length - 2 * k
                 IN  IF left < right THEN Exchange(loop[k - 1], left, right)
                     ELSE loop[k - 1]
    IN  IF order.words = "little" /\ length > 2 THEN loop[length] ELSE swapped

\* decodeBits and decodeRegisters: the bit, or the bytes of the number in
\* big-endian order. The block that the device returns is
\* ReadCoils/ReadDiscreteInputs(address, quantity), or quantity * 2 bytes.
Decoded(p, group) ==
    LET register == group.register
        offset == Offset(p, group)
        length == 2 * point[p].count
        raw == [i \in 0..(Uint16(group.quantity * 2) - 1) |->
                   <<register, group.address + i \div 2, i % 2>>]
    IN  IF register \in BitTables THEN <<register, group.address + offset>>
        ELSE Reorder([i \in 0..(length - 1) |-> raw[2 * offset + i]], length)

\* The range checks before a point is decoded.
Inside(p, group) ==
    IF group.register \in BitTables THEN Offset(p, group) < group.quantity
    ELSE 2 * Offset(p, group) + 2 * point[p].count <= Uint16(group.quantity * 2)

\* One point outside of the block makes the whole group fail, and so does the
\* device; the next group is read all the same.
ReadGroup ==
    LET group == groups[reading + 1] IN
    /\ Grouped /\ reading < Len(groups)
    /\ reading' = reading + 1
    /\ \/ /\ \A p \in group.points : Inside(p, group)
          /\ values' = [p \in DOMAIN values \cup group.points |->
                          IF p \in group.points THEN Decoded(p, group) ELSE values[p]]
       \/ UNCHANGED values
    /\ UNCHANGED <<point, order, table, todo, current, groups>>

Next ==
    \/ \E p \in Points : OpenGroup(p) \/ ExtendGroup(p) \/ SplitGroup(p)
    \/ NextTable
    \/ ReadGroup

Spec == Init /\ [][Next]_vars

-----------------------------------------------------------------------------
Groups == {groups[i] : i \in DOMAIN groups}
         \cup (IF current.points = {} THEN {} ELSE {current})

GroupType == [register : Registers, address : 0..(AddressSpace - 1),
              quantity : 0..(AddressSpace - 1), points : SUBSET Points]

TypeOK ==
    /\ point \in [Points -> Choices] /\ order \in Orders
    /\ table \in 1..(Len(Tables) + 1) /\ todo \in SUBSET Points
    /\ current \in GroupType /\ groups \in Seq(GroupType)
    /\ reading \in 0..Len(groups) /\ DOMAIN values \subseteq Points

\* Every request is one the protocol allows: not empty, within the limit of its
\* table and within the 16-bit address space, so no conversion to uint16 loses
\* anything.
RequestsLegal ==
    \A g \in Groups :
        /\ 1 <= g.quantity /\ g.quantity <= MaxQuantity(g.register)
        /\ g.address + g.quantity <= AddressSpace

\* Points that have been dealt with.
Taken == {p \in Points : \/ \E i \in 1..(table - 1) : point[p].register = Tables[i]
                         \/ p \in PointsOf(table) \ todo}

\* Splitting and merging neither lose a point nor read it twice, and the request
\* it is part of covers all its registers, also when a long value ends behind
\* the next one's end.
EveryPointCovered ==
    \A p \in Taken :
        /\ \E g \in Groups :
             /\ p \in g.points /\ g.register = point[p].register
             /\ g.address <= point[p].address
             /\ PointEnd(p) <= g.address + g.quantity
        /\ \A i, j \in DOMAIN groups :
             p \in groups[i].points \cap groups[j].points => i = j
        /\ \A i \in DOMAIN groups : p \notin groups[i].points \cap current.points

\* The registers of a point in the order of significance of its bytes.
OwnRegisters(p) ==
    IF point[p].register \in BitTables THEN <<point[p].register, point[p].address>>
    ELSE [i \in 0..(2 * point[p].count - 1) |->
            <<point[p].register,
              point[p].address + (IF order.words = "big" THEN i \div 2
                                  ELSE point[p].count - 1 - (i \div 2)),
              IF order.bytes = "big" THEN i % 2 ELSE 1 - (i % 2)>>]

\* A value is decoded from the registers of its own point, whatever else shares
\* the request, and no point of a group is taken for outside.
ValuesDecoded ==
    /\ \A p \in DOMAIN values : values[p] = OwnRegisters(p)
    /\ Grouped => \A i \in DOMAIN groups : \A p \in groups[i].points :
                      Inside(p, groups[i])

\* Whether points fit in one request.
Fits(points, register) ==
    \A p, q \in points : PointEnd(p) - point[q].address <= MaxQuantity(register)

\* "as few Modbus requests as possible": no other division of a table's points
\* into requests has fewer of them.
FewestRequests ==
    Grouped => \A i \in DOMAIN Tables :
        LET used == Cardinality({j \in DOMAIN groups : groups[j].register = Tables[i]})
        IN  used > 1 => ~\E share \in [PointsOf(i) -> 1..(used - 1)] :
                \A k \in 1..(used - 1) :
                    Fits({p \in PointsOf(i) : share[p] = k}, Tables[i])
=============================================================================

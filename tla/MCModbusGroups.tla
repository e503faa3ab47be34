---------------------------- MODULE MCModbusGroups ----------------------------
(***************************************************************************)
(* Four points in a table of registers and a table of bits, with small     *)
(* limits and an address space they can fill.                              *)
(***************************************************************************)
EXTENDS ModbusGroups

MCTables == <<"coil", "holding">>
\* Neighbours, overlaps, spans of exactly the limit and one more, and values that
\* end at the end of the address space.
Places == {<<1, 0>>, <<1, 1>>, <<1, 4>>, <<1, 8>>, <<2, 3>>, <<2, 7>>,
           <<4, 0>>, <<4, 1>>, <<4, 5>>}
MCChoices ==
    [register : {"coil"}, address : 0..2, count : {1}]
    \cup {[register |-> "holding", address |-> place[2], count |-> place[1]] :
            place \in Places}
MCOrders == [bytes : {"big", "little"}, words : {"big", "little"}]
=============================================================================

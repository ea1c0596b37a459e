---------------------------- MODULE MCModbusLink ----------------------------
(***************************************************************************)
(* Every function code, in small messages and in the largest a frame can   *)
(* hold.  The slave answers all functions but two; that it has no event    *)
(* log is a restriction (see README).                                      *)
(***************************************************************************)
EXTENDS ModbusLink

\* "123456789" has the checksum every description of CRC-16/Modbus gives.
ASSUME CheckValue == Checksum(<<49, 50, 51, 52, 53, 54, 55, 56, 57>>) = <<55, 75>>

Answerable == Function \ {"None", "GetComEventLog", "MaskWriteRegister"}

Counts == [f \in Function |->
    CASE f \in {"ReadCoils", "ReadDiscreteInputs"}            -> {9, 2000}
      [] f \in {"ReadHoldingRegisters", "ReadInputRegisters"} -> {2, 125}
      [] OTHER                                                -> {2}]

OneSeed == {4660}
=============================================================================

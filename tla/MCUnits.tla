------------------------------ MODULE MCUnits ------------------------------
(* Units with one bit to a byte: registers of eight bits, halves of four.   *)
EXTENDS Units

MCLoadByte(addr) == (addr \div 3 + addr) % 2
MCRegisterValues == {0, 1, 8, 100, 127, 128, 255}
MCImmediates == {0, 1, 3, 6, 100, 2 ^ XLEN - 4}
=============================================================================

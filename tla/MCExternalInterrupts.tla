------------------------ MODULE MCExternalInterrupts ------------------------
(* ExternalInterrupts with the UART mapped before the block device.         *)
EXTENDS ExternalInterrupts

MCBusOrder == <<Uart, Blk>>
=============================================================================

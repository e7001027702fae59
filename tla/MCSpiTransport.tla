--------------------------- MODULE MCSpiTransport ---------------------------
(* A small instance of SpiTransport for TLC.                               *)
EXTENDS SpiTransport

\* TPM_FIFO_REG_ACCESS, _STATUS and _REVID at locality 0, DATA_FIFO at
\* locality 1, and STATUS at the base address 0xF000 that locality 255 (the
\* initial value of chip_data->locality) maps to.
MCRegisters == {0, 24, 3844, 4096 + 36, 61440 + 24}

MCChunkLengths == {2, 3, 4, 65}
MCXferErrors == {5, 16}
=============================================================================

------------------------------ MODULE MCRVUart -------------------------------
(***************************************************************************)
(* RVUart for TLC.  The guest writes 7 (the value w8 wrongly compares with *)
(* UART_SCR_OFFSET), 131 (DLAB set, low nibble 3, so the IER mask shows)   *)
(* and 0; an uninitialised register holds 0 or 131, so a run may start in  *)
(* either bank.                                                            *)
(***************************************************************************)
EXTENDS RVUart

MCUartData == {0, 7, 131}
MCUartInit == {0, 131}
=============================================================================

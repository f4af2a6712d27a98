---------------------------- MODULE MCSerialPort ----------------------------
(* The last byte of the host is a newline, a foreign byte is not.          *)
EXTENDS SerialPort

MCNewlines == {N}
=============================================================================

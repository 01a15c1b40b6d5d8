------------------------------- MODULE MCLine -------------------------------
(* Model checking instance of Line.  9 is a data byte (and no command). *)
EXTENDS Line
McMessages == {
  <<9>>,                   \* no command
  <<1>>,                   \* READBUF
  <<2, 9>>, <<2, 9, 9>>,   \* WRITEBUF, short or long, depending on the size
  <<2, 9, 9, 9, 9, 9>>,    \* WRITEBUF, longer than the FIFO
  <<3, 2>>,                \* READREG RXPENDING
  <<4, 5, 0, 2, 1, 0>>,    \* WRITEREG CONFIG as documented: size 1 ...
  <<4, 5, 1, 2, 2>>,       \* ... 2 ...
  <<4, 5, 0, 2, 0>>,       \* ... and 0
  <<4, 5, 0>> }            \* WRITEREG CONFIG cut short
=============================================================================

------------------------------ MODULE Journey ------------------------------
(***************************************************************************)
(* What Numbers and TimeValues both keep of a value on its way from the     *)
(* program that makes it, through any number of others, to its reader.      *)
(***************************************************************************)
CONSTANT MaxHops \* bound: how often the value is sent

VARIABLES
  kind,    \* what is sent: a "number", a "span" or a "stamp" of time
  pc,      \* where it is: in a program, in a text, read, or why it is not
  origin,  \* the program that made it, and from what
  hops,    \* how often it was sent
  result   \* what was read, and by whom
=============================================================================

---------------------------- MODULE MCConfigureIaa ----------------------------
(***************************************************************************)
(* Second arguments of the script that reach every branch of its parsing,  *)
(* on a machine with iax1 and iax3: each device alone, the number of       *)
(* devices, a number that is neither, and ranges over both devices, past   *)
(* the last one and from a number that is no device.                       *)
(***************************************************************************)
EXTENDS ConfigureIaa

MCSelections == {<<1>>, <<3>>, <<2>>, <<4>>, <<1, 3>>, <<3, 5>>, <<2, 3>>}
===============================================================================

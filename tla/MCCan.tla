------------------------------- MODULE MCCan --------------------------------
(* Can on small instances, a task on each of two nodes.  Identifiers have   *)
(* the width of the code; the fields that count fragments are narrower, so  *)
(* that they wrap around in packets of a few frames.                        *)
EXTENDS Can, TLC

TwoNodes == ("a" :> 1) @@ ("b" :> 2)
IdMods == <<1024, 4>>
CountMods == <<8, 2>>
=============================================================================

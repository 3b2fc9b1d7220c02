------------------------------- MODULE MCRdp --------------------------------
(* Rdp for TLC.  The sequence space is small and connections start just below *)
(* its end, so that every behaviour crosses the wrap-around.                  *)
EXTENDS Rdp

NearWrap == {Mod - 2}
=============================================================================

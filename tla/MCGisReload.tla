---------------------------- MODULE MCGisReload ----------------------------
(***************************************************************************)
(* Two boundary layers and two services for GisReload: the fire layer of   *)
(* the second version can be read and is empty.                            *)
(***************************************************************************)
EXTENDS GisReload, TLC

MCBoundaryLayers == <<"psap", "fire">>
MCServices == {"sos", "sos.fire"}
MCServes ==
  (<<"psap", 1>> :> {"sos"}) @@ (<<"fire", 1>> :> {"sos.fire"})
  @@ (<<"psap", 2>> :> {"sos"}) @@ (<<"fire", 2>> :> {})
=============================================================================

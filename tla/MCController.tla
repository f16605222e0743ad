---------------------------- MODULE MCController ----------------------------
(* One stored scene and the one-shot, one user palette, two brightness      *)
(* values; in a behaviour the clients use one group of endpoints.           *)
EXTENDS Controller

MCWorkloads == { {"power", "play", "edit"}, {"power", "layer", "oneShot"},
                 {"look", "palette", "mqtt"}, {"config", "layer"},
                 {"mqtt", "edit", "trigger"}, {"panel", "stop", "panels", "speed"} }
=============================================================================

\* Liveness: what the parts must do in the end.
CONSTANTS
  Calls = {"load", "start", "pause", "resume", "abort", "unload"}
  Serialised = TRUE
  Crossing = FALSE
  Parts = {"walk_bindings", "bring_up", "bring_broken", "persist", "logger_cuts",
                  "conditions", "sensors_live", "probe_jumps", "port_live", "outputs",
                  "display_live", "menu_live", "player_live", "mp3", "engine"}
SPECIFICATION Spec
PROPERTIES MainTaskGetsThrough DriversFollow PanelAndSound

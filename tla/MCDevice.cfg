\* Safety: what the parts may never do or be in.
CONSTANTS
  Calls = {"load", "start", "pause", "resume", "abort", "unload"}
  Serialised = TRUE
  Crossing = FALSE
  Parts = {"kernel", "persist", "persist_faults", "walk_devices", "walk_bindings",
                  "walk_board", "bring_up", "bring_broken", "outputs", "outputs_guard", "sensors",
                  "probe", "search", "logger", "logger_cuts", "logger_both", "port", "recovery",
                  "recovery_faults", "recovery_sides", "races", "races_start",
                  "conditions", "display", "banners", "menu", "player", "player_slow", "mp3"}
SPECIFICATION Spec
INVARIANTS
  TypeOK KernelIsSound BootIsWhole OutputsAreTrue ReadingsAreTrue LogIsWhole RunsSurvive
  ScreenIsTrue SoundIsTrue
PROPERTY DeviceSteps

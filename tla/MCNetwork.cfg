\* Safety: what the parts may never do or be in.
CONSTANT Parts = {"ws", "ws_one", "ws_faults", "ws_left", "auth", "settings", "wifi", "wifi_asked", "wifi_dog",
                  "mqtt", "mqtt_alarms", "ota", "ota_cloud", "shadow_lost", "cloud", "cloud_typo",
                  "cloud_jobs", "ble_link", "ble_gatt", "ble_lost", "ble_observer"}
SPECIFICATION Spec
INVARIANTS
  TypeOK BrowsersAreCurrent OwnersAreMatched SettingsAreKept LinksAreTrue
  UpdatesAreSafe CloudConfigIsKept RadioIsTrue
PROPERTY NetworkSteps

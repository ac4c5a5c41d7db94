\* Liveness: what the parts must do in the end.
CONSTANT Parts = {"wifi_back", "mqtt_back", "mqtt_alarms", "auth_live", "ota_live",
                  "shadow", "shadow_lost", "cloud_typo", "ble_slow", "ble_gatt"}
SPECIFICATION Spec
PROPERTIES LinksComeBack WorkConverges

\* The doc of force_reconnect against ws_authenticate.
SPECIFICATION Spec
CONSTANTS
  MaxTokens = 2
PROPERTIES
  ForcedReconnectRenews

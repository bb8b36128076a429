SPECIFICATION HSpec
CONSTANTS
  c1 = c1
  api = api
  web = web
  Clients = {c1}
  Commands = {api}
  Autostart = {}
  MaxChunk = 1
PROPERTY RecoveryIsTheNextReady

SPECIFICATION HFairSpec
CONSTANTS
  c1 = c1
  api = api
  web = web
  Clients = {c1}
  Commands = {api, web}
  Autostart = {api, web}
  MaxChunk = 2
INVARIANTS TypeOK NoLostWakeup DisconnectEndsEveryWait
INVARIANTS NextReadyIsACycle NextReadyOfIsARestart ReadyMeansAutostarted
PROPERTIES ResyncKeepsStatuses EveryWaitSettles

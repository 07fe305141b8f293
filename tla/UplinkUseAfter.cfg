SPECIFICATION Spec
CONSTANT MaxClients = 3
INVARIANT SendOnLiveClient

\* Safety, with the host and a remote client.
CONSTANTS
    host = host
    remote = remote
    ready = ready
    move = move
    Client = {host, remote}
    Host = {host}
    Order = {move}
    Owner <- MCOwner
    Copied = {move}
    MaxTicks = 2
    LossyUntil = 2
    MaxLoads = 1
SPECIFICATION Spec
INVARIANTS
    TypeOK
    RepairUnderWay
    NothingInvented

\* Convergence under fairness, with one remote client.
CONSTANTS
    host = host
    remote = remote
    ready = ready
    move = move
    Client = {remote}
    Host = {}
    Order = {move}
    Owner <- MCOwner
    Copied = {move}
    MaxTicks = 3
    LossyUntil = 2
    MaxLoads = 1
SPECIFICATION FairSpec
PROPERTY Converges

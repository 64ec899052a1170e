SPECIFICATION Spec
CONSTANTS
    RuntimeIDs = {1, 2}
    MaxAttacks = 2
    MaxInputs = 5
    MaxTransfers = 1
INVARIANTS AttackSentOnce AttackStaysWithBackend MadeUpInTurn

SPECIFICATION AstSpec
CONSTANTS
 Threads = {t1, t2}
 AiModels = {m1}
 Orders = {}
 Null = Null
 Junk = Junk
 JsonNull = JsonNull
 Unhashable = Unhashable
 BlankKey = BlankKey
 Raises = Raises
 MaxPuts = 2
 MaxRestarts = 0
 MaxRequests = 0
INVARIANT ModelOfProvider
CHECK_DEADLOCK FALSE

SPECIFICATION MemorySpec
CONSTANTS
  FactNames = {"nurse", "pilot's", "oslo", "tall", "mum's"}
  Category <- MCFactCategory
  NoCategory = "none"
  Escaped = {"pilot's", "mum's"}
  FactJobs = {"quick", "reflection"}
  Batches <- MCBatches
  MaxActive = 3
  MaxSuperseded = 2
  MaxMerges = 3
  Writers = {w1, w2}
  Contents = {"nurse", "pilot", "tall"}
  CategoryOf <- MCCategoryOf
  Uncategorised = "none"
  Threads = {"trip"}
  Limit = 2
  MaxNodes = 4
  MaxDays = 1
  Creators = {c1, c2}
  Cooldown = 2
  MaxMessages = 2
  MaxOutreachDays = 3
  MaxTasks = 1
  Readers = {r1, r2}
  Trusts = {20, 25, 45}
  TrustNeeded = 25
  RegenDelta = 15
  RegenDays = 1
  MaxAge = 2
  Stores = {"history", "tables"}
  Order <- MCOrder
  History = "history"
  Jobs = {"turn", "reflection"}
  Reach <- MCReach
  Negotiable = {"opinion"}
SYMMETRY Symmetry
INVARIANTS
  TypeOK
  OneVersion
  Succeeded
  OneCurrentFact
  ConflictsArePast
  KeptUntilTold
  ToldOnce
  Spaced
  OneGeneration
  
CHECK_DEADLOCK FALSE

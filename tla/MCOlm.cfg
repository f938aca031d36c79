CONSTANTS
  e1 = e1
  f1 = f1
  f2 = f2
  r1 = r1
  a = a
  k = k
  fallback = fallback
  Enc = {e1}
  Inbound = {f1, f2, r1}
  Chain = {a}
  ChainOf <- Chains
  Prekey = {f1, f2}
  KeyOf <- Keys
  Fallback = fallback
  MaxRatchet = 2
  MaxSent = 2
  MaxCrashes = 1
  None = None
SYMMETRY Symmetry
SPECIFICATION OlmSpec
INVARIANTS NoKeyReuse 
PROPERTIES CallsAreAtomic 
CHECK_DEADLOCK FALSE

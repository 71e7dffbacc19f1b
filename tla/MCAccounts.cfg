SPECIFICATION Spec
CONSTANTS
    o1 = o1
    o2 = o2
    Org = {o1, o2}
    e1 = e1
    e2 = e2
    Email = {e1, e2}
    k1 = k1
    Key = {k1}
    t1 = t1
    t2 = t2
    Tab = {t1, t2}
    MaxSessions = 2
    MaxSecrets = 2
    None = None
SYMMETRY Sym
CHECK_DEADLOCK FALSE
INVARIANTS TabKeepsItsAccount DeletedOrgIsClosed VerifiedHasProof RecoveryCodes RevokedOnce

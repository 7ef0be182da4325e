SPECIFICATION Spec
CONSTANTS
    a1 = a1
    b1 = b1
    A = A
    B = B
    Certs = {a1, b1}
    Tenants = {A, B}
    Conns = {k1, k2}
    NoCert = NoCert
    TenantOf <- TwoTenants
SYMMETRY Symmetry
INVARIANT FreezeNeutralizes

SPECIFICATION Spec
CONSTANTS
    s1 = s1
    s2 = s2
    s3 = s3
    owner = owner
    admin = admin
    guest = guest
    Session = {s1, s2, s3}
    Member = {owner, admin, guest}
    NoMember = NoMember
    Owner = owner
    Admin = admin
    MaxChanges = 3
SYMMETRY Symmetry
INVARIANTS Confinement ListAgrees

\* Any requests of three users, two at a time, logins included.
CONSTANTS
    Users = {u1, u2, u3}
    Requests = {r1, r2}
    Roles = {"User", "Admin"}
SPECIFICATION Spec
SYMMETRY Symmetry
INVARIANTS TypeOK
PROPERTIES AdminStays PrivilegeIsGranted StrangersChangeNothing

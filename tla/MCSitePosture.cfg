\* Administrator and one more account, one other login method, two hosts.
SPECIFICATION Spec
CONSTANTS
    u1 = u1  admin = admin  ldap = ldap  NoHost = NoHost
    Hosts <- SomeHosts
    None = NoHost
    Users = {u1, admin}
    Administrator = admin
    Providers = {ldap}
    Addresses <- SomeAddresses
    Means <- SomeMeans
INVARIANT VerdictIsHonest
PROPERTIES SavedSettingsWork NobodyStranded

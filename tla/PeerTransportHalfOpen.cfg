CONSTANTS
    MaxBoot = 2
    Conns = {1, 2, 3}
    Unauthenticated = 2
    Authenticated = 2
SPECIFICATION LiveSpec
PROPERTY HalfOpenLinksDoNotBlock
